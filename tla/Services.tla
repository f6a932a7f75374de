------------------------------ MODULE Services ------------------------------
(***************************************************************************)
(* What the emulated Demonware services do with a request: user files kept *)
(* on disk, publisher files served from the disk, from the executable or   *)
(* from the web, groups, matchmaking and the services that only answer.    *)
(* A request is answered by its handler, on the Demonware thread, one at a *)
(* time.  The two ways of storing user files name them differently: the    *)
(* legacy calls by the hash of the name, in hexadecimal digits, the others *)
(* by the name itself.                                                     *)
(***************************************************************************)
EXTENDS Integers, Sequences, FiniteSets, FiniteSetsExt

CONSTANTS
  FileName,   \* the names of user files
  Data        \* contents of user files

VARIABLES
  disk,       \* players2/user: path |-> data
  motd,       \* motd_future: "pending", "taken" or what it holds
  overridden, \* the publisher files that filesystem found on the disk
  groups,     \* bdGroup::groups
  answer,     \* the last answer
  kept,       \* of each way of storing, the data written last under a name
  motd_text        \* what the web answered for the message of the day

servicesVars == <<disk, motd, overridden, groups, answer, kept, motd_text>>

-----------------------------------------------------------------------------
BD_NO_FILE == "BD_NO_FILE"
NoData == "none"

\* An answer to a request, with the objects it carries.
Reply(request, name, listed) ==
  [request |-> request, name |-> name, error |-> "none", objects |-> listed]
Failure(request, name) ==
  [request |-> request, name |-> name, error |-> BD_NO_FILE, objects |-> {}]

FileData(data) == [file_data |-> data]
FileInfo(name, data) == [filename |-> name, data |-> data]

\* sha1::compute of the name, the first eight bytes; names do not collide.
id_string(name) == <<"%llX", name>>
get_user_file_path(name) == <<"players2/user", name>>

\* No user file has the digits of another's hash for a name.
ASSUME ServicesAssumption ==
  /\ NoData \notin Data
  /\ \A name \in FileName : id_string(name) \notin FileName

Found(path) == path \in DOMAIN disk

\* io::write_file; where the file cannot be opened its answer is not looked at.
write_file(path, data, opens) ==
  disk' = IF opens THEN [p \in DOMAIN disk \cup {path} |-> IF p = path THEN data ELSE disk[p]]
          ELSE disk

Keeps(way, name, data, opens) ==
  kept' = IF opens THEN [kept EXCEPT ![way][name] = data] ELSE kept

StorageSame == UNCHANGED <<motd, overridden, groups, motd_text>>
FilesSame == UNCHANGED <<disk, kept>> /\ StorageSame

-----------------------------------------------------------------------------
(* bdStorage. *)

set_legacy_user_file(name, data, opens) ==
  /\ write_file(get_user_file_path(id_string(name)), data, opens)
  /\ answer' = Reply("set_legacy_user_file", name, {FileInfo(name, data)})
  /\ Keeps("legacy", name, data, opens)
  /\ StorageSame

\* The caller has the id from the answer to set_legacy_user_file.
update_legacy_user_file(name, data, opens) ==
  /\ write_file(get_user_file_path(id_string(name)), data, opens)
  /\ answer' = Reply("update_legacy_user_file", name, {FileInfo("<>", data)})
  /\ Keeps("legacy", name, data, opens)
  /\ StorageSame

File(request, name, path) ==
  IF Found(path) THEN Reply(request, name, {FileData(disk[path])})
                 ELSE Failure(request, name)

\* A bug: the legacy file is looked for under its name, as the list does.
get_legacy_by_name(name) ==
  /\ answer' = File("get_legacy_user_file", name, get_user_file_path(name))
  /\ FilesSame

get_legacy_user_file(name) ==
  /\ answer' = File("get_legacy_user_file", name, get_user_file_path(id_string(name)))
  /\ FilesSame

\* Looks under the name, not under the id.
list_legacy_user_files(name) ==
  LET path == get_user_file_path(name)
  IN /\ answer' = Reply("list_legacy_user_files", name,
                        IF Found(path) THEN {FileInfo(name, disk[path])} ELSE {})
     /\ FilesSame

set_user_file(name, data, opens) ==
  /\ write_file(get_user_file_path(name), data, opens)
  /\ answer' = Reply("set_user_file", name, {FileInfo(name, data)})
  /\ Keeps("user", name, data, opens)
  /\ StorageSame

get_user_file(name) ==
  /\ answer' = File("get_user_file", name, get_user_file_path(name))
  /\ FilesSame

\* "Really remove the file?"
delete_user_file(name) ==
  /\ answer' = Reply("delete_user_file", name, {})
  /\ FilesSame

\* The names each expression of publisher_resources_ matches; none matches two.
Mapped == {"newsfeed", "mm", "playlists", "social", "entitlement_config"}
Published == Mapped \cup {"motd", "heatmap"}
PublisherName == Published \cup {"unknown"}

Resource(name) == <<"resource", name>>
OnDisk(name) == <<"dw", name>>

\* motd::get_text: the future can be got from once; afterwards, and where the
\* web had no answer, it is the text of the executable.
get_text == IF motd \in {"taken", "failed"} THEN Resource("motd") ELSE <<motd, "motd">>

load_publisher_resource(name) ==
  IF name = "motd" THEN get_text
  ELSE IF name \in Mapped /\ name \in overridden THEN OnDisk(name) ELSE Resource(name)

\* Getting the text waits for the web's answer.
Loads(name) ==
  /\ name = "motd" => motd # "pending"
  /\ motd' = IF name = "motd" THEN "taken" ELSE motd
  /\ UNCHANGED <<disk, overridden, groups, kept, motd_text>>

list_publisher_files(name) ==
  /\ Loads(name)
  /\ answer' = Reply("list_publisher_files", name,
                     IF name \in Published
                     THEN {FileInfo(name, load_publisher_resource(name))} ELSE {})

get_publisher_file(name) ==
  /\ Loads(name)
  /\ answer' = IF name \in Published
               THEN Reply("get_publisher_file", name,
                          {FileData(load_publisher_resource(name))})
               ELSE Failure("get_publisher_file", name)

\* http::get_data_async comes back.
WebAnswers ==
  /\ motd = "pending"
  /\ \E t \in {"web", "failed"} : motd' = t /\ motd_text' = t
  /\ UNCHANGED <<disk, overridden, groups, answer, kept>>

-----------------------------------------------------------------------------
(* The other services. *)

GroupId == 0..1
GroupLimit == 1   \* ARRAYSIZE(groups), which is larger

set_groups == answer' = Reply("set_groups", NoData, {}) /\ FilesSame

get_groups(ids) ==
  LET valid == {i \in ids : i < GroupLimit}
  IN /\ groups' = [i \in DOMAIN groups |-> IF i \in valid THEN 999 ELSE groups[i]]
     /\ answer' = Reply("get_groups", NoData,
                        {[group_id |-> i,
                          group_count |-> IF i \in valid THEN 999 ELSE 0] : i \in ids})
     /\ UNCHANGED <<disk, kept, motd, overridden, motd_text>>

\* bdMatchMaking: nothing enters a session, so there is none to find.
create_session ==
  answer' = Reply("create_session", NoData, {[session_id |-> "steam_id"]}) /\ FilesSame
update_session == answer' = Reply("update_session", NoData, {}) /\ FilesSame
delete_session == answer' = Reply("delete_session", NoData, {}) /\ FilesSame
find_sessions_two_pass ==
  answer' = Reply("find_sessions_two_pass", NoData, {}) /\ FilesSame
get_performance ==
  answer' = Reply("get_performance", NoData,
                  {[user_id |-> "steam_id", performance |-> 10]}) /\ FilesSame

get_server_time ==
  answer' = Reply("get_server_time", NoData, {[unix_time |-> "now"]}) /\ FilesSame

get_user_raw_data ==
  answer' = Reply("get_user_raw_data", NoData,
                  {[country_code |-> "'Murica", region |-> "New York"]}) /\ FilesSame

report_console_details ==
  answer' = Reply("report_console_details", NoData, {}) /\ FilesSame

bandwidth_test == answer' = Reply("bandwidth_test", NoData, {"bandwidth_iw6"}) /\ FilesSame

get_credentials ==
  answer' = Reply("get_credentials", NoData,
                  {[user_ids |-> <<"steam_id", 6659286>>, user_files |-> <<"pc", "ucd">>]})
  /\ FilesSame

get_credentials_from_ticket ==
  answer' = Reply("get_credentials_from_ticket", NoData,
                  {[user_ids |-> <<"fake", "steam_id", "fake">>,
                    user_files |-> <<"youtube", "steam", "uno">>]})
  /\ FilesSame

\* A subservice nobody registered is not answered.
call_unknown == UNCHANGED servicesVars

-----------------------------------------------------------------------------
\* register_service; a service that overrides call_service has one subservice.
OnFile(name) ==
  \/ \E data \in Data, opens \in BOOLEAN :
       \/ set_legacy_user_file(name, data, opens)
       \/ update_legacy_user_file(name, data, opens)
       \/ set_user_file(name, data, opens)
  \/ get_legacy_user_file(name)
  \/ list_legacy_user_files(name)
  \/ get_user_file(name)
  \/ delete_user_file(name)

Other ==
  \/ set_groups
  \/ \E ids \in SUBSET GroupId : get_groups(ids)
  \/ create_session \/ update_session \/ delete_session
  \/ find_sessions_two_pass \/ get_performance
  \/ get_server_time \/ get_user_raw_data \/ report_console_details
  \/ bandwidth_test \/ get_credentials \/ get_credentials_from_ticket

call_service ==
  \/ \E name \in FileName : OnFile(name)
  \/ \E name \in PublisherName : list_publisher_files(name) \/ get_publisher_file(name)
  \/ Other
  \/ call_unknown

ServicesInit ==
  /\ disk = << >>
  /\ motd = "pending"
  /\ overridden \in {{}, {"mm"}}
  /\ groups = [i \in 0..GroupLimit - 1 |-> 0]
  /\ answer = Reply("none", NoData, {})
  /\ kept = [way \in {"legacy", "user"} |-> [name \in FileName |-> NoData]]
  /\ motd_text = "pending"

ServicesNext == call_service \/ WebAnswers

-----------------------------------------------------------------------------
(* Properties. *)

\* Where a publisher file can be from.
Sources(name) ==
  IF name = "motd"
  THEN {Resource("motd")} \cup (IF motd_text = "web" THEN {<<"web", "motd">>} ELSE {})
  ELSE IF name \in overridden THEN {OnDisk(name)} ELSE {Resource(name)}

\* A user file is served as it was last written under its name by the calls of
\* the same kind, and is missing only if it never was, whatever the others wrote
\* or deleted; a publisher file is served whenever it is known, from the disk if
\* it was found there; and the message of the day is what the web said or what
\* the executable says.
StoredIsServed ==
  LET Served(request, way) ==
        answer.request = request =>
          LET data == kept[way][answer.name]
          IN IF data = NoData THEN answer.error = BD_NO_FILE
             ELSE answer.objects = {FileData(data)}
  IN /\ Served("get_legacy_user_file", "legacy")
     /\ Served("get_user_file", "user")
     /\ answer.request = "get_publisher_file" =>
          IF answer.name \notin Published THEN answer.error = BD_NO_FILE
          ELSE \E o \in answer.objects : o.file_data \in Sources(answer.name)
=============================================================================
