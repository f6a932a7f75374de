------------------------------- MODULE Stats -------------------------------
(***************************************************************************)
(* client/component/stats.cpp: the commands that read and set the player's *)
(* statistics in the game's buffer, and unlock all of them.                *)
(*                                                                         *)
(* The buffer is a value for each reserved name of a group and for each    *)
(* path of names in a group; the game writes all of it when it has been    *)
(* told that a write is needed, at the latest when it closes, and reads it *)
(* when it starts.  A number in a path is the string that is written the   *)
(* same, so a path is a sequence of strings.  The prestige of the squad    *)
(* members, set in the game's memory directly, is left out.                *)
(***************************************************************************)
EXTENDS Integers, Sequences, SequencesExt

CONSTANTS
  CommonName, CoopName,  \* names of playerdata.def: structs 23 and 22
  StatPath,              \* paths the commands are given
  ReservedName,          \* names setReservedPlayerDataInt is given
  StatValue,
  SquadMember,           \* BOUND: of ten
  Loadout,               \* BOUND: of six
  UnlockItem,            \* squadunlocktable.csv, column 3; "" in some rows
  Purchase,              \* unlocktable.csv, the squad's purchases
  Challenge              \* allchallengestable.csv: by name, the eight columns of progress

\* The structs have the names where unlockstats writes them.
ASSUME StatsAssumption ==
  /\ StatValue \subseteq Int /\ \A p \in StatPath : p # <<>>
  /\ \A c \in DOMAIN Challenge : Challenge[c] \in Seq(Nat)
  /\ "pastTitleData" \in CommonName /\ "alienPlayerStats" \in CoopName \ CommonName
  /\ "squadMembers" \notin CommonName \cup CoopName

VARIABLES
  player_data,   \* the buffer: values of <<"reserved" or "data", group, path>>
  player_file,   \* what was written of it
  write_needed,
  stat_given     \* history: the answer each question should have, and how well it is kept

statsVars == <<player_data, player_file, write_needed, stat_given>>

-----------------------------------------------------------------------------
(* Groups.                                                                 *)

ReservedNames ==
  {"extinction_purchase_flags", "extinction_tokens", "extinction_crafted_flags",
   "upgrades_enabled_flags", "relics_enabled_flags", "bonus_pool_size", "bonus_pool_deadline",
   "prestigeLevel", "mp_announcer_type"}
is_reserved_lookup_string(name) == name \in ReservedNames

get_statsgroup_for_reserved_lookup_string(name) ==
  CASE name = "prestigeLevel" -> "ranked"
    [] name = "mp_announcer_type" -> "common"
    [] OTHER -> "coop"

\* A name of both is common.
get_statsgroup_for_lookup_string(name) ==
  CASE name \in CommonName -> "common"
    [] name \in CoopName \ CommonName -> "coop"
    [] OTHER -> "ranked"

ReservedKey(name) ==
  <<"reserved", get_statsgroup_for_reserved_lookup_string(name), <<name>>>>
PathKey(path) == <<"data", get_statsgroup_for_lookup_string(Head(path)), path>>

\* The later of two writes of the same place counts.
One(k, value) == [j \in {k} |-> value]
Over(later, data) ==
  [k \in DOMAIN later \cup DOMAIN data |-> IF k \in DOMAIN later THEN later[k] ELSE data[k]]
Same(group, paths, value) == [k \in {<<"data", group, p>> : p \in paths} |-> value]

-----------------------------------------------------------------------------
(* unlockstats.                                                            *)

set_player_data_for_lookup_string(group, name, data) ==
  [k \in {<<"data", group, <<name, d>>>> : d \in DOMAIN data} |-> data[k[3][2]]]

register_squadmembers_purchase ==
  Over(Same("ranked", {<<"challengeProgress", p>> : p \in Purchase}, 1),
       Same("ranked", {<<"challengeState", p>> : p \in Purchase}, 2))

\* For every member; rows without an item are left out.
unlock_all_squadmember ==
  LET Of(paths, value) == Same("ranked", paths, value)
  IN Over(Of({<<"squadMembers", m, n>> : m \in SquadMember, n \in {"inUse", "defaultSet"}}, 1),
     Over(Of({<<"squadMembers", m, "squadMemXP">> : m \in SquadMember}, 1230080),
     Over(Of({<<"squadMembers", m, "loadouts", l, "inUse">> : m \in SquadMember, l \in Loadout}, 2),
          Of({<<"squadMembers", m, "challengeState", i>> :
                m \in SquadMember, i \in UnlockItem \ {""}}, 2))))

ReservedIs(name, value) == One(ReservedKey(name), value)

unlock_all_extinction ==
  Over(ReservedIs("extinction_tokens", 5000),
  Over(ReservedIs("extinction_purchase_flags", -1),
       set_player_data_for_lookup_string("coop", "alienPlayerStats",
         [prestige |-> 25, experience |-> 1845000, rank |-> 31, revives |-> 100,
          kills |-> 10000, escaped |-> 10, headShots |-> 5])))

unlock_all_multiplayer ==
  Over(Same("ranked", {<<"unlockPoints">>}, 5000),
  Over(ReservedIs("prestigeLevel", 10),
  Over(register_squadmembers_purchase, unlock_all_squadmember)))

\* The tiers of a challenge end at the first without progress.
Tiers(columns) ==
  LET first == SelectInSeq(columns, LAMBDA progress : progress = 0)
  IN IF first = 0 THEN Len(columns) ELSE first - 1
MaxState(columns) == IF Tiers(columns) = 0 THEN 0 ELSE Tiers(columns) + 1
MaxProgress(columns) == IF Tiers(columns) = 0 THEN 0 ELSE columns[Tiers(columns)]

unlock_all_challenges ==
  [k \in {<<"data", "ranked", <<n, c>>>> :
            n \in {"challengeState", "challengeProgress"}, c \in DOMAIN Challenge} |->
     IF k[3][1] = "challengeState" THEN MaxState(Challenge[k[3][2]])
     ELSE MaxProgress(Challenge[k[3][2]])]

unlock_past_title_backgrounds ==
  set_player_data_for_lookup_string("common", "pastTitleData",
    [playedmw3 |-> 1, playedblackops2 |-> 1, mw3prestige |-> 20, blackops2prestige |-> 11])

AllUnlocked ==
  Over(unlock_past_title_backgrounds,
  Over(unlock_all_challenges,
  Over(unlock_all_multiplayer, unlock_all_extinction)))

-----------------------------------------------------------------------------
(* The commands.                                                           *)

StatsWriteNeeded == write_needed' = TRUE

\* What a get command reads.
getReservedPlayerDataInt(name) ==
  <<"reserved", get_statsgroup_for_reserved_lookup_string(name), <<name>>>>
getPlayerDataInt(path) == <<"data", get_statsgroup_for_lookup_string(Head(path)), path>>

\* The history.  A question is what a get command is asked; its answer is what was
\* given to the set command last, or what unlockstats says.  An answer is "unsaved"
\* until a write is needed, which is of the whole buffer, and "written" after it.
ReservedQuestion(name) == <<"reserved", <<name>>>>
PathQuestion(path) == <<"data", path>>

PlaceAsked(q) == IF q[1] = "reserved" THEN getReservedPlayerDataInt(q[2][1]) ELSE getPlayerDataInt(q[2])

Answered(answers, forgotten, needed) ==
  stat_given' =
    [q \in DOMAIN answers \cup (DOMAIN stat_given \ forgotten) |->
       IF q \in DOMAIN answers
       THEN [value |-> answers[q], kept |-> IF needed THEN "needed" ELSE "unsaved"]
       ELSE [value |-> stat_given[q].value,
             kept |-> IF needed /\ stat_given[q].kept = "unsaved" THEN "needed"
                      ELSE stat_given[q].kept]]

setReservedPlayerDataInt(name, value) ==
  /\ IF is_reserved_lookup_string(name)
     THEN /\ player_data' = Over(ReservedIs(name, value), player_data)
          /\ Answered(One(ReservedQuestion(name), value), {}, write_needed)
     ELSE UNCHANGED <<player_data, stat_given>>
  /\ UNCHANGED <<player_file, write_needed>>

setPlayerDataInt(path, value) ==
  /\ player_data' = Over(One(PathKey(path), value), player_data)
  /\ Answered(One(PathQuestion(path), value), {}, TRUE)
  /\ StatsWriteNeeded
  /\ UNCHANGED player_file

\* What unlockstats says of the places it writes, these for the rest; of the others
\* it says nothing, and what was given before stays.
Unlocks ==
  Over(One(ReservedQuestion("prestigeLevel"), 10),
  Over(One(PathQuestion(<<"pastTitleData", "mw3prestige">>), 20),
  Over(One(PathQuestion(<<"alienPlayerStats", "rank">>), 31),
       [q \in {PathQuestion(<<"squadMembers", m, "inUse">>) : m \in SquadMember} |-> 1])))

unlockstats ==
  /\ player_data' = Over(AllUnlocked, player_data)
  /\ Answered(Unlocks, {q \in DOMAIN stat_given : PlaceAsked(q) \in DOMAIN AllUnlocked}, TRUE)
  /\ StatsWriteNeeded
  /\ UNCHANGED player_file

-----------------------------------------------------------------------------
(* The game.                                                               *)

Written(questions) ==
  stat_given' = [q \in questions |-> [value |-> stat_given[q].value, kept |-> "written"]]

LiveStorage_Write ==
  /\ write_needed
  /\ player_file' = player_data /\ write_needed' = FALSE
  /\ Written(DOMAIN stat_given)
  /\ UNCHANGED player_data

\* The game starts again with what is in the file; an answer that was not sure to
\* be kept is given no more.
StartsWith(onfile, sure) ==
  /\ player_file' = onfile /\ player_data' = onfile /\ write_needed' = FALSE
  /\ Written({q \in DOMAIN stat_given : stat_given[q].kept \in sure})

\* A close writes what is needed; a crash does not.
GameCloses == StartsWith(IF write_needed THEN player_data ELSE player_file, {"needed", "written"})
GameCrashes == StartsWith(player_file, {"written"})

-----------------------------------------------------------------------------
StatsInit ==
  /\ player_data = <<>> /\ player_file = <<>> /\ write_needed = FALSE
  /\ stat_given = <<>>

StatsNext ==
  \/ \E value \in StatValue :
       \/ \E name \in ReservedName : setReservedPlayerDataInt(name, value)
       \/ \E path \in StatPath : setPlayerDataInt(path, value)
  \/ unlockstats
  \/ LiveStorage_Write
  \/ GameCloses \/ GameCrashes

StatsSpec == StatsInit /\ [][StatsNext]_statsVars

-----------------------------------------------------------------------------
(* Property.                                                               *)

\* What setPlayerDataInt, setReservedPlayerDataInt and unlockstats are given or say
\* is what getPlayerDataInt and getReservedPlayerDataInt answer, until another
\* command says otherwise: also after the game was closed and started again, and
\* after a crash if it was written before.  A reserved value sticks only if
\* something else is written too: setReservedPlayerDataInt does not ask for a write
\* as the other two do, so what it sets may be lost when the game closes
\* (stats.cpp, setReservedPlayerDataInt).
StatsStick ==
  \A q \in DOMAIN stat_given :
    LET given == stat_given[q]
        Has(data) == PlaceAsked(q) \in DOMAIN data /\ data[PlaceAsked(q)] = given.value
    IN /\ Has(player_data)
       /\ given.kept = "needed" => write_needed
       /\ given.kept = "written" => Has(player_file)
=============================================================================
