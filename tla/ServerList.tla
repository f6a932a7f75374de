----------------------------- MODULE ServerList ------------------------------
(***************************************************************************)
(* client/component/server_list.cpp: the list of servers a player browses. *)
(*                                                                         *)
(* A refresh empties the list and asks the master server for addresses.    *)
(* The answer fills queued_servers; every frame asks a few of the queued   *)
(* servers for their info and gives up on those that stay silent; an info  *)
(* response moves its server from the queue to the sorted list.  All of it *)
(* runs on the main thread, so each handler is one step; what interleaves  *)
(* are the handlers, the frames, the player and the network.               *)
(*                                                                         *)
(* The value queued_servers holds for an address is 0 until it is asked    *)
(* and then the time of asking.  Unasked stands for 0 and the age of the   *)
(* question, now - time, for the rest; ages are not told apart beyond the  *)
(* first one that is too old, Timeout + 1.                                 *)
(***************************************************************************)
EXTENDS Integers, Sequences, SequencesExt

CONSTANTS
  Address,     \* the addresses of game servers
  Master,      \* what get_master_server resolves to
  Info,        \* what a server answers: [players, listable, joinable]
  Timeout,     \* 10'000 ms, in ticks
  QueryLimit,  \* query_limit: questions in one frame
  Page         \* 16: lines the menu shows

ASSUME ServerListAssumption ==
  /\ Master \notin Address
  /\ Timeout \in Nat /\ QueryLimit \in Nat \ {0} /\ Page \in Nat \ {0}
  /\ Info \subseteq [players : Nat, listable : BOOLEAN, joinable : BOOLEAN]

VARIABLES
  servers,            \* Seq(Server)
  queued_servers,     \* [Address -> Queue] master_state.queued_servers
  requesting,         \* master_state.requesting
  server_list_index,  \* first line shown
  last_index,         \* join_server's static, the line clicked last
  asked               \* history: questions sent to each address since the refresh

serverListVars ==
  <<servers, queued_servers, requesting, server_list_index, last_index, asked>>

Absent  == -2
Unasked == -1
Queue   == {Absent, Unasked} \cup 0..Timeout + 1
Server  == [address : Address, players : Nat, ping : 0..Timeout + 1]

Queued   == {a \in Address : queued_servers[a] # Absent}
Waiting  == {a \in Address : queued_servers[a] = Unasked}
Listed   == {servers[k].address : k \in DOMAIN servers}

ServerListTypeOK ==
  /\ servers \in Seq(Server)
  /\ queued_servers \in [Address -> Queue]
  /\ requesting \in BOOLEAN
  /\ server_list_index \in Nat
  /\ last_index \in Int
  /\ asked \in [Address -> Nat]

ServerListInit ==
  /\ servers = <<>>
  /\ queued_servers = [a \in Address |-> Absent]
  /\ requesting = FALSE
  /\ server_list_index = 0
  /\ last_index = -1
  /\ asked = [a \in Address |-> 0]
-----------------------------------------------------------------------------
\* Fault: the menu stays scrolled.
RefreshScrolled(resolved) ==
  /\ servers' = <<>>
  /\ queued_servers' = [a \in Address |-> Absent]
  /\ requesting' = (requesting \/ resolved)
  /\ asked' = [a \in Address |-> 0]
  /\ UNCHANGED <<server_list_index, last_index>>

\* The part of refresh_server_list that is not party::reset_connect_state.
\* resolved: get_master_server found the address, and getservers is sent.
refresh(resolved) ==
  /\ servers' = <<>>
  /\ queued_servers' = [a \in Address |-> Absent]
  /\ server_list_index' = 0
  /\ requesting' = (requesting \/ resolved)
  /\ asked' = [a \in Address |-> 0]
  /\ UNCHANGED last_index

\* The handler of getServersResponse, for the addresses it parses.
getServersResponse(from, list) ==
  /\ requesting /\ from = Master
  /\ requesting' = FALSE
  /\ queued_servers' = [a \in Address |-> IF a \in list THEN Unasked ELSE queued_servers[a]]
  /\ UNCHANGED <<servers, server_list_index, last_index, asked>>

\* Fault: silent servers are kept.
ExpiredNever == {}

\* do_frame_work walks the queue in hash order: servers silent for too long
\* leave it, the first QueryLimit servers not asked yet are asked now.
Expired == {a \in Queued : queued_servers[a] > Timeout}

ToAsk(chosen) ==
  /\ chosen \subseteq Waiting
  /\ Cardinality(chosen) = Min({QueryLimit, Cardinality(Waiting)})

do_frame_work(chosen) ==
  /\ Queued # {}
  /\ ToAsk(chosen)
  /\ queued_servers' = [a \in Address |->
       IF a \in Expired THEN Absent ELSE IF a \in chosen THEN 0 ELSE queued_servers[a]]
  /\ asked' = [a \in Address |-> asked[a] + (IF a \in chosen THEN 1 ELSE 0)]
  /\ UNCHANGED <<servers, requesting, server_list_index, last_index>>

\* The order of sort_serverlist: more players first, then the shorter ping.
Before(s, t) ==
  \/ s.players > t.players
  \/ s.players = t.players /\ s.ping < t.ping

\* stable_sort: a line comes behind those that go before it and behind its
\* equals that stood ahead of it.
Rank(list, k) ==
  Cardinality({j \in DOMAIN list :
    Before(list[j], list[k]) \/ (j <= k /\ ~Before(list[k], list[j]))})
sort_serverlist(list) ==
  [n \in DOMAIN list |-> list[CHOOSE k \in DOMAIN list : Rank(list, k) = n]]

insert_server(s) == servers' = sort_serverlist(Append(servers, s))

\* handle_info_response: answers nobody waits for are ignored; the server
\* leaves the queue and is listed unless the player's filters exclude it.
Awaited(a) == queued_servers[a] \notin {Absent, Unasked}

\* Fault: the server is not erased from the queue.
HandleKeepsQueued(a, info) ==
  IF ~Awaited(a) THEN UNCHANGED serverListVars
  ELSE
    /\ IF info.listable
       THEN insert_server([address |-> a, players |-> info.players,
                           ping |-> queued_servers[a]])
       ELSE UNCHANGED servers
    /\ UNCHANGED <<queued_servers, requesting, server_list_index, last_index, asked>>

handle_info_response(a, info) ==
  IF ~Awaited(a) THEN UNCHANGED serverListVars
  ELSE
    /\ queued_servers' = [queued_servers EXCEPT ![a] = Absent]
    /\ IF info.listable
       THEN insert_server([address |-> a, players |-> info.players,
                           ping |-> queued_servers[a]])
       ELSE UNCHANGED servers
    /\ UNCHANGED <<requesting, server_list_index, last_index, asked>>

scroll_down ==
  /\ server_list_index + Page < Len(servers)
  /\ server_list_index' = server_list_index + 1
  /\ UNCHANGED <<servers, queued_servers, requesting, last_index, asked>>

scroll_up ==
  /\ server_list_index > 0
  /\ server_list_index' = server_list_index - 1
  /\ UNCHANGED <<servers, queued_servers, requesting, last_index, asked>>

\* join_server: a click selects a line, a second click on it joins.  index is
\* the line on the screen, counted from 0.
Line(index) == index + server_list_index
Selects(index) == Line(index) < Len(servers) /\ last_index # Line(index)
Joins(index)   == Line(index) < Len(servers) /\ last_index = Line(index)
Clicked(index) == servers[Line(index) + 1].address

select(index) ==
  /\ Selects(index)
  /\ last_index' = Line(index)
  /\ UNCHANGED <<servers, queued_servers, requesting, server_list_index, asked>>

\* ui_feeder_count: size_t arithmetic, cast to int.
ui_feeder_count == Len(servers) - server_list_index

\* Sys_Milliseconds advances.
ServerListTick ==
  /\ queued_servers' = [a \in Address |->
       IF Awaited(a) /\ queued_servers[a] <= Timeout
       THEN queued_servers[a] + 1 ELSE queued_servers[a]]
  /\ UNCHANGED <<servers, requesting, server_list_index, last_index, asked>>
-----------------------------------------------------------------------------
(* Properties                                                              *)

\* No server is listed twice, and none is listed while it is still queued:
\* late, repeated and crossing answers never produce a second line.
ListedOnce ==
  /\ \A j, k \in DOMAIN servers : servers[j].address = servers[k].address => j = k
  /\ Listed \cap Queued = {}

\* Between two refreshes a server is asked for its info at most once, and
\* what is listed or awaited has been asked since the last one: an answer to
\* the question of an earlier refresh alone lists nothing.
AskedOnce ==
  \A a \in Address :
    /\ asked[a] <= 1
    /\ a \in Waiting => asked[a] = 0
    /\ a \in Listed \/ Awaited(a) => asked[a] = 1

\* Between two refreshes a server takes part once: one question, one line.
OncePerRefresh == ListedOnce /\ AskedOnce

\* The list is sorted whenever a frame can draw it.
Sorted == \A j, k \in DOMAIN servers : j < k => ~Before(servers[k], servers[j])

\* The lines the menu draws exist: the count given to the feeder is never
\* negative, and a scrolled menu is full.
ScrolledWithinList ==
  /\ ui_feeder_count >= 0
  /\ server_list_index > 0 => server_list_index + Page <= Len(servers)

\* What a frame draws: lines that exist, in their order (ui_feeder_count,
\* ui_feeder_item_text).
DrawnRight == Sorted /\ ScrolledWithinList
=============================================================================
