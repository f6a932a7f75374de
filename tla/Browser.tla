------------------------------ MODULE Browser --------------------------------
(***************************************************************************)
(* The server browser: server_list.cpp and party.cpp together, the player  *)
(* in front of them and the UDP network behind them.                       *)
(*                                                                         *)
(* Both components listen to infoResponse: one handler, in party.cpp,      *)
(* hands every response to the server list first and then looks at it      *)
(* itself.  A question that was sent may be answered never, once or many   *)
(* times, at any later time and in any order: packets are lost, doubled    *)
(* and overtake each other, and answers to the questions of an earlier     *)
(* refresh come in after a new one.                                        *)
(***************************************************************************)
EXTENDS ServerList, Party

\* Whoever the player connects to is a game server.
ASSUME BrowserAssumption == Host \subseteq Address

VARIABLES
  getservers,  \* a getservers packet has been sent to the master server
  getInfo,     \* the getInfo packets sent, as <<address, challenge>>
  forgotten    \* history: connect() calls made before the last refresh

vars == <<serverListVars, partyVars, getservers, getInfo, forgotten>>

\* The challenges of the list's questions are random numbers nobody keeps.
ListChallenge == -1

TypeOK ==
  /\ ServerListTypeOK
  /\ PartyTypeOK
  /\ getservers \in BOOLEAN
  /\ getInfo \subseteq Address \X (Challenge \cup {ListChallenge})
  /\ forgotten \in 0..Cardinality(challenges)

Init ==
  /\ ServerListInit
  /\ PartyInit
  /\ getservers = FALSE
  /\ getInfo = {}
  /\ forgotten = 0
-----------------------------------------------------------------------------
(* The player.                                                             *)

\* Fault: the connection asked for is not forgotten.
RefreshRemembers(resolved) ==
  /\ refresh(resolved)
  /\ getservers' = (getservers \/ resolved)
  /\ forgotten' = Cardinality(challenges)
  /\ UNCHANGED <<partyVars, getInfo>>

\* refresh_server_list: empty the list, forget the connection asked for, and
\* ask the master server if its name resolves.
Refresh(resolved) ==
  /\ refresh(resolved)
  /\ reset_connect_state
  /\ getservers' = (getservers \/ resolved)
  /\ forgotten' = Cardinality(challenges)
  /\ UNCHANGED getInfo

\* What every call of connect() adds: its question.
Ask(target) ==
  /\ getInfo' = getInfo \cup {<<target, NextChallenge>>}
  /\ UNCHANGED forgotten

Connect(target) ==
  /\ connect(target)
  /\ Ask(target)
  /\ UNCHANGED <<serverListVars, getservers>>

Reconnect ==
  /\ reconnect
  /\ Ask(connect_state.host)
  /\ UNCHANGED <<serverListVars, getservers>>

Disconnect ==
  /\ disconnect
  /\ UNCHANGED <<serverListVars, getservers, getInfo, forgotten>>

Select(index) ==
  /\ select(index)
  /\ UNCHANGED <<partyVars, getservers, getInfo, forgotten>>

\* join_server, the second click on a line.
Join(index) ==
  /\ Joins(index)
  /\ Clicked(index) \in Host
  /\ Connect(Clicked(index))

Scroll ==
  /\ scroll_down \/ scroll_up
  /\ UNCHANGED <<partyVars, getservers, getInfo, forgotten>>

Player ==
  \/ \E resolved \in BOOLEAN : Refresh(resolved)
  \/ \E target \in Host : Connect(target)
  \/ Reconnect
  \/ Disconnect
  \/ \E index \in 0..Page - 1 : Select(index) \/ Join(index)
  \/ Scroll
-----------------------------------------------------------------------------
(* The network.                                                            *)

\* The master server's answer; another host may send one as well.
GetServersResponse(from, list) ==
  /\ getservers
  /\ getServersResponse(from, list)
  /\ UNCHANGED <<partyVars, getservers, getInfo, forgotten>>

\* The infoResponse handler of party.cpp, all of it.
InfoResponse(from, challenge, info) ==
  /\ <<from, challenge>> \in getInfo
  /\ handle_info_response(from, info)
  /\ infoResponse(from, challenge, info.joinable)
  /\ UNCHANGED <<getservers, getInfo, forgotten>>

Network ==
  \/ \E list \in SUBSET Address, from \in Address \cup {Master} : GetServersResponse(from, list)
  \/ \E question \in getInfo, info \in Info : InfoResponse(question[1], question[2], info)
-----------------------------------------------------------------------------
(* The main pipeline, the clock and the game.                              *)

\* do_frame_work in a loop on the main pipeline.
Frame ==
  /\ \E chosen \in SUBSET Waiting :
       /\ do_frame_work(chosen)
       /\ getInfo' = getInfo \cup {<<a, ListChallenge>> : a \in chosen}
  /\ UNCHANGED <<partyVars, getservers, forgotten>>

ConnectLater ==
  /\ \E target \in Host : connectLater(target)
  /\ UNCHANGED <<serverListVars, getservers, getInfo, forgotten>>

Tick ==
  /\ ServerListTick
  /\ UNCHANGED <<partyVars, getservers, getInfo, forgotten>>

Game ==
  /\ cgameStarts \/ onlineDataFlags
  /\ UNCHANGED <<serverListVars, getservers, getInfo, forgotten>>

Next == Player \/ Network \/ Frame \/ ConnectLater \/ Tick \/ Game

Spec == Init /\ [][Next]_vars

\* Frames and time go on.  The network owes nothing, the player does nothing
\* unasked.
FairSpec == Spec /\ WF_vars(Frame) /\ WF_vars(Tick)
-----------------------------------------------------------------------------
(* Properties                                                              *)

Times(h) == Cardinality({i \in DOMAIN accepted : accepted[i][1] = h})

AnswersNewest ==
  accepted' # accepted =>
    LET answered == accepted'[Len(accepted')]
    IN /\ answered \in challenges
       /\ answered[2] = Cardinality(challenges) /\ answered[2] > forgotten
ConnectsOnce == \A h \in Host : connects[h] + deferred[h] = Times(h)

\* Whatever is lost, doubled or late, refreshed, left and put off: an info
\* response leads to a connection only if it answers the newest connect() call
\* and no refresh has come since: not an older call, and not a question of the
\* server list to the same host; and each one that does leads to one connection
\* to its host, now or when the online data is there (infoResponse,
\* connect_to_party).  The code forgets a call neither when its answer was
\* accepted nor when the player disconnects: a second copy of the answer is a
\* second connection, also after the disconnect.
JoinsAsAsked == [][AnswersNewest /\ ConnectsOnce']_vars

\* No address stays queued for ever: it is asked, and then it answers, expires
\* or is swept away by a refresh, whatever the network does.
QueueDrains == \A a \in Address : a \in Queued ~> a \notin Queued
=============================================================================
