------------------------------- MODULE Party ---------------------------------
(***************************************************************************)
(* client/component/party.cpp: joining a server.                           *)
(*                                                                         *)
(* connect() remembers the host and a fresh challenge and asks the host    *)
(* for its info; the info response that answers the challenge connects to  *)
(* the host.  While the online data is being synchronized the connection   *)
(* is put off, by a task on the main pipeline, for a second at a time.     *)
(* All of it runs on the main thread.                                      *)
(***************************************************************************)
EXTENDS Integers, Sequences, FiniteSets

CONSTANTS
  Host,         \* addresses the player connects to
  NoHost,       \* game::netadr_s{}
  MaxConnects,  \* BOUND: connect() calls
  MaxAccepts    \* BOUND: info responses that connect

ASSUME PartyAssumption == NoHost \notin Host /\ MaxConnects \in Nat /\ MaxAccepts \in Nat

VARIABLES
  connect_state,  \* [host, challenge, hostDefined]
  deferred,       \* host -> connect_to_party tasks for it on the main pipeline
  syncing,        \* Live_SyncOnlineDataFlags(0) is not 0
  cgame,          \* CL_IsCgameInitialized()
  connection,     \* the last target given to CL_ConnectFromParty
  challenges,     \* history: <<host, challenge>> of every connect() call
  accepted,       \* history: what the info responses that connected answered
  connects        \* history: host -> CL_ConnectFromParty calls for it

partyVars ==
  <<connect_state, deferred, syncing, cgame, connection, challenges, accepted, connects>>

\* get_challenge is random; every call is taken to give a new number, and 0
\* stands for the empty string.
Challenge == 0..MaxConnects
NoState == [host |-> NoHost, challenge |-> 0, hostDefined |-> FALSE]

PartyTypeOK ==
  /\ connect_state \in
       [host : Host \cup {NoHost}, challenge : Challenge, hostDefined : BOOLEAN]
  /\ deferred \in [Host -> Nat]
  /\ syncing \in BOOLEAN
  /\ cgame \in BOOLEAN
  /\ connection \in Host \cup {NoHost}
  /\ challenges \subseteq Host \X Challenge
  /\ accepted \in Seq(challenges)
  /\ connects \in [Host -> Nat]

PartyInit ==
  /\ connect_state = NoState
  /\ deferred = [h \in Host |-> 0]
  /\ syncing \in BOOLEAN
  /\ cgame = FALSE
  /\ connection = NoHost
  /\ challenges = {}
  /\ accepted = <<>>
  /\ connects = [h \in Host |-> 0]
-----------------------------------------------------------------------------
reset_connect_state ==
  /\ connect_state' = NoState
  /\ UNCHANGED <<deferred, syncing, cgame, connection, challenges, accepted, connects>>

\* connect remembers whom it asks with which challenge, and sends getInfo.
NextChallenge == Cardinality(challenges) + 1
remember(target) ==
  /\ NextChallenge <= MaxConnects
  /\ connect_state' =
       [host |-> target, challenge |-> NextChallenge, hostDefined |-> TRUE]
  /\ challenges' = challenges \cup {<<target, NextChallenge>>}

connect(target) ==
  /\ remember(target)
  /\ UNCHANGED <<deferred, syncing, cgame, connection, accepted, connects>>

\* The reconnect command while the client game is up puts "disconnect" and
\* itself into the command buffer, which the game empties before it does
\* anything else: CL_Disconnect shuts the client game down, and the second
\* reconnect connects to the host remembered.
reconnect ==
  /\ connect_state.hostDefined
  /\ remember(connect_state.host)
  /\ cgame' = FALSE
  /\ connection' = (IF cgame THEN NoHost ELSE connection)
  /\ UNCHANGED <<deferred, syncing, accepted, connects>>

\* disconnect_stub: CL_Disconnect.  The connection asked for is remembered.
disconnect ==
  /\ connection # NoHost
  /\ connection' = NoHost
  /\ cgame' = FALSE
  /\ UNCHANGED <<connect_state, deferred, syncing, challenges, accepted, connects>>

CL_ConnectFromParty(target) ==
  /\ connection' = target
  /\ connects' = [connects EXCEPT ![target] = @ + 1]

\* connect_to_party: put off while the online data is synchronized.
connect_to_party(target) ==
  IF syncing
  THEN /\ deferred' = [deferred EXCEPT ![target] = @ + 1]
       /\ UNCHANGED <<connection, connects>>
  ELSE /\ CL_ConnectFromParty(target)
       /\ UNCHANGED deferred

Answers(target, challenge) ==
  /\ connect_state.host = target
  /\ connect_state.challenge = challenge

\* The second half of the infoResponse handler.  joinable stands for the
\* checks on map, gametype, game name and password.  Nothing is remembered of
\* an answer that was accepted: a copy of it is accepted again.
infoResponse(target, challenge, joinable) ==
  IF Answers(target, challenge) /\ joinable
  THEN /\ Len(accepted) < MaxAccepts
       /\ connect_to_party(target)
       /\ accepted' = Append(accepted, <<target, challenge>>)
       /\ UNCHANGED <<connect_state, syncing, cgame, challenges>>
  ELSE UNCHANGED partyVars

\* The task of a connection put off: it puts itself off again or connects.
connectLater(target) ==
  /\ deferred[target] > 0
  /\ ~syncing
  /\ deferred' = [deferred EXCEPT ![target] = @ - 1]
  /\ CL_ConnectFromParty(target)
  /\ UNCHANGED <<connect_state, syncing, cgame, challenges, accepted>>

\* The game: the client game comes up after a connection, the flags change.
cgameStarts ==
  /\ connection # NoHost /\ ~cgame
  /\ cgame' = TRUE
  /\ UNCHANGED <<connect_state, deferred, syncing, connection, challenges, accepted, connects>>

onlineDataFlags ==
  /\ syncing' = ~syncing
  /\ UNCHANGED <<connect_state, deferred, cgame, connection, challenges, accepted, connects>>
=============================================================================
