-------------------------------- MODULE Bots --------------------------------
(***************************************************************************)
(* client/component/bots.cpp: bots of a server, added, spawned, sent to a  *)
(* team and looked after by tasks of the scheduler's server pipeline, and  *)
(* their names, which the master server gives.                             *)
(*                                                                         *)
(* The tasks of the pipeline are pending until they run, in any order (the *)
(* delays are left out; scheduler.cpp has a module of its own).  A task    *)
(* knows a bot by the number of its slot, which the bot can leave to       *)
(* somebody else meanwhile.                                                *)
(***************************************************************************)
EXTENDS Integers, FiniteSets

CONSTANTS
  BotSlot,       \* svs_clients
  BotName,       \* names the master server can give
  OwnName,       \* a name of the game's own
  MaxBots,       \* BOUND: add_bot tasks given, and
  MaxDepartures  \* BOUND: departures

ASSUME BotsAssumption ==
  /\ OwnName \notin BotName /\ "none" \notin BotSlot /\ IsFiniteSet(BotSlot)
  /\ MaxBots \in Nat /\ MaxDepartures \in Nat

VARIABLES
  server_loaded,
  bot_client,              \* who is in each slot, and of which team
  bot_tasks,           \* how often each task is pending
  bot_names_received,
  bot_names,
  bot_named,           \* history: the name of the last bot
  departures,          \* history: bots that left each slot
  commanded            \* history: the slots where somebody who is no bot was commanded

botNameVars == <<bot_names_received, bot_names>>
botVars == <<server_loaded, bot_client, bot_tasks, botNameVars, bot_named, departures, commanded>>

NoClient == [kind |-> "nobody", team |-> "none"]
Spectator(kind) == [kind |-> kind, team |-> "spectator"]
Unspawned == [kind |-> "bot", team |-> "none"]

Task(op, slot) == <<op, slot>>
NoSlot == "none"
Tasks == {Task("add_bot", NoSlot)} \cup ({"spawn", "bot_team", "team", "class"} \X BotSlot)

Plus(pending, task, n) == [pending EXCEPT ![task] = @ + n]

\* A task runs: it is not pending any more, and the ones it gives are.
Runs(task, gives) ==
  /\ bot_tasks[task] > 0
  /\ bot_tasks' = [t \in Tasks |->
       bot_tasks[t] - (IF t = task THEN 1 ELSE 0) + (IF t \in gives THEN 1 ELSE 0)]

-----------------------------------------------------------------------------
(* The command and the tasks.                                              *)

AtMost(n, m) == IF n < m THEN n ELSE m

spawnBot(num_bots) ==
  LET added == AtMost(num_bots, Cardinality(BotSlot))
  IN /\ server_loaded
     /\ bot_tasks[Task("add_bot", NoSlot)] + added <= MaxBots
     /\ bot_tasks' = Plus(bot_tasks, Task("add_bot", NoSlot), added)
     /\ UNCHANGED <<server_loaded, bot_client, botNameVars, bot_named, departures, commanded>>

get_client_count == Cardinality({n \in BotSlot : bot_client[n] # NoClient})
can_add == get_client_count < Cardinality(BotSlot)

\* One of the master server's names, or of the game's.
RandomNames == IF bot_names_received /\ bot_names # {} THEN bot_names ELSE {OwnName}

\* SV_AddBot takes a free slot; or it gives none.
add_bot ==
  \/ /\ can_add
     /\ \E name \in RandomNames, n \in {m \in BotSlot : bot_client[m] = NoClient} :
          /\ bot_client' = [bot_client EXCEPT ![n] = Unspawned]
          /\ bot_named' = name
          /\ Runs(Task("add_bot", NoSlot), {Task("spawn", n)})
     /\ UNCHANGED <<server_loaded, botNameVars, departures, commanded>>
  \/ /\ Runs(Task("add_bot", NoSlot), {})
     /\ UNCHANGED <<server_loaded, bot_client, botNameVars, bot_named, departures, commanded>>

IsBot(n) == bot_client[n].kind = "bot"

\* Fault: a bot that has joined a team is not looked after any more.
TendedOnce(n, team) ==
  IF IsBot(n) /\ team = "spectator" THEN {Task("team", n), Task("bot_team", n)} ELSE {}

\* What bot_team gives, for somebody of that team.
bot_team_gives(n, team) ==
  IF ~IsBot(n) THEN {}
  ELSE {Task("bot_team", n)} \cup (IF team = "spectator" THEN {Task("team", n)} ELSE {})

\* BOUND: one choice of a team and a class pending for each slot, or two after a
\* departure.  They are due within two seconds and bot_team after three.
Due(n) == bot_tasks[Task("team", n)] + bot_tasks[Task("class", n)] <= AtMost(departures[n], 1)

\* SV_SpawnTestClient makes the bot a spectator, then bot_team is called; whoever
\* else is in the slot is not a bot, for bot_team.
spawn_bot(n) ==
  /\ bot_client' = [bot_client EXCEPT ![n] = IF @ = Unspawned THEN Spectator("bot") ELSE @]
  /\ Due(n)
  /\ Runs(Task("spawn", n), bot_team_gives(n, bot_client'[n].team))
  /\ UNCHANGED <<server_loaded, botNameVars, bot_named, departures, commanded>>

bot_team(n) ==
  /\ Due(n)
  /\ Runs(Task("bot_team", n), bot_team_gives(n, bot_client[n].team))
  /\ UNCHANGED <<server_loaded, bot_client, botNameVars, bot_named, departures, commanded>>

Commands(n) == commanded' = IF bot_client[n].kind = "human" THEN commanded \cup {n} ELSE commanded

\* bot_team_join: its first task commands the slot to choose a team, and gives the
\* second, which commands it to choose a class.
bot_team_join(n) ==
  /\ Runs(Task("team", n), {Task("class", n)})
  /\ bot_client' = [bot_client EXCEPT ![n].team = IF @ = "spectator" THEN "playing" ELSE @]
  /\ Commands(n)
  /\ UNCHANGED <<server_loaded, botNameVars, bot_named, departures>>

bot_class(n) ==
  /\ Runs(Task("class", n), {})
  /\ Commands(n)
  /\ UNCHANGED <<server_loaded, bot_client, botNameVars, bot_named, departures>>

-----------------------------------------------------------------------------
(* Names.                                                                  *)

update_bot_names ==
  /\ bot_names_received' = FALSE
  /\ UNCHANGED <<server_loaded, bot_client, bot_tasks, bot_names, bot_named, departures, commanded>>

\* An answer, asked for or not: the first one of the master server since the last
\* request counts.
getbotsResponse(list, from_master) ==
  /\ IF from_master /\ ~bot_names_received
     THEN bot_names' = list /\ bot_names_received' = TRUE
     ELSE UNCHANGED botNameVars
  /\ UNCHANGED <<server_loaded, bot_client, bot_tasks, bot_named, departures, commanded>>

-----------------------------------------------------------------------------
(* The game and its players.                                               *)

ClientLeaves(n) ==
  /\ bot_client[n] # NoClient /\ departures[n] < MaxDepartures
  /\ bot_client' = [bot_client EXCEPT ![n] = NoClient]
  /\ departures' = [departures EXCEPT ![n] = @ + (IF IsBot(n) THEN 1 ELSE 0)]
  /\ UNCHANGED <<server_loaded, bot_tasks, botNameVars, bot_named, commanded>>

HumanJoins(n) ==
  /\ bot_client[n] = NoClient
  /\ bot_client' = [bot_client EXCEPT ![n] = Spectator("human")]
  /\ UNCHANGED <<server_loaded, bot_tasks, botNameVars, bot_named, departures, commanded>>

\* The game makes a player a spectator.
Spectates(n) ==
  /\ bot_client[n].team = "playing"
  /\ bot_client' = [bot_client EXCEPT ![n].team = "spectator"]
  /\ UNCHANGED <<server_loaded, bot_tasks, botNameVars, bot_named, departures, commanded>>

\* The server ends, with its clients, or begins.
ServerLoads ==
  /\ server_loaded' = ~server_loaded
  /\ server_loaded => \A n \in BotSlot : bot_client[n] = NoClient
  /\ UNCHANGED <<bot_client, bot_tasks, botNameVars, bot_named, departures, commanded>>

-----------------------------------------------------------------------------
BotsInit ==
  /\ server_loaded = FALSE /\ bot_client = [n \in BotSlot |-> NoClient]
  /\ bot_tasks = [t \in Tasks |-> 0]
  /\ bot_names_received = FALSE /\ bot_names = {}
  /\ bot_named = OwnName
  /\ departures = [n \in BotSlot |-> 0] /\ commanded = {}

BotsNext ==
  \/ \E num_bots \in 1..(Cardinality(BotSlot) + 1) : spawnBot(num_bots)
  \/ add_bot
  \/ \E n \in BotSlot :
       \/ spawn_bot(n) \/ bot_team(n) \/ bot_team_join(n) \/ bot_class(n)
       \/ ClientLeaves(n) \/ (server_loaded /\ HumanJoins(n)) \/ Spectates(n)
  \/ update_bot_names
  \/ \E list \in SUBSET BotName : getbotsResponse(list, TRUE)
  \/ getbotsResponse({"another's"}, FALSE)
  \/ ServerLoads

BotsSpec == BotsInit /\ [][BotsNext]_botVars

-----------------------------------------------------------------------------
(* Property.                                                               *)

\* A bot is never lost: until it is spawned there is a task that will spawn it,
\* and from then on one that will look after it, but never more of those than
\* bots have been in its slot, so a bot the game makes a spectator is sent to a
\* team again.  Only where a bot has left is somebody else commanded in its place
\* (bots.cpp, spawn_bot, bot_team, bot_team_join: the tasks know the slot alone).
\* No bot has a name that came from anybody but the master server.
BotsTended ==
  /\ \A n \in BotSlot :
       /\ bot_client[n] = Unspawned => bot_tasks[Task("spawn", n)] > 0
       /\ IsBot(n) /\ bot_client[n] # Unspawned => bot_tasks[Task("bot_team", n)] > 0
       /\ bot_tasks[Task("spawn", n)] + bot_tasks[Task("bot_team", n)] <= departures[n] + 1
  /\ \A n \in commanded : departures[n] > 0
  /\ bot_named \in BotName \cup {OwnName}
=============================================================================
