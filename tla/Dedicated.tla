------------------------------ MODULE Dedicated ------------------------------
(***************************************************************************)
(* client/component/dedicated.cpp: the commands a dedicated server is      *)
(* given before it is initialized.                                         *)
(*                                                                         *)
(* While the online data is synchronized, the commands of the command line *)
(* and those typed into the console are queued.  The callback given to     *)
(* on_game_initialized initializes the server and empties both queues,     *)
(* once.  Everything runs on the main thread: handlers are single steps,   *)
(* and what interleaves are they, the online data flags, the loading of    *)
(* fastfiles and the delay of a second before the callback.                *)
(*                                                                         *)
(* A command is known by its number.                                       *)
(***************************************************************************)
EXTENDS Integers, Sequences, SequencesExt

CONSTANT MaxCommands  \* BOUND: commands given

ASSUME DedicatedAssumption == MaxCommands \in Nat

VARIABLES
  startup_command_queue,  \* Seq(Command)
  console_command_queue,  \* Seq(Command)
  callback,   \* the callback of on_game_initialized, from its poll to its call
  syncing,    \* Live_SyncOnlineDataFlags(0) is not 0
  database,   \* Sys_IsDatabaseReady2()
  booting,    \* the command line is still being gone through
  given,      \* number of commands given
  typed,      \* history: the commands typed into the console
  early,      \* history: the commands queued before the initialization
  executed    \* history: the commands executed, in that order

queueVars == <<startup_command_queue, console_command_queue>>
gameVars  == <<syncing, database>>
dedicatedVars == <<queueVars, gameVars, callback, booting, given, typed, early, executed>>

Command == 1..MaxCommands
initialized == callback = "called"

DedicatedTypeOK ==
  /\ startup_command_queue \in Seq(Command)
  /\ console_command_queue \in Seq(Command)
  /\ callback \in {"polling", "delayed", "called"}
  /\ syncing \in BOOLEAN /\ database \in BOOLEAN /\ booting \in BOOLEAN
  /\ given \in 0..MaxCommands
  /\ typed \subseteq Command /\ early \subseteq Command
  /\ executed \in Seq(Command)

DedicatedInit ==
  /\ startup_command_queue = <<>>
  /\ console_command_queue = <<>>
  /\ callback = "polling"
  /\ syncing \in BOOLEAN
  /\ database = FALSE
  /\ booting = TRUE
  /\ given = 0
  /\ typed = {}
  /\ early = {}
  /\ executed = <<>>
-----------------------------------------------------------------------------
\* What execute_startup_command and execute_console_command have in common:
\* the next command runs at once, or it is put off.
Give ==
  /\ given < MaxCommands
  /\ given' = given + 1
  /\ IF syncing
     THEN /\ early' = (IF initialized THEN early ELSE early \cup {given'})
          /\ UNCHANGED executed
     ELSE /\ executed' = Append(executed, given')
          /\ UNCHANGED early

PutOff(queue) == IF syncing THEN Append(queue, given') ELSE queue

execute_startup_command ==
  /\ booting
  /\ Give
  /\ startup_command_queue' = PutOff(startup_command_queue)
  /\ UNCHANGED <<console_command_queue, gameVars, callback, booting, typed>>

\* The game has gone through its command line before its first frame.
FirstFrame ==
  /\ booting
  /\ booting' = FALSE
  /\ UNCHANGED <<queueVars, gameVars, callback, given, typed, early, executed>>

execute_console_command ==
  /\ ~booting
  /\ Give
  /\ typed' = typed \cup {given'}
  /\ console_command_queue' = PutOff(console_command_queue)
  /\ UNCHANGED <<startup_command_queue, gameVars, callback, booting>>

\* on_game_initialized, called every frame until it finds the game ready; it
\* then puts the callback off for a second.
Ready == ~syncing /\ database

GameInitialized ==
  /\ ~booting
  /\ callback = "polling" /\ Ready
  /\ callback' = "delayed"
  /\ UNCHANGED <<queueVars, gameVars, booting, given, typed, early, executed>>

\* Fault: the console's queue is forgotten.
FlushLeavesConsole ==
  /\ executed' = executed \o startup_command_queue
  /\ startup_command_queue' = <<>>
  /\ UNCHANGED console_command_queue

\* Fault: the console's commands are executed first.
FlushConsoleFirst ==
  /\ executed' = executed \o console_command_queue \o startup_command_queue
  /\ startup_command_queue' = <<>>
  /\ console_command_queue' = <<>>

\* execute_startup_command_queue, then execute_console_command_queue.
FlushQueues ==
  /\ executed' = executed \o startup_command_queue \o console_command_queue
  /\ startup_command_queue' = <<>>
  /\ console_command_queue' = <<>>

\* The callback: initialize, then empty the queues.
Initialize ==
  /\ callback = "delayed"
  /\ callback' = "called"
  /\ FlushQueues
  /\ UNCHANGED <<gameVars, booting, given, typed, early>>

\* The game.
OnlineDataFlags ==
  /\ syncing' = ~syncing
  /\ UNCHANGED <<queueVars, database, callback, booting, given, typed, early, executed>>

Database ==
  /\ database' = ~database
  /\ UNCHANGED <<queueVars, syncing, callback, booting, given, typed, early, executed>>

DedicatedNext ==
  \/ execute_startup_command
  \/ FirstFrame
  \/ execute_console_command
  \/ GameInitialized
  \/ Initialize
  \/ OnlineDataFlags
  \/ Database

DedicatedSpec == DedicatedInit /\ [][DedicatedNext]_dedicatedVars
-----------------------------------------------------------------------------
(* Properties                                                              *)

\* Commands put off before the initialization are executed in the order in
\* which they were given: the command line's first, then the console's.
EarlyInOrder ==
  \A c, d \in early, j \in DOMAIN executed :
    c < d /\ executed[j] = d => \E i \in 1..j - 1 : executed[i] = c

\* No command is executed twice, and none is executed that still waits.
ExecutedOnce ==
  /\ \A j, k \in DOMAIN executed : executed[j] = executed[k] => j = k
  /\ ToSet(executed) \cap (ToSet(startup_command_queue) \cup ToSet(console_command_queue)) = {}

\* What the player typed or wrote on the command line takes place once, in order.
EarlyOnceInOrder == EarlyInOrder /\ ExecutedOnce

\* A command put off before the initialization is executed in the end, if the
\* game becomes ready for good; the flags may come and go before.
EarlyExecuted ==
  <>[]Ready => \A c \in Command : c \in early ~> c \in ToSet(executed)

\* What the comment in dedicated.cpp says: console commands wait until the
\* initialization is done.
ConsoleWaitsForInitialization ==
  \A c \in typed : c \in ToSet(executed) => initialized
=============================================================================
