----------------------------- MODULE MCProcess -----------------------------
(***************************************************************************)
(* The instance of Process, ConsoleOutput, GameConsole and Steam that TLC  *)
(* checks.  They share no state: a behaviour here is one of a component    *)
(* chosen at the start, while the others stay in their first state, in     *)
(* which nothing has to happen in them.                                    *)
(***************************************************************************)
EXTENDS Process, ConsoleOutput, GameConsole, Steam

CONSTANTS a, slash, space, console, dedicated, splash

VARIABLE component

MCComponent == <<console, dedicated, splash>>
MCUnsupported == [m \in {"singleplayer", "multiplayer", "server", "linker"} |->
                    IF m = "server" THEN {splash} ELSE {dedicated}]
MCNames == <<<<a>>, <<a, a>>>>

Init ==
  /\ component \in {"Process", "ConsoleOutput", "GameConsole", "Steam"}
  /\ ProcessInit /\ OutputInit /\ GcInit /\ SteamInit

Next ==
  /\ UNCHANGED component
  /\ \/ /\ component = "Process" /\ ProcessNext
        /\ UNCHANGED <<outputVars, gcVars, steamVars>>
     \/ /\ component = "ConsoleOutput" /\ OutputNext
        /\ UNCHANGED <<processVars, gcVars, steamVars>>
     \/ /\ component = "GameConsole" /\ GcNext
        /\ UNCHANGED <<processVars, outputVars, steamVars>>
     \/ /\ component = "Steam" /\ SteamNext
        /\ UNCHANGED <<processVars, outputVars, gcVars>>

vars == <<component, processVars, outputVars, gcVars, steamVars>>

Spec == Init /\ [][Next]_vars

\* Whatever is printed and typed, until a character is put into the middle of a
\* full line: the game console neither draws nor edits what is not there
\* (game_console.cpp: output, input and history).
ConsoleInBounds == OutputInReach /\ EditsInBounds
=============================================================================
