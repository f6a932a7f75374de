----------------------------- MODULE MCConsole -----------------------------
(***************************************************************************)
(* The instance of Console and Dedicated that TLC checks: what a console   *)
(* shows, and what one types before a dedicated server is initialized.     *)
(* They share no state: a behaviour here is one of either, while the other *)
(* stays in a first state.  Each has the fairness of its threads.          *)
(***************************************************************************)
EXTENDS Console, Dedicated

VARIABLE component

MCMaxPrints == [t \in Printer |-> IF t = MainThread THEN 2 ELSE 1]

vars == <<component, consoleVars, dedicatedVars>>

Init ==
  /\ component \in {"Console", "Dedicated"}
  /\ ConsoleInit /\ DedicatedInit
  /\ component = "Console" => ~syncing

InConsole(action) ==
  component = "Console" /\ action /\ UNCHANGED <<component, dedicatedVars>>
InDedicated(action) ==
  component = "Dedicated" /\ action /\ UNCHANGED <<component, consoleVars>>

Next == InConsole(ConsoleNext) \/ InDedicated(DedicatedNext)

\* The console's threads are not suspended, and a process that has begun to end
\* goes on; the server's frames go on.
Fairness ==
  /\ WF_vars(InConsole(runner))
  /\ WF_vars(InConsole(console_thread_))
  /\ WF_vars(InConsole(ConsolePreDestroy /\ destroyer # "none"))
  /\ WF_vars(InDedicated(FirstFrame))
  /\ WF_vars(InDedicated(GameInitialized))
  /\ WF_vars(InDedicated(Initialize))

Spec == Init /\ [][Next]_vars /\ Fairness
=============================================================================
