\* The consoles: two printing threads, a pipe of one piece; four commands, given at
\* any point of the initialization.
SPECIFICATION Spec
CONSTANTS
  Printer = {"main", "other"}
  MainThread = "main"
  MaxPrints <- MCMaxPrints
  MaxWrites = 2
  PipeSize = 1
  MaxCommands = 4
INVARIANTS MessagesInOrder EarlyOnceInOrder
PROPERTIES ConsoleEnds EarlyExecuted
CHECK_DEADLOCK FALSE
