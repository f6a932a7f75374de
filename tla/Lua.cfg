SPECIFICATION FairSpec
CONSTANTS
  Contexts = 2
  a = a
  b = b
  Event <- MCEvent
  Ending <- MCEnding
  Request <- MCRequest
  MaxEntries = 2
  MaxDepth = 2
INVARIANT KeptUntilDone
PROPERTIES EndedNeverCalled TasksRun
CHECK_DEADLOCK FALSE
