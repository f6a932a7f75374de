SPECIFICATION Spec
CONSTANTS
  console = console
  dedicated = dedicated
  splash = splash
  Component <- MCComponent
  Unsupported <- MCUnsupported
  MaxRecoveries = 3
  OutputSize = 4
  Visible = {1, 2}
  MaxLines = 7
  a = a
  slash = slash
  space = space
  Letter = {a}
  Slash = slash
  Space = space
  Key = {a, slash}
  Names <- MCNames
  InputSize = 5
  HistorySize = 1
  MaxHints = 1
  Caller = {"main", "worker"}
  CallType = {"lobby_enter"}
  MaxHandle = 3
INVARIANTS DestroyedOnce ExecutesTheLine ConsoleInBounds AnsweredInOrder
CHECK_DEADLOCK FALSE
