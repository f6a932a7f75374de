SPECIFICATION Spec
CONSTANTS
  Object = {o, p}
  NoObject = none
  MaxHeld = 1
  MaxArgs = 1
  MaxEvents = 1
  MaxCalls = 2
  Files = 2
  Functions = 2
  Length = 2
  MaxHooks = 1
  Slot = {1, 2}
  HksValue = {v}
  UiScript = {"a", "b"}
  Code = {101, 102}
  LuaFn = {"f", "g"}
  IntLimit = 4
  Field = {"k1", "k2"}
  Store = {1, 2}
  MaxFrames = 2
  MaxValues = 2
  MaxCallbacks = 2
  Half = half
  Fine = fine
  Opaque = opaque
INVARIANTS CountsMatchHolders ScriptsKept LuaBridged
CHECK_DEADLOCK FALSE
