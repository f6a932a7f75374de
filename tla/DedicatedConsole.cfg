\* The comment on console commands, against the code.
SPECIFICATION DedicatedSpec
CONSTANT MaxCommands = 2
INVARIANTS ConsoleWaitsForInitialization
