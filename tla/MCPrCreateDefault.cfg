SPECIFICATION Spec
CONSTANTS
  MaxCommits = 1
  MaxCommands = 1
  MaxRetries = 0
  Faults = {}
INVARIANT DefaultIsBase
CHECK_DEADLOCK FALSE
