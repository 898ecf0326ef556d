SPECIFICATION Spec
CONSTANTS
  Owners = {"alice"}
  Usable = {"alice"}
  MaxVersion = 2
  MaxCommands = 1
  Faults = {}
INVARIANT UpgradedMeansLatest
