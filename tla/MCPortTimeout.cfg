SPECIFICATION Spec
CONSTANTS
  Faults = {"deadline"}
  Ports = {"8000", "8080"}
  MaxUpdates = 1
  MaxOthers = 0
INVARIANTS VisibilitySet
CHECK_DEADLOCK FALSE
