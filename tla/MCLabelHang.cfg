\* CHECK_DEADLOCK FALSE: the command ends, or blocks when all workers have left.
SPECIFICATION Spec
CONSTANTS
  Labels = {"bug", "docs", "help"}
  Workers = 2
  Faults = {"refused"}
PROPERTY FailureReported
CHECK_DEADLOCK FALSE
