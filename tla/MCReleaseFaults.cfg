SPECIFICATION Spec
CONSTANTS
  f1 = f1
  f2 = f2
  f3 = f3
  n1 = n1
  n2 = n2
  Free = Free
  Old = Old
  Other = Other
  Assets = {f1, f2, f3}
  Names = {n1, n2}
  NameOf <- MCNameOf
  Concurrency = 2
  MaxRetries = 1
  Faults = {"refused", "lost", "unreadable"}
  CallFaults = {"refused", "lost", "unreadable"}
  OthersPublish = TRUE
  Interrupts = TRUE
INVARIANT TypeOK
INVARIANT PublishedComplete
INVARIANT SuccessMeansReleased
PROPERTY KeepsReleaseView
