SPECIFICATION MCSpec
CONSTANTS
  f1 = f1
  f2 = f2
  f3 = f3
  f4 = f4
  n1 = n1
  n2 = n2
  n3 = n3
  Free = Free
  Old = Old
  Other = Other
  Assets = {f1, f2, f3, f4}
  Names = {n1, n2, n3}
  NameOf <- MCNameOf
  Concurrency = 2
  MaxRetries = 1
  Faults = {"refused", "lost", "unreadable"}
  OthersUpload = TRUE
INVARIANT TypeOK
INVARIANT SuccessMeansStored
INVARIANT LossLimited
PROPERTY NothingElseLost
PROPERTY Terminates
