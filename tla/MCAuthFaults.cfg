SPECIFICATION ReadersSpec
CONSTANTS
  alice = alice
  bob = bob
  a1 = a1
  a2 = a2
  b1 = b1
  p1 = p1
  p2 = p2
  NoUser = NoUser
  NoToken = NoToken
  Users <- MCUsers
  Tokens <- MCTokens
  TokenOwner <- MCTokenOwner
  Procs = {p1}
  KeyringFaults = {"error", "timeout"}
  WriteMayFail = TRUE
  MayCrash = TRUE
  MaxLate = 1
INVARIANT TypeOK
INVARIANT StoreInv
INVARIANT ActiveAccountHasToken
PROPERTY ReadersSeeAccountView
