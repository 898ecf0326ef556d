SPECIFICATION UndisturbedSpec
CONSTANTS
  alice = alice
  bob = bob
  a1 = a1
  a2 = a2
  b1 = b1
  p1 = p1
  p2 = p2
  NoUser = NoUser
  NoToken = NoToken
  Users <- MCUsers
  Tokens <- OneTokenEach
  TokenOwner <- OneTokenEachOwner
  Procs = {p1, p2}
  KeyringFaults = {}
  WriteMayFail = FALSE
  MayCrash = FALSE
  MaxLate = 0
INVARIANT OwnTokens
INVARIANT ActiveUserListed
INVARIANT HostTokenIsUserToken
SYMMETRY Symmetry
