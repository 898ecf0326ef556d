SPECIFICATION Spec
CONSTANTS
  alice = alice
  bob = bob
  ta = ta
  tb = tb
  h1 = h1
  h2 = h2
  p1 = p1
  p2 = p2
  NoUser = NoUser
  Anonymous = Anonymous
  NoToken = NoToken
  NoHost = NoHost
  Users <- MCUsers
  Tokens <- MCTokens
  TokenOwner <- MCTokenOwner
  Faults = {"keyringGet", "keyringSet", "network", "write", "crash"}
  Hosts = {h1, h2}
  Procs = {p1, p2}

INVARIANT TypeOK
INVARIANT HostsAllOrNothing
INVARIANT HostsWithTokenKept
INVARIANT VersionMeansMigrated
PROPERTY OldVersionsUnaffected
