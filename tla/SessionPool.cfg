SPECIFICATION FairSpec
CONSTANTS
  g1 = g1
  g2 = g2
  alice = alice
  bob = bob
  Nobody = Nobody
  Getter <- GetterPair
  User <- TwoUsers
  Timeout = 1
  MaxCalls = 2
  MaxTime = 2
INVARIANTS
  CleanupsSpaced
PROPERTIES
  OnlyExpiryRemoves
  ExpiresSerially
  GetReturns
