SPECIFICATION Spec
CONSTANTS
  g1 = g1
  g2 = g2
  r1 = r1
  None = None
  Caller <- CallerPair
  Reader <- OneReader
  RetryInterval = 2
  DefaultInterval = 1
  MaxCalls = 2
  MaxTime = 3
INVARIANTS
  ConfigsSafe
