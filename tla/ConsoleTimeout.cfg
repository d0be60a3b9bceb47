SPECIFICATION Spec
CONSTANTS
  tab1 = tab1
  tab2 = tab2
  agent1 = agent1
  None = None
  Console <- TwoTabs
  Agent <- NoAgent
  HasTimeout = TRUE
  MaxSubs = 1
  MaxSends = 0
  MaxPuts = 0
INVARIANTS
  OutlivesTimeout
