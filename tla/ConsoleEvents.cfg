SPECIFICATION FairSpec
CONSTANTS
  tab1 = tab1
  tab2 = tab2
  agent1 = agent1
  None = None
  Console <- TwoTabs
  Agent <- OneAgent
  HasTimeout = TRUE
  MaxSubs = 2
  MaxSends = 2
  MaxPuts = 1
INVARIANTS
  OneListener
  UpdatesInOrder
  NoStaleState
PROPERTIES
  SlotFreed
