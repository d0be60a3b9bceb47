SPECIFICATION Spec
CONSTANTS
  Source <- MCSource
  Root = "main"
  Contents <- MCContents
  Unreadable = Unreadable
  NoName = NoName
  Domain <- MCDomain
  ClassNames <- MCClassNames
  BuiltIn <- MCBuiltIn
  Object = {o1, o2}
  MaxDepth = 3
INVARIANTS
  LoadedAsIncluded
  BuiltAsWritten
  ScopeByDistance
  GoalPaths
PROPERTIES
  Ends
CHECK_DEADLOCK FALSE
