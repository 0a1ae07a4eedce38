SPECIFICATION MCFairSpec
CONSTANTS
  Threads = {t1, t2}
  NbElement = 1
  NbChild = 2
  MaxDepth = 3
  MaxObjects = 4
  MaxCalls = 5
CHECK_DEADLOCK FALSE
INVARIANTS
  SlotsAccounted
  TokensMatchFree
  SearchFinds
  CapacityMatches
  DepthBounded
PROPERTIES
  CallsReturn
