SPECIFICATION FairSpec
CONSTANTS
  Threads = {t1, t2}
  Addresses = {n1, n2}
  Root = Root
  Null = Null
  NbElement = 2
  MaxObjects = 3
  MaxThrows = 1
INVARIANTS
  SlotsAccounted
  ObjectLifetime
  NodesAccounted
  GrowthBounded
PROPERTIES
  CallsReturn
  ImplementsSlotPool
