SPECIFICATION Spec
CONSTANTS
  MaxSlots = 4
  MaxOwned = 2
  MaxDepth = 2
CHECK_DEADLOCK FALSE
INVARIANTS
  TypeOK
  IteratorsHold
  Settled
  CallsConnected
