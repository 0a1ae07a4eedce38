SPECIFICATION MCSpec
CONSTANTS
  Producers <- MCProducers
  Consumers <- TwoConsumers
  Values <- MCValues
  Size = 4
  IndexMod = 8
  None = None
  Calls <- CallsFill
CHECK_DEADLOCK FALSE
INVARIANTS
  NoStrandedItem
PROPERTIES
  RefusalIsHonest
  ImplementsTicketFifo
  EventuallySettled
