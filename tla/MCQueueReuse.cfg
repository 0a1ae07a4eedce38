SPECIFICATION MCSpec
CONSTANTS
  Producers <- MCProducers
  Consumers <- OneConsumer
  Values <- MCValues
  Size = 8
  IndexMod = 16
  None = None
  Calls <- CallsMany
INVARIANTS
  NoStrandedItem
CHECK_DEADLOCK FALSE
