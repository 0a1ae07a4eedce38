SPECIFICATION FairSpec
CONSTANTS
  Producers = {p}
  Consumers = {c}
  Values = {a, b}
  Size = 4
  IndexMod = 8
  None = None
INVARIANTS
  CellExclusive
PROPERTIES
  EventuallyVisible
  EventuallyReusable
  ImplementsTicketFifo
