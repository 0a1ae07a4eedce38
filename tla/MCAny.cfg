SPECIFICATION Spec
CONSTANTS
  t1 = t1
  t2 = t2
  a1 = a1
  a2 = a2
  b1 = b1
  h1 = h1
  h2 = h2
  h3 = h3
  h4 = h4
  h5 = h5
  NoType = NoType
  Types = {int, string}
  IdMod = 3
  Null = Null
  Empty = Empty
  Free = Free
  MaxThrows = 1
  Threads <- TwoThreads
  Anys <- ThreeAnys
  Owner <- OwnerOf
  Holders <- Addresses
SYMMETRY Alike
CHECK_DEADLOCK FALSE
INVARIANTS IsTellsTheType OneOwner
PROPERTY ImplementsHolder
