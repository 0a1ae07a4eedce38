SPECIFICATION Spec
CONSTANTS
  Threads = {t1, t2}
  Values = {a, b}
  Addresses = {n1, n2, n3}
  Null = Null
  MaxPushes = 3
SYMMETRY Symmetry
INVARIANTS
  NodesAccounted
PROPERTIES
  PopPutsNext
  ImplementsLifo
