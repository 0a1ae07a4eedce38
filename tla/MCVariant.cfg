SPECIFICATION Spec
CONSTANTS
  v1 = v1
  v2 = v2
  v3 = v3
  Moved = Moved
  Raw = Raw
  Empty = Empty
  Main = Main
  MaxThrows = 2
  Variants <- ThreeVariants
  Types <- OneTwice
  Values <- TwoValues
SYMMETRY Alike
CHECK_DEADLOCK FALSE
INVARIANTS ObjectLifetime ComparesByContent
PROPERTY ImplementsHolder
