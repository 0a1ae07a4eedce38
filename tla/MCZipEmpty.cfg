SPECIFICATION ZipSpec
CONSTANTS
  i1 = i1
  i2 = i2
  r1 = r1
  r2 = r2
  r3 = r3
  Iterators <- TwoIterators
  Ranges <- ThreeRanges
  Shapes <- AnyLengths
INVARIANTS StopsAtShortest
