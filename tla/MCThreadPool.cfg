SPECIFICATION FairSpec
CONSTANTS
  Clients = {c1, c2}
  Tasks = {k1, k2, k3}
  NbWorkers = 2
  MaxStarts = 2
  Capacity = 2
  NoTask = NoTask
  Default = Default
  Bindable <- SecondAndDefault
CHECK_DEADLOCK FALSE
INVARIANTS
  OneThreadPerTarget
  RunsOnce
  StopQuiesces
PROPERTIES
  FuturesReady
  StopReturns
