CONSTANTS
  n1 = n1
  n2 = n2
  Node <- TwoNodes
  MachineId <- TwoMachines
  SeqLimit = 2
  MachLimit = 2
  Epoch = 1
  MaxTime = 3
SPECIFICATION Spec
INVARIANT UniqueIds
PROPERTY IdsIncrease SpinEnds
CHECK_DEADLOCK FALSE
