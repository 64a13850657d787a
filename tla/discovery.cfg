CONSTANTS
  i1 = i1
  i2 = i2
  i3 = i3
  k1 = k1
  k2 = k2
  Instance = {i1, i2, i3}
  Key = {k1, k2}
  KeyOf <- Keys
  None = None
  IndexCycle = 6
  MaxStart = 3
  MaxFault = 1
SPECIFICATION Spec
INVARIANT DirectoryAgrees
PROPERTY DiesOnlyDeserted TurnsFollowRegistry
CHECK_DEADLOCK FALSE
