CONSTANTS
  User = {u1, u2}
  Ssid = {s1, s2, s3}
  Login = {l1, l2}
  Gateway = {g1, g2}
  Conn = {c1, c2}
  MaxCrash = 1
SPECIFICATION Spec
INVARIANT OneSessionPerUser MarkHasSession PushGoesToOwner RegistryDrains ConnectedIsServed
SYMMETRY Symmetry
CHECK_DEADLOCK FALSE
