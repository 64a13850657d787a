CONSTANTS
  User = {u1, u2}
  Nickname = {n1, n2}
  Phone = {p1}
  Description = {}
  Avatar = {a1}
  Worker = {w1, w2}
  Null = Null
  Absent = Absent
  MaxFault = 1
SYMMETRY Symmetry
SPECIFICATION Spec
INVARIANT UniqueNames SearchAgrees
PROPERTY LostOnlyToOverlap
CHECK_DEADLOCK FALSE
