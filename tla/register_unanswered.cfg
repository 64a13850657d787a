CONSTANTS
  User = {u1, u2}
  Nickname = {n1}
  Phone = {}
  Description = {}
  Avatar = {}
  Worker = {w1}
  Null = Null
  Absent = Absent
  MaxFault = 0
SPECIFICATION Spec
INVARIANT RegisterAnswered
