CONSTANTS
  User = {u1, u2}
  Session = {s1, s2}
  Worker = {w1, w2}
  MaxCall = 5
  MaxFault = 1
SPECIFICATION Spec
INVARIANT RelationSymmetric MembersHaveSession Consent FriendsShareOneChat
PROPERTY GroupsSurvive
CHECK_DEADLOCK FALSE
SYMMETRY Symmetry
