CONSTANTS
  u1 = u1
  u2 = u2
  g1 = g1
  m1 = m1
  m2 = m2
  m3 = m3
  m4 = m4
  User = {u1, u2}
  Gateway = {g1}
  Msg = {m1, m2, m3, m4}
  SenderOf <- Senders
  TargetsOf <- Targets
  Bar = {m3, m4}
  Digit = {u2}
  MaxCrash = 1
SPECIFICATION PushSpec
INVARIANT  NoneSkipped
PROPERTY PushArrives
CHECK_DEADLOCK FALSE
