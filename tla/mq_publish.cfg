CONSTANTS
  Msg = {m1, m2, m3}
  Publisher = {p1, p2}
  MaxRetry = 1
SPECIFICATION Spec
INVARIANT NoLostWakeup Conserved OvertakenOnlyByRetry
PROPERTY EventuallyTried ImplementsOutbox
CHECK_DEADLOCK FALSE
