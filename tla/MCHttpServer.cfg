SPECIFICATION FairSpec
CONSTANTS
  Conn = {c1, c2}
  Silent = {c1}
  Worker = {w1, w2}
  kMaxQueueDepth = 1
  MaxStarts = 2
  MaxFaults = 1
  None = None
  c1 = c1
  c2 = c2
  w1 = w1
  w2 = w2
INVARIANTS
  TypeOK OneOwner StopWakesAll StopClosesAll
PROPERTIES
  StopReturns Answered
CHECK_DEADLOCK FALSE
