SPECIFICATION LiveSpec
CONSTANTS
  t1 = t1
  t2 = t2
  t3 = t3
  None = None
  Threads <- ThreeThreads
  Prio <- ThreePrio
  Protocol = "prio"
  MaxVal = 2
  InitialVal = 1
  Counts <- OneOrTwo
  Timeouts <- WithTimeout
  Savestates = TRUE
CONSTRAINT UntimedStops
INVARIANT EnsuresHold
INVARIANT NoLostWakeup
INVARIANT TokensConserved
INVARIANT DestroyedIsDrained
PROPERTY WaiterReturns
CHECK_DEADLOCK FALSE
