SPECIFICATION CondLiveSpec
CONSTANTS
  t1 = t1
  t2 = t2
  t3 = t3
  None = None
  Threads <- MCThreads
  Prio <- MCPrio
  Protocol = "prio"
  Recursive = TRUE
  MaxCount = 1
  Timeouts = {0, 1}
  Savestates = TRUE
CHECK_DEADLOCK FALSE
CONSTRAINT PlainStops
CONSTRAINT Patient
INVARIANT CondOwnerIsTold
INVARIANT CondEnsures
INVARIANT CondNoLostWakeup
PROPERTY WaitersMoveToMutex
PROPERTY CondWaiterReturns
