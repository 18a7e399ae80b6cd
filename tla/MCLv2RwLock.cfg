SPECIFICATION LiveSpec
CONSTANTS
  t1 = t1
  t2 = t2
  t3 = t3
  None = None
  Threads <- MCThreads
  Prio <- MCPrio
  Protocol = "prio"
  MaxReads = 1
  Timeouts = {0, 1}
  Savestates = TRUE
CONSTRAINT UntimedStops
CHECK_DEADLOCK FALSE
INVARIANT OwnerMatchesHolders
INVARIANT WaitersKeepBit
PROPERTY LockReturns
