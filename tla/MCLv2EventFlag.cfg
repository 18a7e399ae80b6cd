SPECIFICATION Spec
CONSTANTS
  w1 = w1
  w2 = w2
  s1 = s1
  s2 = s2
  a = a
  b = b
  None = None
  Prio <- MCPrio
  SingleWaiter = FALSE
  Threads <- MCThreads
  Protocol = "prio"
  Bits = {a, b}
  InitPattern = {}
  Waits <- MCWaits
  Sets <- MCSets
  Clears <- MCClears
  Cancels = {s2}
  Savestates = TRUE
CONSTRAINT UntimedStops
CHECK_DEADLOCK FALSE
INVARIANT NoneOverlooked
INVARIANT WaitersAnswered
