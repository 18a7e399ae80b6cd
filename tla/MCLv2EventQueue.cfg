SPECIFICATION Spec
CONSTANTS
  r1 = r1
  r2 = r2
  s1 = s1
  s2 = s2
  Threads <- MCThreads
  Prio <- MCPrio
  Protocol = "prio"
  Size = 2
  MaxSends = 3
  Senders = {s1, s2}
  Receivers = {r1, r2}
  Timeouts = {0, 1}
  Savestates = TRUE
SYMMETRY Twins
CONSTRAINT PlainStops
CHECK_DEADLOCK FALSE
INVARIANT EventsKept
INVARIANT ReceiversServed
