SPECIFICATION LiveSpec
CONSTANTS
  a = a
  u1 = u1
  u2 = u2
  Timers = {a}
  Users = {u1, u2}
  Calls <- MCCalls
  Starts <- MCStarts
  MinPeriod = 2
  umax = 5
  MaxTime = 4
CHECK_DEADLOCK FALSE
INVARIANT EveryPeriodSent
INVARIANT FirstExpireIsLeast
PROPERTY DueIsFired
