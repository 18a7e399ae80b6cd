SPECIFICATION Spec
CONSTANTS
  t1 = t1
  t2 = t2
  Host = Host
  Threads <- TwoThreads
  InitPrio <- TwoPrio
  Prios <- TwoPrios
  Hw = 1
  Slots = 1
  Features <- AllFeatures
CHECK_DEADLOCK FALSE
INVARIANT ProcessorsMatchQueue
INVARIANT SchedulerEnsures
PROPERTY ImplementsThreads
INVARIANT OneGuestPerHwThread
INVARIANT NoLostNotification
