SPECIFICATION LiveSpec
CONSTANTS
  t1 = t1
  t2 = t2
  Host = Host
  Threads <- TwoThreads
  InitPrio <- TwoPrio
  Prios <- TwoPrios
  Hw = 1
  Slots = 1
  Features <- AnnouncedAndLoaded
CHECK_DEADLOCK FALSE
PROPERTY OnprocRuns
