SPECIFICATION Spec
CONSTANTS
    Num = 2
    Ppus = {p1, p2}
    None = None
    QueueSize = 1
    Umax = 3
    Restart = 1
    Stops = 2
    MaxRuns = 3
SYMMETRY Symmetry
CHECK_DEADLOCK FALSE
INVARIANT RunningCounted
INVARIANT StoppedIsQuiet
INVARIANT JoinOutcome
INVARIANT StatusMatchesThreads
INVARIANT StopNotMissed
