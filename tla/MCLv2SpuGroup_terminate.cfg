SPECIFICATION LiveSpec
CONSTANTS
    Num = 2
    Ppus = {p1}
    None = None
    QueueSize = 1
    Umax = 3
    Restart = 1
    Stops = 2
    MaxRuns = 1
CHECK_DEADLOCK FALSE
PROPERTY TerminateReturns
