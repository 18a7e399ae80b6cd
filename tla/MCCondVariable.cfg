SPECIFICATION CondSpec
CONSTANTS
    t1 = t1
    t2 = t2
    t3 = t3
    Threads <- MCThreads
    c_one = 8
    c_sig = 64
    c_waiters = 2
    c_signals = 2
SYMMETRY Symmetry
INVARIANT Exclusion
INVARIANT WordCounts
INVARIANT PassedOn
INVARIANT LockUnlockWaits
INVARIANT NotifyReachesAll
