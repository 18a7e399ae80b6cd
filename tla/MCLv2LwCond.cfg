SPECIFICATION Spec
CONSTANTS
    w = w
    v = v
    s = s
    Threads <- MCThreads
    Protocol = "prio"
    Prio <- MCPrio
    Retries = {TRUE, FALSE}
    Timeout <- MCTimeout
    MaxCount = 1
    Calls <- MCCalls
    Targets <- MCTargets
    MaxWaiter = 3
CONSTRAINT WaiterBound
VIEW View
CHECK_DEADLOCK FALSE
INVARIANT OneNextOwner
INVARIANT LwHolderOwns
INVARIANT NobodySleepsOnFree
INVARIANT DestroyedIsUnused
