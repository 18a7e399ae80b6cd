----------------------------- MODULE MCLv2LwCond -----------------------------
\* Lv2LwCond for TLC: w waits with a timeout, v waits without, s signals and
\* destroys; w and v lock the mutex, s tries to.
EXTENDS Lv2LwCond, TLC

CONSTANTS w, v, s, MaxWaiter

MCThreads == {w, v, s}
MCPrio == (w :> 1) @@ (v :> 2) @@ (s :> 1)
MCTimeout == (w :> 1) @@ (v :> 0) @@ (s :> 0)
MCCalls == (w :> {"lock", "wait"}) @@ (v :> {"lock", "wait"})
           @@ (s :> {"try", "signal", "all", "destroy", "cdestroy"})
MCTargets == {"any", v}

\* The bound on waiter, which grows with every waiter that times out in the
\* queue of the mutex.
WaiterBound == waiter <= MaxWaiter

\* States that differ only in the locals of calls that are over are one state.
InWait == {"w_sys", "c_wait", "c_ret", "c_ret2", "w_ret", "w_lock", "w_restore"}
InLock == {"spin", "l_cas", "k_lock", "k_sleep", "k_wait", "l_ret"}

View ==
    <<wordVars, kernelVars, pc, historyVars, csq, lwmutex_waiters, cexists, threadVars,
      [t \in Threads |->
          <<IF pc[t] \in InLock \cup {"t_sys", "t_xchg"} THEN caller[t] ELSE "",
            pc[t] \in InLock /\ looping[t],
            pc[t] \in InLock \cup InWait /\ arg[t] # 0,
            IF pc[t] \in {"k_sleep", "k_wait", "l_ret", "c_wait", "c_ret", "c_ret2", "w_ret"}
            THEN res[t] ELSE "",
            IF pc[t] \in InWait \/ (pc[t] \in InLock /\ caller[t] = "wait")
            THEN rec[t] ELSE 0>>]>>

=============================================================================
