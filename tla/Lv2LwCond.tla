------------------------------ MODULE Lv2LwCond ------------------------------
(***************************************************************************)
(* The lightweight condition variable over a lightweight mutex:            *)
(* Modules/sys_lwcond_.cpp and lv2/sys_lwcond.cpp.                         *)
(*                                                                         *)
(* A signal that finds the mutex owned by its caller (mode 1) moves the    *)
(* waiter to the queue of the mutex; one that finds it free locks it and   *)
(* hands it to the waiter (mode 3); one that finds it locked, and every    *)
(* one with SYS_SYNC_RETRY, lets the waiter lock it itself (mode 2).       *)
(*                                                                         *)
(* Grain: as in Lv2LwMutex; what the code does under lv2_lwcond::mutex is  *)
(* one step.                                                               *)
(***************************************************************************)
EXTENDS Functions, Lv2LwMutex

CONSTANT Targets  \* of sys_lwcond_signal_to; "any" is sys_lwcond_signal

VARIABLES csq, lwmutex_waiters, cexists,  \* lv2_lwcond
          rec                             \* recursive_value of each sys_lwcond_wait

condVars == <<csq, lwmutex_waiters, cexists, rec>>
lwVars == <<vars, condVars>>

CondPlaces == {"w_sys", "c_wait", "c_ret", "c_ret2", "w_ret", "w_lock", "w_restore", "s_reserve",
               "s_sys2", "s_sys3", "s_restore", "a_sys", "a_sys2", "cd_wait", "cd_sys"}

LwCondTypeOK ==
    /\ LwTypeOK
    /\ pc \in [Threads -> Places \cup CondPlaces]
    /\ csq \in Seq(Threads)
    /\ lwmutex_waiters \in Nat
    /\ cexists \in BOOLEAN
    /\ rec \in [Threads -> 0..MaxCount]

CondInit ==
    /\ Init
    /\ csq = <<>>
    /\ lwmutex_waiters = 0
    /\ cexists = TRUE
    /\ rec = [t \in Threads |-> 0]

-----------------------------------------------------------------------------
CondWait_Mutant(t) ==
    /\ Starts(t, "wait")
    /\ owner = t
    /\ owner' = "reserved"
    /\ rec' = [rec EXCEPT ![t] = recursive_count]
    /\ recursive_count' = recursive_count
    /\ depth' = [depth EXCEPT ![t] = 0]
    /\ arg' = [arg EXCEPT ![t] = Timeout[t]]
    /\ Goto(t, "w_sys")
    /\ UNCHANGED <<waiter, retry, kernelVars, caller, looping, res, swallowed, csq, lwmutex_waiters,
                   cexists, threadVars>>

\* sys_lwcond_wait: the recursive_count is saved, the mutex is reserved.
CondWait(t) ==
    /\ Starts(t, "wait")
    /\ owner = t
    /\ owner' = "reserved"
    /\ rec' = [rec EXCEPT ![t] = recursive_count]
    /\ recursive_count' = 0
    /\ depth' = [depth EXCEPT ![t] = 0]
    /\ arg' = [arg EXCEPT ![t] = Timeout[t]]
    /\ Goto(t, "w_sys")
    /\ UNCHANGED <<waiter, retry, kernelVars, caller, looping, res, swallowed, csq, lwmutex_waiters,
                   cexists, threadVars>>

\* _sys_lwcond_queue_wait: enter the queue, unlock the mutex and sleep.
CondQueueWait(t) ==
    /\ pc[t] = "w_sys"
    /\ \/ /\ cexists /\ exists
          /\ csq' = Emplace(csq, t)
          /\ lwcond_waiters' = lwcond_waiters + 1
          /\ lwmutex_waiters' = lwmutex_waiters + 1
          /\ Reown("unlock")
          /\ SleepAndAwake(t, Reowner)
          /\ res' = [res EXCEPT ![t] = "OK"]
          /\ Goto(t, "c_wait")
       \/ /\ ~(cexists /\ exists)
          /\ res' = [res EXCEPT ![t] = "ESRCH"]
          /\ Goto(t, "w_ret")
          /\ UNCHANGED <<csq, lwcond_waiters, lwmutex_waiters, signaled, sq, threadVars>>
    /\ UNCHANGED <<wordVars, dying, exists, caller, looping, arg, historyVars, cexists, rec>>

\* Its loop finds cpu_flag::signal.
CondSignaled(t) ==
    /\ pc[t] = "c_wait"
    /\ Resume(t)
    /\ Goto(t, "c_ret")
    /\ UNCHANGED <<wordVars, kernelVars, callVars, historyVars, condVars>>

\* A queued thread times out and leaves the queue it is in.
CondTimeout(t) ==
    /\ pc[t] = "c_wait"
    /\ arg[t] # 0
    /\ \/ InQueue(csq, t) /\ csq' = Unqueue(csq, t) /\ UNCHANGED sq
       \/ InQueue(sq, t) /\ sq' = Unqueue(sq, t) /\ UNCHANGED csq
    /\ st' = [st EXCEPT ![t] = "onproc"]
    /\ res' = [res EXCEPT ![t] = "ETIMEDOUT"]
    /\ Goto(t, "c_ret")
    /\ UNCHANGED <<wordVars, signaled, lwcond_waiters, dying, exists, caller, looping, arg,
                   historyVars, lwmutex_waiters, cexists, rec, cancel>>

\* The end of _sys_lwcond_queue_wait: a destroyer of the mutex need not wait for t,
CondLeaveMutex(t) ==
    /\ pc[t] = "c_ret"
    /\ lwcond_waiters' = lwcond_waiters - 1
    /\ Goto(t, "c_ret2")
    /\ UNCHANGED <<wordVars, signaled, sq, dying, exists, callVars, historyVars, condVars, threadVars>>

\* and then one of the lwcond.
CondLeave(t) ==
    /\ pc[t] = "c_ret2"
    /\ lwmutex_waiters' = lwmutex_waiters - 1
    /\ Goto(t, IF res[t] = "OK" THEN "w_ret" ELSE "w_lock")
    /\ UNCHANGED <<wordVars, kernelVars, callVars, historyVars, csq, cexists, rec, threadVars>>

\* sys_lwcond_wait got the mutex with the signal, or keeps it after ESRCH.
CondWaitReturn(t) ==
    /\ pc[t] = "w_ret"
    /\ waiter' = IF res[t] = "OK" THEN waiter - 1 ELSE waiter
    /\ owner' = t
    /\ recursive_count' = rec[t]
    /\ depth' = [depth EXCEPT ![t] = rec[t] + 1]
    /\ Goto(t, "user")
    /\ UNCHANGED <<retry, kernelVars, callVars, swallowed, condVars, threadVars>>

\* sys_lwcond_wait has locked the mutex itself.
CondWaitRestore(t) ==
    /\ pc[t] = "w_restore"
    /\ recursive_count' = rec[t]
    /\ depth' = [depth EXCEPT ![t] = rec[t] + 1]
    /\ Goto(t, "user")
    /\ UNCHANGED <<owner, waiter, retry, kernelVars, callVars, swallowed, condVars, threadVars>>

-----------------------------------------------------------------------------
\* The waiter that _sys_lwcond_signal finds for its target, if there is one.
Signalee(target) ==
    IF target # "any" THEN {u \in {target} : InQueue(csq, u)}
    ELSE IF csq = <<>> THEN {} ELSE {csq[Schedule(csq)]}

SignalOwned_Mutant(t, target) ==
    /\ Starts(t, "signal")
    /\ ~retry
    /\ owner = t
    /\ cexists
    /\ \E u \in Signalee(target) :
          /\ waiter' = waiter
          /\ csq' = Unqueue(csq, u)
          /\ sq' = Emplace(sq, u)
          /\ dying' = StillDying
    /\ UNCHANGED <<owner, recursive_count, retry, signaled, lwcond_waiters, exists, pc, callVars,
                   historyVars, lwmutex_waiters, cexists, rec, threadVars>>

\* sys_lwcond_signal and signal_to with the mutex owned, mode 1: all_info++, the
\* waiter enters the queue of the mutex; all_info-- when there is none.
SignalOwned(t, target) ==
    /\ Starts(t, "signal")
    /\ ~retry
    /\ owner = t
    /\ cexists
    /\ \E u \in Signalee(target) :
          /\ waiter' = waiter + 1
          /\ csq' = Unqueue(csq, u)
          /\ sq' = Emplace(sq, u)
          /\ dying' = StillDying
    /\ UNCHANGED <<owner, recursive_count, retry, signaled, lwcond_waiters, exists, pc, callVars,
                   historyVars, lwmutex_waiters, cexists, rec, threadVars>>

\* Mode 2, with SYS_SYNC_RETRY or after EBUSY of the trylock.
SignalOther(t, target) ==
    /\ \/ pc[t] = "s_sys2"
       \/ Starts(t, "signal") /\ retry
    /\ LET found == IF cexists THEN Signalee(target) ELSE {} IN
       /\ csq' = IF found = {} THEN csq ELSE Unqueue(csq, CHOOSE u \in found : TRUE)
       /\ res' = [u \in Threads |-> IF u \in found THEN "EBUSY" ELSE res[u]]
       /\ Awake(found)
    /\ Goto(t, "user")
    /\ UNCHANGED <<wordVars, kernelVars, caller, looping, arg, historyVars, lwmutex_waiters, cexists,
                   rec>>

\* Mode 3, after the trylock: waiter and owner change together.
SignalReserve(t) ==
    /\ pc[t] = "s_reserve"
    /\ waiter' = waiter + 1
    /\ owner' = "reserved"
    /\ depth' = [depth EXCEPT ![t] = 0]
    /\ Goto(t, "s_sys3")
    /\ UNCHANGED <<recursive_count, retry, kernelVars, callVars, swallowed, condVars, threadVars>>

\* The mutex goes to the waiter, or to the thread that comes first of it and of
\* those that wait for the mutex.
SignalHandOver(t, target) ==
    /\ pc[t] = "s_sys3"
    /\ \/ /\ cexists /\ exists
          /\ \E u \in Signalee(target) :
                LET queue == Emplace(sq, u) IN
                /\ csq' = Unqueue(csq, u)
                /\ sq' = Unlink(queue, Schedule(queue))
                /\ dying' = (dying /\ sq = <<>>)
                /\ Awake({queue[Schedule(queue)]})
          /\ Goto(t, "user")
       \/ /\ cexists /\ exists => Signalee(target) = {}
          /\ Goto(t, "s_restore")
          /\ UNCHANGED <<csq, sq, dying, threadVars>>
    /\ UNCHANGED <<wordVars, signaled, lwcond_waiters, exists, callVars, historyVars,
                   lwmutex_waiters, cexists, rec>>

\* There was no waiter: the mutex is owned again, then unlocked.
SignalRestore(t) ==
    /\ pc[t] = "s_restore"
    /\ waiter' = waiter - 1
    /\ owner' = t
    /\ depth' = [depth EXCEPT ![t] = 1]
    /\ Goto(t, "u_call")
    /\ UNCHANGED <<recursive_count, retry, kernelVars, callVars, swallowed, condVars, threadVars>>

-----------------------------------------------------------------------------
\* csq in the order schedule() empties it, the first one last.
Scheduled ==
    IF Protocol = "fifo" THEN csq
    ELSE LET n == Len(csq)
             order == CHOOSE f \in [1..n -> 1..n] :
                         \A i, j \in 1..n : i < j => Before(csq, f[j], f[i])
         IN  [i \in 1..n |-> csq[order[i]]]

\* sys_lwcond_signal_all with the mutex owned or locked by trylock, mode 1.
SignalAllOwned(t) ==
    /\ pc[t] = "a_sys" \/ (Starts(t, "all") /\ ~retry /\ owner = t)
    /\ \/ /\ cexists /\ exists
          /\ csq # <<>>
          /\ waiter' = waiter + Len(csq)
          /\ csq' = <<>>
          /\ sq' = Scheduled \o sq
          /\ dying' = StillDying
       \/ /\ cexists /\ exists => csq = <<>>
          /\ UNCHANGED <<waiter, csq, sq, dying>>
    /\ Goto(t, IF pc[t] = "a_sys" THEN "u_call" ELSE "user")
    /\ UNCHANGED <<owner, recursive_count, retry, signaled, lwcond_waiters, exists, callVars,
                   historyVars, lwmutex_waiters, cexists, rec, threadVars>>

\* Mode 2.
SignalAllOther(t) ==
    /\ pc[t] = "a_sys2" \/ (Starts(t, "all") /\ retry)
    /\ LET found == IF cexists THEN Range(csq) ELSE {} IN
       /\ csq' = IF cexists THEN <<>> ELSE csq
       /\ res' = [u \in Threads |-> IF u \in found THEN "EBUSY" ELSE res[u]]
       /\ Awake(found)
    /\ Goto(t, "user")
    /\ UNCHANGED <<wordVars, kernelVars, caller, looping, arg, historyVars, lwmutex_waiters, cexists,
                   rec>>

-----------------------------------------------------------------------------
\* sys_lwcond_destroy: EBUSY with a waiter in the queue, and a wait while a
\* thread has not left _sys_lwcond_queue_wait.
CondDestroy(t) ==
    /\ Starts(t, "cdestroy") \/ pc[t] = "cd_sys"
    /\ st[t] = "onproc"
    /\ \/ /\ cexists /\ csq = <<>>
          /\ cexists' = (lwmutex_waiters > 0)
          /\ IF lwmutex_waiters > 0 THEN Sleep(t) ELSE UNCHANGED threadVars
          /\ Goto(t, IF lwmutex_waiters > 0 THEN "cd_wait" ELSE "user")
       \/ /\ cexists => csq # <<>>
          /\ Goto(t, "user")
          /\ UNCHANGED <<cexists, threadVars>>
    /\ UNCHANGED <<wordVars, kernelVars, callVars, historyVars, csq, lwmutex_waiters, rec>>

CondDestroyerNotified(t) ==
    /\ pc[t] = "cd_wait"
    /\ lwmutex_waiters = 0
    /\ Goto(t, "cd_sys")
    /\ UNCHANGED <<wordVars, kernelVars, callVars, historyVars, condVars, threadVars>>

CondYield(t) ==
    /\ pc[t] = "cd_sys"
    /\ \/ st[t] = "sleep" /\ SelfAwake(t)
       \/ Resume(t)
    /\ UNCHANGED <<wordVars, kernelVars, pc, callVars, historyVars, condVars>>

-----------------------------------------------------------------------------
CondStep(t) ==
    \/ CondWait(t) \/ CondQueueWait(t) \/ CondSignaled(t) \/ CondTimeout(t)
    \/ CondLeaveMutex(t) \/ CondLeave(t) \/ CondWaitReturn(t) \/ CondWaitRestore(t)
    \/ \E target \in Targets :
          SignalOwned(t, target) \/ SignalOther(t, target) \/ SignalHandOver(t, target)
    \/ SignalReserve(t) \/ SignalRestore(t)
    \/ SignalAllOwned(t) \/ SignalAllOther(t)
    \/ CondDestroy(t) \/ CondDestroyerNotified(t) \/ CondYield(t)

Next == \E t \in Threads : (MutexStep(t) /\ UNCHANGED condVars) \/ CondStep(t)

Spec == CondInit /\ [][Next]_lwVars

-----------------------------------------------------------------------------
\* t has been given the reserved mutex, and nobody else will be.
Carries(t) ==
    \/ pc[t] \in {"t_xchg", "w_sys", "s_sys3", "s_restore", "w_ret"}
    \/ pc[t] = "u_sys" /\ ~retry
    \/ pc[t] \in {"l_ret", "c_ret", "c_ret2"} /\ res[t] = "OK"
    \/ pc[t] \in {"k_sleep", "k_wait"} /\ res[t] = "OK" /\ ~InQueue(sq, t)
    \/ pc[t] = "c_wait" /\ res[t] = "OK" /\ ~InQueue(sq, t) /\ ~InQueue(csq, t)

\* A reserved mutex has exactly one next owner: one thread that the kernel chose
\* or that is about to pass the mutex on, or the unlock kept in signaled; and
\* there is none while the mutex is free or owned.  So no "Locking failed" is
\* thrown, and try_own() never finds a signal where ensure(!wait_only) forbids
\* it.
OneNextOwner ==
    Cardinality({t \in Threads : Carries(t)}) + (IF "unlock" \in signaled THEN 1 ELSE 0)
        = (IF owner = "reserved" THEN 1 ELSE 0)

\* A thread that locked the mutex, or that got it back in sys_lwcond_wait, owns
\* it alone, as often as it locked it (recursive_count survives the wait).
LwHolderOwns ==
    \A t \in Threads : depth[t] > 0 =>
        /\ owner = t
        /\ pc[t] # "w_restore" => recursive_count = depth[t] - 1

\* A thread with a wake-up or a free mutex ahead of it.
OnTheWay(t) ==
    \/ pc[t] \in {"u_sys", "spin", "l_cas"}
    \/ pc[t] = "l_ret" /\ res[t] = "EBUSY"
    \/ pc[t] \in {"k_sleep", "k_wait"} /\ ~InQueue(sq, t)

\* Nobody sleeps in the queue of a mutex that is to be had: the unlock that frees
\* it awakes a waiter.  With SYS_SYNC_RETRY the mutex is freed first, and an
\* awoken thread is on its way; unless it dropped the wake-up (LockReturn).
NobodySleepsOnFree ==
    sq # <<>> =>
        /\ signaled = {}
        /\ owner = "free" => swallowed \/ (retry /\ \E t \in Threads : OnTheWay(t))

\* No thread is in a queue, or still inside the wait, of an object destroyed.
DestroyedIsUnused ==
    /\ ~exists => sq = <<>> /\ lwcond_waiters = 0
    /\ ~cexists => csq = <<>> /\ lwmutex_waiters = 0

=============================================================================
