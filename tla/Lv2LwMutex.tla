----------------------------- MODULE Lv2LwMutex -----------------------------
(***************************************************************************)
(* The lightweight mutex: Modules/sys_lwmutex_.cpp works on sys_lwmutex_t  *)
(* in guest memory and calls the kernel object of lv2/sys_lwmutex.cpp only *)
(* when it has to wait or somebody waits.                                  *)
(*                                                                         *)
(* The lock is passed on in one of three ways: owner is "free"; the kernel *)
(* remembers an unlock in signaled; or owner is "reserved" and the waiter  *)
(* that the kernel awoke is the next owner.  With SYS_SYNC_RETRY the owner *)
(* frees the mutex first and awakes a waiter that tries again.             *)
(*                                                                         *)
(* Grain: what the code does under lv2_lwmutex::mutex is one step, awake() *)
(* included, as the queue changes by compare-and-swap of lv2_control; so   *)
(* are the changes of waiter by a thread that holds the lock already.  A   *)
(* wait that times out after it was awoken returns as if it were not timed *)
(* (both find the thread out of the queue), so a timeout is only a step of *)
(* a queued thread.  Savestates are not modelled here.                     *)
(***************************************************************************)
EXTENDS Integers, Sequences, FiniteSets, Lv2Threads, Lv2WaitQueue

CONSTANTS Retries,    \* the values of the SYS_SYNC_RETRY attribute
          Timeout,    \* the timeout of each thread's waits; 0 is none
          MaxCount,   \* the largest recursive_count (0xffffffff)
          Calls       \* the operations each thread calls

ASSUME LwMutexAssumption ==
    /\ Retries \subseteq BOOLEAN
    /\ Timeout \in [Threads -> Nat]
    /\ MaxCount \in Nat
    /\ IsFiniteSet(Threads)
    /\ Threads \cap {"free", "dead", "reserved"} = {}
    /\ Protocol \in {"fifo", "prio"}
    /\ Prio \in [Threads -> Nat]

VARIABLES owner, waiter, recursive_count, retry,       \* sys_lwmutex_t
          signaled, sq, lwcond_waiters, dying, exists, \* lv2_lwmutex
          pc,                                          \* where each thread is
          caller,                                      \* what it locks the mutex for
          looping,                                     \* it is in the SYS_SYNC_RETRY loop
          arg,                                         \* the timeout of its lock
          res,                                         \* gpr[3] of its system call
          depth,                                       \* history: its locks
          swallowed                                    \* history: see LockReturn

wordVars == <<owner, waiter, recursive_count, retry>>
kernelVars == <<signaled, sq, lwcond_waiters, dying, exists>>
callVars == <<caller, looping, arg, res>>
historyVars == <<depth, swallowed>>
vars == <<wordVars, kernelVars, pc, callVars, historyVars, threadVars>>

Places == {"user", "spin", "l_cas", "k_lock", "k_sleep", "k_wait", "l_ret", "t_sys", "t_xchg",
           "u_call", "u_sys", "d_sys", "d_wait", "d_done"}

Results == {"OK", "EBUSY", "ETIMEDOUT", "ESRCH"}

LwTypeOK ==
    /\ ThreadsTypeOK
    /\ owner \in Threads \cup {"free", "dead", "reserved"}
    /\ waiter \in Nat
    /\ recursive_count \in 0..MaxCount
    /\ retry \in Retries
    /\ signaled \subseteq {"unlock", "unlock2"}
    /\ sq \in Seq(Threads)
    /\ lwcond_waiters \in Nat
    /\ dying \in BOOLEAN
    /\ exists \in BOOLEAN
    /\ res \in [Threads -> Results]
    /\ depth \in [Threads -> Nat]

\* sys_lwmutex_create.
Init ==
    /\ ThreadsInit
    /\ owner = "free"
    /\ waiter = 0
    /\ recursive_count = 0
    /\ retry \in Retries
    /\ signaled = {}
    /\ sq = <<>>
    /\ lwcond_waiters = 0
    /\ dying = FALSE
    /\ exists = TRUE
    /\ pc = [t \in Threads |-> "user"]
    /\ caller = [t \in Threads |-> "lock"]
    /\ looping = [t \in Threads |-> FALSE]
    /\ arg = [t \in Threads |-> 0]
    /\ res = [t \in Threads |-> "OK"]
    /\ depth = [t \in Threads |-> 0]
    /\ swallowed = FALSE

-----------------------------------------------------------------------------
Goto(t, to) == pc' = [pc EXCEPT ![t] = to]

\* A thread in guest code calls an operation.
Starts(t, call) == pc[t] = "user" /\ call \in Calls[t]

\* Where a thread goes on once it has locked the mutex: sys_lwmutex_lock and
\* trylock return, the others are inside sys_lwmutex_destroy or a call of
\* Lv2LwCond.
AfterLock ==
    [lock |-> "user", try |-> "user", destroy |-> "d_sys",
     signal |-> "s_reserve", all |-> "a_sys", wait |-> "w_restore"]

\* The same when sys_lwmutex_trylock returned EBUSY.
AfterBusy ==
    [try |-> "user", destroy |-> "user", signal |-> "s_sys2", all |-> "a_sys2"]

\* t has locked the mutex for c.
Locked(t, c) ==
    /\ depth' = [depth EXCEPT ![t] = 1]
    /\ Goto(t, AfterLock[c])

\* Recursive locking by sys_lwmutex_lock or trylock (EDEADLK and EKRESOURCE
\* change nothing).
LockAgain(t) ==
    /\ pc[t] = "user"
    /\ Calls[t] \cap {"lock", "try"} # {}
    /\ owner = t
    /\ recursive_count < MaxCount
    /\ recursive_count' = recursive_count + 1
    /\ depth' = [depth EXCEPT ![t] = @ + 1]
    /\ UNCHANGED <<owner, waiter, retry, kernelVars, pc, callVars, swallowed, threadVars>>

-----------------------------------------------------------------------------
\* sys_lwmutex_lock

\* The first compare-and-swap; c is "wait" when sys_lwcond_wait calls it.
LockCall(t, c) ==
    /\ \/ c = "lock" /\ Starts(t, "lock")
       \/ c = "wait" /\ pc[t] = "w_lock"
    /\ owner # t
    /\ caller' = [caller EXCEPT ![t] = c]
    /\ arg' = [arg EXCEPT ![t] = IF c = "lock" THEN Timeout[t] ELSE 0]
    /\ looping' = [looping EXCEPT ![t] = FALSE]
    /\ \/ /\ owner = "free"
          /\ owner' = t
          /\ Locked(t, c)
       \/ /\ owner = "dead"                \* EINVAL
          /\ Goto(t, "user")
          /\ UNCHANGED <<owner, depth>>
       \/ /\ owner \notin {"free", "dead"}
          /\ Goto(t, "spin")
          /\ UNCHANGED <<owner, depth>>
    /\ UNCHANGED <<waiter, recursive_count, retry, kernelVars, res, swallowed, threadVars>>

\* One of the ten attempts finds the mutex free.
LockSpin(t) ==
    /\ pc[t] = "spin"
    /\ owner = "free"
    /\ owner' = t
    /\ Locked(t, caller[t])
    /\ UNCHANGED <<waiter, recursive_count, retry, kernelVars, callVars, swallowed, threadVars>>

\* all_info++
LockAnnounce(t) ==
    /\ pc[t] = "spin"
    /\ waiter' = waiter + 1
    /\ Goto(t, "l_cas")
    /\ UNCHANGED <<owner, recursive_count, retry, kernelVars, callVars, historyVars, threadVars>>

\* The compare-and-swap after it, and all_info-- when it succeeds.
LockCas(t) ==
    /\ pc[t] = "l_cas"
    /\ \/ /\ owner = "free"
          /\ owner' = t
          /\ waiter' = waiter - 1
          /\ Locked(t, caller[t])
       \/ /\ owner # "free"
          /\ Goto(t, "k_lock")
          /\ UNCHANGED <<owner, waiter, depth>>
    /\ UNCHANGED <<recursive_count, retry, kernelVars, callVars, swallowed, threadVars>>

\* A signal that _sys_lwmutex_lock consumes: CELL_OK if an unlock is part of it.
SignalResult == IF "unlock" \in signaled THEN "OK" ELSE "EBUSY"

\* A waiter enters the queue of a mutex that is to be destroyed while there are
\* waiters of a condition variable: the destroyer need not wait any longer.
StillDying == dying /\ lwcond_waiters = 0

\* _sys_lwmutex_lock: consume a signal, or try_own(): enter the queue.
KernelLock(t) ==
    /\ pc[t] = "k_lock"
    /\ \/ /\ ~exists
          /\ res' = [res EXCEPT ![t] = "ESRCH"]
          /\ Goto(t, "l_ret")
          /\ UNCHANGED <<kernelVars, threadVars>>
       \/ /\ exists
          /\ signaled # {}
          /\ signaled' = {}
          /\ res' = [res EXCEPT ![t] = SignalResult]
          /\ Goto(t, "l_ret")
          /\ UNCHANGED <<sq, lwcond_waiters, dying, exists, threadVars>>
       \/ /\ exists
          /\ signaled = {}
          /\ sq' = Emplace(sq, t)
          /\ dying' = StillDying
          /\ res' = [res EXCEPT ![t] = "OK"]
          /\ Announce(t)
          /\ Goto(t, "k_sleep")
          /\ UNCHANGED <<signaled, lwcond_waiters, exists>>
    /\ UNCHANGED <<wordVars, caller, looping, arg, historyVars>>

\* sleep(): when awake() came first the system call is over.
KernelSleep(t) ==
    /\ pc[t] = "k_sleep"
    /\ Sleep(t)
    /\ Goto(t, IF SleepIsKept(t) THEN "k_wait" ELSE "l_ret")
    /\ UNCHANGED <<wordVars, kernelVars, callVars, historyVars>>

\* check_state() after a sleep that was overtaken.
Yield(t) ==
    /\ pc[t] \in {"l_ret", "d_sys"}
    /\ \/ st[t] = "sleep" /\ SelfAwake(t)
       \/ Resume(t)
    /\ UNCHANGED <<wordVars, kernelVars, pc, callVars, historyVars>>

\* The loop of _sys_lwmutex_lock finds cpu_flag::signal.
KernelSignaled(t) ==
    /\ pc[t] = "k_wait"
    /\ Resume(t)
    /\ Goto(t, "l_ret")
    /\ UNCHANGED <<wordVars, kernelVars, callVars, historyVars>>

\* A queued thread times out: rescheduled, it leaves the queue.
KernelTimeout(t) ==
    /\ pc[t] = "k_wait"
    /\ arg[t] # 0
    /\ InQueue(sq, t)
    /\ sq' = Unqueue(sq, t)
    /\ st' = [st EXCEPT ![t] = "onproc"]
    /\ res' = [res EXCEPT ![t] = "ETIMEDOUT"]
    /\ Goto(t, "l_ret")
    /\ UNCHANGED <<wordVars, signaled, lwcond_waiters, dying, exists, caller, looping, arg,
                   historyVars, cancel>>

\* The system call has returned to sys_lwmutex_lock: all_info--, then owner is
\* exchanged (after CELL_OK), or the loop is entered or repeated.
LockReturn(t) ==
    /\ pc[t] = "l_ret"
    /\ st[t] = "onproc"
    /\ waiter' = waiter - 1
    /\ \/ /\ res[t] = "OK"
          /\ owner' = t
          /\ Locked(t, caller[t])
          /\ UNCHANGED <<looping, swallowed>>
       \/ /\ res[t] = "EBUSY" /\ retry
          /\ looping' = [looping EXCEPT ![t] = TRUE]
          /\ Goto(t, "spin")
          /\ UNCHANGED <<owner, historyVars>>
       \/ /\ res[t] = "EBUSY" /\ retry
          /\ looping[t] /\ arg[t] # 0      \* timeout <= time_diff
          /\ swallowed' = TRUE
          /\ Goto(t, "user")
          /\ UNCHANGED <<owner, looping, depth>>
       \/ /\ res[t] \in {"ETIMEDOUT", "ESRCH"}
          /\ Goto(t, "user")
          /\ UNCHANGED <<owner, looping, historyVars>>
    /\ UNCHANGED <<recursive_count, retry, kernelVars, caller, arg, res, threadVars>>

-----------------------------------------------------------------------------
\* sys_lwmutex_trylock, called by the guest or by c; a caller of
\* Lv2LwCond does not try to lock with SYS_SYNC_RETRY.
Trylock(t, c) ==
    /\ Starts(t, c)
    /\ c \in {"signal", "all"} => ~retry
    /\ owner # t
    /\ caller' = [caller EXCEPT ![t] = c]
    /\ \/ /\ owner = "free"
          /\ owner' = t
          /\ Locked(t, c)
       \/ /\ owner # "free"
          /\ Goto(t, CASE owner = "reserved" -> "t_sys"
                       [] owner = "dead"     -> "user"
                       [] OTHER              -> AfterBusy[c])
          /\ UNCHANGED <<owner, depth>>
    /\ UNCHANGED <<waiter, recursive_count, retry, kernelVars, looping, arg, res, swallowed,
                   threadVars>>

KernelTrylock_Mutant(t) ==
    /\ pc[t] = "t_sys"
    /\ \/ /\ exists
          /\ "unlock" \in signaled
          /\ signaled' = signaled
          /\ Goto(t, "t_xchg")
       \/ /\ exists => "unlock" \notin signaled
          /\ Goto(t, IF exists THEN AfterBusy[caller[t]] ELSE "user")
          /\ UNCHANGED signaled
    /\ UNCHANGED <<wordVars, sq, lwcond_waiters, dying, exists, callVars, historyVars, threadVars>>

\* _sys_lwmutex_trylock: take the lock that was left in signaled.
KernelTrylock(t) ==
    /\ pc[t] = "t_sys"
    /\ \/ /\ exists
          /\ "unlock" \in signaled
          /\ signaled' = {}
          /\ Goto(t, "t_xchg")
       \/ /\ exists => "unlock" \notin signaled
          /\ Goto(t, IF exists THEN AfterBusy[caller[t]] ELSE "user")
          /\ UNCHANGED signaled
    /\ UNCHANGED <<wordVars, sq, lwcond_waiters, dying, exists, callVars, historyVars, threadVars>>

\* ... and exchange owner.
TrylockReturn(t) ==
    /\ pc[t] = "t_xchg"
    /\ owner' = t
    /\ Locked(t, caller[t])
    /\ UNCHANGED <<waiter, recursive_count, retry, kernelVars, callVars, swallowed, threadVars>>

-----------------------------------------------------------------------------
\* reown() and try_unlock(): the waiter to be awoken, if there is one, ...
Reowner == IF sq = <<>> THEN {} ELSE {sq[Schedule(sq)]}

\* ... leaves the queue; otherwise the unlock is left in signaled.
Reown(kind) ==
    /\ signaled' = IF sq = <<>> THEN signaled \cup {kind} ELSE signaled
    /\ sq' = IF sq = <<>> THEN sq ELSE Unlink(sq, Schedule(sq))

\* sys_lwmutex_unlock, called by the guest or at the end of another call.
Unlock(t) ==
    /\ pc[t] \in {"user", "u_call"}
    /\ owner = t
    /\ depth' = [depth EXCEPT ![t] = @ - 1]
    /\ \/ /\ recursive_count > 0
          /\ recursive_count' = recursive_count - 1
          /\ Goto(t, "user")
          /\ UNCHANGED owner
       \/ /\ recursive_count = 0
          /\ owner' = IF waiter = 0 \/ retry THEN "free" ELSE "reserved"
          /\ Goto(t, IF waiter = 0 THEN "user" ELSE "u_sys")
          /\ UNCHANGED recursive_count
    /\ UNCHANGED <<waiter, retry, kernelVars, callVars, swallowed, threadVars>>

\* _sys_lwmutex_unlock, and _sys_lwmutex_unlock2 with SYS_SYNC_RETRY.
KernelUnlock(t) ==
    /\ pc[t] = "u_sys"
    /\ \/ /\ exists
          /\ Reown(IF retry THEN "unlock2" ELSE "unlock")
          /\ Awake(Reowner)
          /\ res' = [u \in Threads |-> IF retry /\ u \in Reowner THEN "EBUSY" ELSE res[u]]
       \/ /\ ~exists
          /\ UNCHANGED <<signaled, sq, res, threadVars>>
    /\ Goto(t, "user")
    /\ UNCHANGED <<wordVars, lwcond_waiters, dying, exists, caller, looping, arg, historyVars>>

-----------------------------------------------------------------------------
KernelDestroy_Mutant(t) ==
    /\ pc[t] = "d_sys"
    /\ st[t] = "onproc"
    /\ \/ /\ exists
          /\ sq = <<>>
          /\ dying' = TRUE
          /\ exists' = (FALSE)
          /\ IF FALSE THEN Sleep(t) ELSE UNCHANGED threadVars
          /\ Goto(t, IF FALSE THEN "d_wait" ELSE "d_done")
       \/ /\ exists => sq # <<>>
          /\ Goto(t, "u_call")
          /\ UNCHANGED <<dying, exists, threadVars>>
    /\ UNCHANGED <<wordVars, signaled, sq, lwcond_waiters, callVars, historyVars>>

\* _sys_lwmutex_destroy, after sys_lwmutex_destroy has locked the mutex: EBUSY
\* while a thread waits, and a wait of its own while threads wait for a
\* condition variable of the mutex.
KernelDestroy(t) ==
    /\ pc[t] = "d_sys"
    /\ st[t] = "onproc"
    /\ \/ /\ exists
          /\ sq = <<>>
          /\ dying' = TRUE
          /\ exists' = (lwcond_waiters > 0)
          /\ IF lwcond_waiters > 0 THEN Sleep(t) ELSE UNCHANGED threadVars
          /\ Goto(t, IF lwcond_waiters > 0 THEN "d_wait" ELSE "d_done")
       \/ /\ exists => sq # <<>>
          /\ Goto(t, "u_call")
          /\ UNCHANGED <<dying, exists, threadVars>>
    /\ UNCHANGED <<wordVars, signaled, sq, lwcond_waiters, callVars, historyVars>>

\* The last waiter left, or a thread has begun to wait for the mutex.
DestroyerNotified(t) ==
    /\ pc[t] = "d_wait"
    /\ dying => lwcond_waiters = 0
    /\ Goto(t, "d_sys")
    /\ UNCHANGED <<wordVars, kernelVars, callVars, historyVars, threadVars>>

\* owner.release(lwmutex_dead)
DestroyReturn(t) ==
    /\ pc[t] = "d_done"
    /\ owner' = "dead"
    /\ depth' = [depth EXCEPT ![t] = 0]
    /\ Goto(t, "user")
    /\ UNCHANGED <<waiter, recursive_count, retry, kernelVars, callVars, swallowed, threadVars>>

-----------------------------------------------------------------------------
MutexStep(t) ==
    \/ LockAgain(t)
    \/ \E c \in {"lock", "wait"} : LockCall(t, c)
    \/ LockSpin(t) \/ LockAnnounce(t) \/ LockCas(t)
    \/ KernelLock(t) \/ KernelSleep(t) \/ Yield(t) \/ KernelSignaled(t) \/ KernelTimeout(t)
    \/ LockReturn(t)
    \/ \E c \in {"try", "destroy", "signal", "all"} : Trylock(t, c)
    \/ KernelTrylock(t) \/ TrylockReturn(t)
    \/ Unlock(t) \/ KernelUnlock(t)
    \/ KernelDestroy(t) \/ DestroyerNotified(t) \/ DestroyReturn(t)

=============================================================================
