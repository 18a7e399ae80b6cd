------------------------------ MODULE Lv2Mutex ------------------------------
(***************************************************************************)
(* sys_mutex.h, sys_mutex.cpp: one lv2_mutex shared by PPU threads.        *)
(*                                                                         *)
(* owner and sq are the two halves of lv2_mutex::control, which changes    *)
(* atomically, also without lv2_mutex::mutex: lock takes a free mutex or   *)
(* queues itself with one atomic operation, and only then sleeps.  Waiters *)
(* leave sq only under lv2_mutex::mutex.  try_lock and try_unlock load     *)
(* control and compare-and-swap it; as the swap compares all of control,   *)
(* each is one step here, and the busy waiting of lock, which repeats      *)
(* try_lock, is part of the step that ends it.                             *)
(*                                                                         *)
(* depth is a history variable: how often each thread has locked the       *)
(* mutex, as its own system calls told it.                                 *)
(*                                                                         *)
(* Lv2Cond composes these actions with those of a condition variable.      *)
(***************************************************************************)
EXTENDS Integers, Sequences, FiniteSets, Lv2Threads, Lv2WaitQueue

CONSTANTS Recursive,  \* SYS_SYNC_RECURSIVE
          MaxCount,   \* the largest lock_count (0xffffffff)
          Timeouts,   \* the timeouts passed to sys_mutex_lock; 0 is none
          Savestates, \* TRUE when the emulator may save and reload
          None        \* not a thread: nobody

ASSUME MutexAssumption ==
    /\ Recursive \in BOOLEAN
    /\ MaxCount \in Nat
    /\ Timeouts \subseteq Nat
    /\ Savestates \in BOOLEAN
    /\ IsFiniteSet(Threads)
    /\ None \notin Threads
    /\ Protocol \in {"fifo", "prio"}
    /\ Prio \in [Threads -> Nat]

VARIABLES owner, sq, lock_count, mutex, exists, \* lv2_mutex
          stop,                                 \* a savestate was requested
          pc,                                   \* where each thread is
          arg,                                  \* the timeout of the wait in progress
          heir,                                 \* the thread a call is about to awake
          depth                                 \* history

mutexVars == <<owner, sq, lock_count, mutex, exists>>
vars == <<mutexVars, stop, pc, arg, heir, depth, threadVars>>

LockPlaces == {"l_own", "l_sleep", "l_yield", "waiting", "resched", "l_expired",
               "again_l", "redo_l"}

UnlockPlaces == {"u_lock", "u_awake", "again_u", "redo_u"}

Places == {"user", "halted"} \cup LockPlaces \cup UnlockPlaces

Init ==
    /\ ThreadsInit
    /\ owner = None
    /\ sq = <<>>
    /\ lock_count = 0
    /\ mutex = None
    /\ exists = TRUE
    /\ stop = FALSE
    /\ pc = [t \in Threads |-> "user"]
    /\ arg = [t \in Threads |-> 0]
    /\ heir = [t \in Threads |-> None]
    /\ depth = [t \in Threads |-> 0]

-----------------------------------------------------------------------------
Goto(t, to) == pc' = [pc EXCEPT ![t] = to]

\* Handlers inside idm::get or idm::check, which exclude sys_mutex_destroy; the
\* last three are those of Lv2Cond.
InLambda == {"l_own", "l_sleep", "u_lock", "u_awake", "c_sleep", "s_all", "s_awake"}

\* Threads that repeat their wait before the scheduler is started (g_to_sleep).
FutureSleepers ==
    {t \in Threads : st[t] = "sleep" /\ pc[t] \in {"redo_l", "l_own", "l_sleep", "redo_c"}}

MayEnter(t) == FutureSleepers = {} \/ t \in FutureSleepers

\* The call returns.
Return(t) ==
    /\ Goto(t, "user")
    /\ arg' = [arg EXCEPT ![t] = 0]

\* The call returns CELL_OK and the thread knows that it has locked the mutex.
ReturnLocked(t) ==
    /\ Return(t)
    /\ depth' = [depth EXCEPT ![t] = @ + 1]

\* try_lock() without EBUSY: take a free mutex, or lock it once more.
TryLockOk(t) ==
    \/ /\ owner = None
       /\ owner' = t
       /\ UNCHANGED lock_count
    \/ /\ owner = t
       /\ Recursive
       /\ lock_count < MaxCount
       /\ lock_count' = lock_count + 1
       /\ UNCHANGED owner

-----------------------------------------------------------------------------
\* sys_mutex_lock

Entering(t, timeout) ==
    /\ exists
    /\ MayEnter(t)
    /\ \/ pc[t] = "user"
       \/ pc[t] = "redo_l" /\ timeout = arg[t]

LockAtOnce(t, timeout) ==
    /\ Entering(t, timeout)
    /\ TryLockOk(t)
    /\ ReturnLocked(t)
    /\ UNCHANGED <<sq, mutex, exists, stop, heir, threadVars>>

LockBusy(t, timeout) ==
    /\ Entering(t, timeout)
    /\ owner \notin {None, t}
    /\ Goto(t, "l_own")
    /\ arg' = [arg EXCEPT ![t] = timeout]
    /\ UNCHANGED <<mutexVars, stop, heir, depth, threadVars>>

\* cancel_sleep = 1, then try_own(): own the mutex or enter its queue.
LockOwn(t) ==
    /\ pc[t] = "l_own"
    /\ \/ /\ owner = None
          /\ owner' = t
          /\ ReturnLocked(t)
          /\ UNCHANGED <<sq, threadVars>>
       \/ /\ owner # None
          /\ sq' = Emplace(sq, t)
          /\ Announce(t)
          /\ Goto(t, "l_sleep")
          /\ UNCHANGED <<owner, arg, depth>>
    /\ UNCHANGED <<lock_count, mutex, exists, stop, heir>>

\* sleep(): it fails when awake() came first; the thread yields and returns.
LockSleep(t) ==
    /\ pc[t] = "l_sleep"
    /\ Sleep(t)
    /\ \/ /\ SleepIsKept(t)
          /\ Goto(t, "waiting")
          /\ UNCHANGED <<arg, depth>>
       \/ /\ ~SleepIsKept(t)
          /\ Goto(t, "l_yield")
          /\ arg' = [arg EXCEPT ![t] = 0]
          /\ depth' = [depth EXCEPT ![t] = @ + 1]
    /\ UNCHANGED <<mutexVars, stop, heir>>

\* check_state() after the call returned.
LockYield(t) ==
    /\ pc[t] = "l_yield"
    /\ \/ /\ st[t] = "sleep"
          /\ SelfAwake(t)
          /\ UNCHANGED pc
       \/ /\ Resume(t)
          /\ Goto(t, "user")
    /\ UNCHANGED <<mutexVars, stop, arg, heir, depth>>

\* The loop of sys_mutex_lock finds cpu_flag::signal.
WaitSignaled(t) ==
    /\ pc[t] = "waiting"
    /\ Resume(t)
    /\ ReturnLocked(t)
    /\ UNCHANGED <<mutexVars, stop, heir>>

\* The loop finds the thread stopped: repeat the call if still queued.
WaitStopped(t) ==
    /\ pc[t] = "waiting"
    /\ stop
    /\ mutex = None
    /\ \/ /\ InQueue(sq, t)
          /\ Goto(t, "again_l")
          /\ UNCHANGED <<arg, depth>>
       \/ /\ ~InQueue(sq, t)
          /\ Goto(t, "halted")
          /\ arg' = [arg EXCEPT ![t] = 0]
          /\ depth' = [depth EXCEPT ![t] = @ + 1]
    /\ UNCHANGED <<mutexVars, stop, heir, threadVars>>

WaitTimeout_Mutant(t) ==
    /\ pc[t] = "waiting"
    /\ arg[t] # 0
    /\ Goto(t, "resched")
    /\ UNCHANGED <<mutexVars, stop, arg, heir, depth, threadVars>>

\* wait_timeout() returns true, check_state() waits for rescheduling.
WaitTimeout(t) ==
    /\ pc[t] = "waiting"
    /\ arg[t] # 0
    /\ SelfAwake(t)
    /\ Goto(t, "resched")
    /\ UNCHANGED <<mutexVars, stop, arg, heir, depth>>

WaitRescheduled(t) ==
    /\ pc[t] = "resched"
    /\ \/ /\ Resume(t)
          /\ Goto(t, "l_expired")
       \/ /\ stop                          \* check_state() returns true
          /\ Goto(t, "waiting")
          /\ Resume(t) \/ UNCHANGED threadVars
    /\ UNCHANGED <<mutexVars, stop, arg, heir, depth>>

\* Under the mutex: leave the queue with ETIMEDOUT, or own the mutex already.
WaitExpired(t) ==
    /\ pc[t] = "l_expired"
    /\ mutex = None
    /\ \/ /\ InQueue(sq, t)
          /\ sq' = Unqueue(sq, t)
          /\ Return(t)
          /\ UNCHANGED depth
       \/ /\ ~InQueue(sq, t)
          /\ ReturnLocked(t)
          /\ UNCHANGED sq
    /\ UNCHANGED <<owner, lock_count, mutex, exists, stop, heir, threadVars>>

-----------------------------------------------------------------------------
\* sys_mutex_trylock (EBUSY, EDEADLK and EKRESOURCE change nothing)

TryLock(t) ==
    /\ exists
    /\ MayEnter(t)
    /\ pc[t] = "user"
    /\ TryLockOk(t)
    /\ depth' = [depth EXCEPT ![t] = @ + 1]
    /\ UNCHANGED <<sq, mutex, exists, stop, pc, arg, heir, threadVars>>

-----------------------------------------------------------------------------
\* sys_mutex_unlock

\* The thread gives up its lock, or one level of it.
Released(t) == depth' = [depth EXCEPT ![t] = @ - 1]

\* try_unlock() by the owner (EPERM for the others).
Unlock(t) ==
    /\ exists
    /\ MayEnter(t)
    /\ pc[t] \in {"user", "redo_u"}
    /\ owner = t
    /\ \/ /\ lock_count > 0
          /\ lock_count' = lock_count - 1
          /\ Released(t)
          /\ Goto(t, "user")
          /\ UNCHANGED owner
       \/ /\ lock_count = 0
          /\ sq = <<>>
          /\ owner' = None
          /\ Released(t)
          /\ Goto(t, "user")
          /\ UNCHANGED lock_count
       \/ /\ lock_count = 0
          /\ sq # <<>>
          /\ Goto(t, "u_lock")
          /\ UNCHANGED <<owner, lock_count, depth>>
    /\ UNCHANGED <<sq, mutex, exists, stop, arg, heir, threadVars>>

\* The waiter reown() picks.
NextOwner == sq[Schedule(sq)]

\* It was stopped while queued and will repeat its call (cpu_flag::again), which
\* is sys_mutex_lock or sys_cond_wait.
Repeating(u) == pc[u] \in {"again_l", "again_c"}

\* reown(): the next owner leaves the queue, or the mutex becomes free.
Reown ==
    \/ /\ sq = <<>>
       /\ owner' = None
       /\ UNCHANGED sq
    \/ /\ sq # <<>>
       /\ owner' = NextOwner
       /\ sq' = Unlink(sq, Schedule(sq))

\* Under the mutex: hand the mutex over, or give way to a waiter that will
\* repeat its call by repeating the unlock.
UnlockReown(t) ==
    /\ pc[t] = "u_lock"
    /\ mutex = None
    /\ \/ /\ sq # <<>>
          /\ Repeating(NextOwner)
          /\ Goto(t, "again_u")
          /\ UNCHANGED <<owner, sq, mutex, heir, depth>>
       \/ /\ sq # <<>>
          /\ ~Repeating(NextOwner)
          /\ Reown
          /\ mutex' = t
          /\ heir' = [heir EXCEPT ![t] = NextOwner]
          /\ Released(t)
          /\ Goto(t, "u_awake")
       \/ /\ sq = <<>>
          /\ Reown
          /\ Released(t)
          /\ Goto(t, "user")
          /\ UNCHANGED <<mutex, heir>>
    /\ UNCHANGED <<lock_count, exists, stop, arg, threadVars>>

UnlockAwake(t) ==
    /\ pc[t] = "u_awake"
    /\ Awake({heir[t]})
    /\ heir' = [heir EXCEPT ![t] = None]
    /\ mutex' = None
    /\ Goto(t, "user")
    /\ UNCHANGED <<owner, sq, lock_count, exists, stop, arg, depth>>

-----------------------------------------------------------------------------
\* sys_mutex_destroy: idm::withdraw excludes the handlers in idm::get.

Destroy(t) ==
    /\ exists
    /\ MayEnter(t)
    /\ pc[t] = "user"
    /\ \A u \in Threads : pc[u] \notin InLambda
    /\ mutex = None
    /\ owner = None
    /\ exists' = FALSE
    /\ UNCHANGED <<owner, sq, lock_count, mutex, stop, pc, arg, heir, depth, threadVars>>

-----------------------------------------------------------------------------
\* Savestates

Stop ==
    /\ Savestates
    /\ ~stop
    /\ FutureSleepers = {}
    /\ stop' = TRUE
    /\ UNCHANGED <<mutexVars, pc, arg, heir, depth, threadVars>>

Halt(t) ==
    /\ stop
    /\ pc[t] \in {"user", "l_yield"}
    /\ Goto(t, "halted")
    /\ UNCHANGED <<mutexVars, stop, arg, heir, depth, threadVars>>

\* lv2_mutex::save writes lock_count and the owner; the waiters that sleep enter the
\* queue again themselves, before anything else runs.
SavedOwner == owner

-----------------------------------------------------------------------------
Lock(t) ==
    \/ \E timeout \in Timeouts : LockAtOnce(t, timeout) \/ LockBusy(t, timeout)
    \/ LockOwn(t) \/ LockSleep(t) \/ LockYield(t)
    \/ WaitSignaled(t) \/ WaitStopped(t)
    \/ WaitTimeout(t) \/ WaitRescheduled(t) \/ WaitExpired(t)

UnlockCall(t) == Unlock(t) \/ UnlockReown(t) \/ UnlockAwake(t)

\* The steps of a thread inside a call.
Proceed(t) ==
    \/ LockOwn(t) \/ LockSleep(t) \/ LockYield(t) \/ WaitSignaled(t)
    \/ WaitTimeout(t) \/ WaitRescheduled(t) \/ UnlockAwake(t)

\* The steps that lock lv2_mutex::mutex.
ProceedLocked(t) == WaitExpired(t) \/ UnlockReown(t)

-----------------------------------------------------------------------------
\* Places where a thread may wait for the mutex without knowing its fate.
Awaiting == {"l_sleep", "waiting", "resched", "l_expired", "again_l"}

\* Mutual exclusion, and no level of it is lost: a thread whose calls told it
\* that it holds the mutex is the owner, and lock_count is the number of times
\* it locked it beyond the first (sys_mutex_lock, sys_mutex_unlock).
HolderOwns ==
    \A t \in Threads : depth[t] > 0 => owner = t /\ lock_count = depth[t] - 1

=============================================================================
