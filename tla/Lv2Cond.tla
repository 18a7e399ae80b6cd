------------------------------- MODULE Lv2Cond -------------------------------
(***************************************************************************)
(* sys_cond.cpp: one lv2_cond and the lv2_mutex it belongs to.             *)
(*                                                                         *)
(* This module composes sys_cond with Lv2Mutex: a waiter leaves the mutex  *)
(* to its next owner and sleeps in one step of the scheduler, a signal     *)
(* moves it from the queue of the condition variable (csq) to the mutex or *)
(* to the mutex' queue.  csq is protected by lv2_mutex::mutex, but the     *)
(* owner of the mutex also changes without it.                             *)
(***************************************************************************)
EXTENDS Functions, Lv2Mutex

VARIABLES csq, cexists, \* lv2_cond
          ret,          \* the recursive value sys_cond_wait keeps (cond.ret)
          requeued,     \* saved: the waiter was in the mutex' queue (mutex_sleep)
          rest,         \* the waiters sys_cond_signal_all still has to move
          held          \* history: depth of the waiters before their wait

condVars == <<csq, cexists, ret, requeued, rest, held>>
cvars == <<vars, condVars>>

WaitPlaces == {"c_sleep", "c_waiting", "c_resched", "c_expired", "c_resleep", "c_mutex",
               "c_return", "again_c", "redo_c"}

SignalPlaces == {"s_all", "s_awake", "again_s"}

CondPlaces == Places \cup WaitPlaces \cup SignalPlaces

CondTypeOK ==
    /\ ThreadsTypeOK
    /\ owner \in Threads \cup {None}
    /\ sq \in Seq(Threads)
    /\ lock_count \in 0..MaxCount
    /\ mutex \in Threads \cup {None}
    /\ exists \in BOOLEAN
    /\ stop \in BOOLEAN
    /\ pc \in [Threads -> CondPlaces]
    /\ arg \in [Threads -> Nat]
    /\ heir \in [Threads -> Threads \cup {None}]
    /\ depth \in [Threads -> Nat]
    /\ csq \in Seq(Threads)
    /\ cexists \in BOOLEAN
    /\ ret \in [Threads -> 0..MaxCount]
    /\ requeued \in [Threads -> BOOLEAN]
    /\ rest \in [Threads -> Seq(Threads)]
    /\ held \in [Threads -> Nat]

CondInit ==
    /\ Init
    /\ csq = <<>>
    /\ cexists = TRUE
    /\ ret = [t \in Threads |-> 0]
    /\ requeued = [t \in Threads |-> FALSE]
    /\ rest = [t \in Threads |-> <<>>]
    /\ held = [t \in Threads |-> 0]

-----------------------------------------------------------------------------
\* sys_cond_wait

\* Without lv2_mutex::mutex: EPERM unless the caller owns the mutex, ESRCH when
\* there is no condition variable.  Only a repeated call changes anything then.
CondRefused(t) ==
    /\ MayEnter(t)
    /\ pc[t] = "redo_c"
    /\ st[t] # "sleep"
    /\ owner # t \/ ~cexists
    /\ ret' = [ret EXCEPT ![t] = 0]
    /\ held' = [held EXCEPT ![t] = 0]
    /\ requeued' = [requeued EXCEPT ![t] = FALSE]
    /\ Return(t)
    /\ UNCHANGED <<mutexVars, stop, heir, depth, threadVars, csq, cexists, rest>>

\* Under the mutex: register, then unlock the mutex whatever its lock_count.
\* When the next owner will repeat its call, so does this one.
CondWait(t, timeout) ==
    /\ cexists
    /\ MayEnter(t)
    /\ \/ pc[t] = "user"
       \/ pc[t] = "redo_c" /\ st[t] # "sleep" /\ timeout = arg[t]
    /\ owner = t
    /\ mutex = None
    /\ arg' = [arg EXCEPT ![t] = timeout]
    /\ lock_count' = 0
    /\ \/ /\ sq # <<>>
          /\ Repeating(NextOwner)
          /\ Goto(t, "again_c")
          /\ UNCHANGED <<owner, sq, mutex, heir, depth, csq, ret, held>>
       \/ /\ sq # <<>> => ~Repeating(NextOwner)
          /\ csq' = Emplace(csq, t)
          /\ ret' = [ret EXCEPT ![t] = lock_count]
          /\ Reown
          /\ heir' = [heir EXCEPT ![t] = IF sq = <<>> THEN None ELSE NextOwner]
          /\ mutex' = t
          /\ held' = [held EXCEPT ![t] = depth[t]]
          /\ depth' = [depth EXCEPT ![t] = 0]
          /\ Goto(t, "c_sleep")
    /\ UNCHANGED <<exists, stop, threadVars, cexists, requeued, rest>>

CondSleep_Mutant(t) ==
    /\ pc[t] = "c_sleep"
    /\ Sleep(t)
    /\ heir' = [heir EXCEPT ![t] = None]
    /\ mutex' = None
    /\ Goto(t, "c_waiting")
    /\ UNCHANGED <<owner, sq, lock_count, exists, stop, arg, depth, condVars>>

\* sleep() with the next owner appended.
CondSleep(t) ==
    /\ pc[t] = "c_sleep"
    /\ SleepAndAwake(t, {heir[t]})
    /\ heir' = [heir EXCEPT ![t] = None]
    /\ mutex' = None
    /\ Goto(t, "c_waiting")
    /\ UNCHANGED <<owner, sq, lock_count, exists, stop, arg, depth, condVars>>

\* After a savestate was loaded (loaded_from_savestate): enter the queue the
\* waiter was in and sleep.  ensure(!try_own()) expects the mutex to be owned.
CondWaitAgain(t) ==
    /\ cexists
    /\ pc[t] = "redo_c"
    /\ st[t] = "sleep"
    /\ mutex = None
    /\ \/ /\ requeued[t]
          /\ owner # None
          /\ sq' = Emplace(sq, t)
          /\ UNCHANGED csq
       \/ /\ ~requeued[t]
          /\ csq' = Emplace(csq, t)
          /\ UNCHANGED sq
    /\ requeued' = [requeued EXCEPT ![t] = FALSE]
    /\ Sleep(t)
    /\ Goto(t, "c_waiting")
    /\ UNCHANGED <<owner, lock_count, mutex, exists, stop, arg, heir, depth,
                   cexists, ret, rest, held>>

\* The loop of sys_cond_wait finds cpu_flag::signal.
CondSignaled(t) ==
    /\ pc[t] \in {"c_waiting", "c_mutex"}
    /\ Resume(t)
    /\ Goto(t, "c_return")
    /\ UNCHANGED <<mutexVars, stop, arg, heir, depth, condVars>>

\* The loop finds the thread stopped: repeat the call if still in a queue.
CondStopped(t) ==
    /\ pc[t] \in {"c_waiting", "c_mutex"}
    /\ stop
    /\ mutex = None
    /\ \/ /\ InQueue(csq, t) \/ InQueue(sq, t)
          /\ requeued' = [requeued EXCEPT ![t] = InQueue(sq, t)]
          /\ Goto(t, "again_c")
       \/ /\ ~InQueue(csq, t) /\ ~InQueue(sq, t)
          /\ Goto(t, "c_return")
          /\ UNCHANGED requeued
    /\ UNCHANGED <<mutexVars, stop, arg, heir, depth, threadVars,
                   csq, cexists, ret, rest, held>>

\* wait_timeout() returns true, check_state() waits for rescheduling.
CondTimeout(t) ==
    /\ pc[t] = "c_waiting"
    /\ arg[t] # 0
    /\ SelfAwake(t)
    /\ Goto(t, "c_resched")
    /\ UNCHANGED <<mutexVars, stop, arg, heir, depth, condVars>>

CondRescheduled(t) ==
    /\ pc[t] = "c_resched"
    /\ \/ /\ Resume(t)
          /\ Goto(t, "c_expired")
       \/ /\ stop                          \* check_state() returns true
          /\ Goto(t, "c_waiting")
          /\ Resume(t) \/ UNCHANGED threadVars
    /\ UNCHANGED <<mutexVars, stop, arg, heir, depth, condVars>>

CondExpired_Mutant(t) ==
    /\ pc[t] = "c_expired"
    /\ mutex = None
    /\ csq' = SelectSeq(csq, LAMBDA u : u # t)
    /\ Goto(t, "c_return")
    /\ UNCHANGED <<mutexVars, stop, arg, heir, depth, threadVars,
                   cexists, ret, requeued, rest, held>>

\* Under the mutex: cancel the wait and own or requeue; a waiter that was
\* signaled owns the mutex or is in its queue already.
CondExpired(t) ==
    /\ pc[t] = "c_expired"
    /\ mutex = None
    /\ \/ /\ InQueue(csq, t)
          /\ csq' = Unqueue(csq, t)
          /\ \/ /\ owner = None
                /\ owner' = t
                /\ Goto(t, "c_return")
                /\ UNCHANGED <<sq, mutex>>
             \/ /\ owner # None
                /\ sq' = Emplace(sq, t)
                /\ mutex' = t
                /\ Goto(t, "c_resleep")
                /\ UNCHANGED owner
       \/ /\ ~InQueue(csq, t)
          /\ owner = t
          /\ Goto(t, "c_return")
          /\ UNCHANGED <<owner, sq, mutex, csq>>
       \/ /\ ~InQueue(csq, t)
          /\ owner # t
          /\ mutex' = t
          /\ Goto(t, "c_resleep")
          /\ UNCHANGED <<owner, sq, csq>>
    /\ UNCHANGED <<lock_count, exists, stop, arg, heir, depth, threadVars,
                   cexists, ret, requeued, rest, held>>

\* mutex->sleep(ppu), and no timeout any more.
CondResleep(t) ==
    /\ pc[t] = "c_resleep"
    /\ Sleep(t)
    /\ mutex' = None
    /\ Goto(t, "c_mutex")
    /\ UNCHANGED <<owner, sq, lock_count, exists, stop, arg, heir, depth, condVars>>

\* ensure(owner == ppu.id), then restore the recursive value.
CondReturn(t) ==
    /\ pc[t] = "c_return"
    /\ lock_count' = ret[t]
    /\ ret' = [ret EXCEPT ![t] = 0]
    /\ depth' = [depth EXCEPT ![t] = held[t]]
    /\ held' = [held EXCEPT ![t] = 0]
    /\ Return(t)
    /\ UNCHANGED <<owner, sq, mutex, exists, stop, heir, threadVars,
                   csq, cexists, requeued, rest>>

-----------------------------------------------------------------------------
\* sys_cond_signal, sys_cond_signal_to, sys_cond_signal_all

TryOwnFor_Mutant(t, u) ==
    /\ heir' = [heir EXCEPT ![t] = IF owner = None THEN u ELSE @]
    /\ sq' = IF owner = None THEN sq ELSE Emplace(sq, u)
    /\ UNCHANGED owner

\* try_own() on behalf of the waiter u: it owns the mutex and has to be awoken
\* by t, or it enters the mutex' queue in its sleep.
TryOwnFor(t, u) ==
    \/ /\ owner = None
       /\ owner' = u
       /\ heir' = [heir EXCEPT ![t] = u]
       /\ UNCHANGED sq
    \/ /\ owner # None
       /\ sq' = Emplace(sq, u)
       /\ UNCHANGED <<owner, heir>>

Signaling(t) ==
    /\ cexists
    /\ MayEnter(t)
    /\ pc[t] = "user"

\* test_stopped(): repeat the call.  It has done nothing yet, so after a reload
\* it is a call like any other.
SignalStopped(t) ==
    /\ Signaling(t)
    /\ stop
    /\ Goto(t, "again_s")
    /\ UNCHANGED <<mutexVars, stop, arg, heir, depth, threadVars, condVars>>

SignalAt_Mutant(t, i) ==
    /\ Signaling(t)
    /\ mutex = None
    /\ TryOwnFor(t, csq[i])
    /\ mutex' = IF owner = None THEN t ELSE None
    /\ Goto(t, IF owner = None THEN "s_awake" ELSE "user")
    /\ UNCHANGED <<lock_count, exists, stop, arg, depth, threadVars, condVars>>

\* Under the mutex: move the waiter at i.
SignalAt(t, i) ==
    /\ Signaling(t)
    /\ mutex = None
    /\ \/ /\ Repeating(csq[i])
          /\ Goto(t, "again_s")
          /\ UNCHANGED <<owner, sq, mutex, heir, csq>>
       \/ /\ ~Repeating(csq[i])
          /\ csq' = Unlink(csq, i)
          /\ TryOwnFor(t, csq[i])
          /\ mutex' = IF owner = None THEN t ELSE None
          /\ Goto(t, IF owner = None THEN "s_awake" ELSE "user")
    /\ UNCHANGED <<lock_count, exists, stop, arg, depth, threadVars,
                   cexists, ret, requeued, rest, held>>

Signal(t) == csq # <<>> /\ SignalAt(t, Schedule(csq))

SignalTo(t, i) == SignalAt(t, i)

\* Under the mutex: give way to a waiter that will repeat its call, or take the
\* whole queue.
SignalAll(t) ==
    /\ Signaling(t)
    /\ csq # <<>>
    /\ mutex = None
    /\ \/ /\ \E i \in DOMAIN csq : Repeating(csq[i])
          /\ Goto(t, "again_s")
          /\ UNCHANGED <<mutex, csq, rest>>
       \/ /\ \A i \in DOMAIN csq : ~Repeating(csq[i])
          /\ rest' = [rest EXCEPT ![t] = csq]
          /\ csq' = <<>>
          /\ mutex' = t
          /\ Goto(t, "s_all")
    /\ UNCHANGED <<owner, sq, lock_count, exists, stop, arg, heir, depth, threadVars,
                   cexists, ret, requeued, held>>

\* Always by priority; ensure(!std::exchange(result, cpu)).
SignalAllNext(t) ==
    /\ pc[t] = "s_all"
    /\ rest[t] # <<>>
    /\ LET i == ScheduleBy("prio", rest[t])
       IN  /\ TryOwnFor(t, rest[t][i])
           /\ rest' = [rest EXCEPT ![t] = Unlink(@, i)]
    /\ UNCHANGED <<lock_count, mutex, exists, stop, pc, arg, depth, threadVars,
                   csq, cexists, ret, requeued, held>>

SignalAwake(t) ==
    /\ \/ pc[t] = "s_awake"
       \/ pc[t] = "s_all" /\ rest[t] = <<>>
    /\ Awake({heir[t]})
    /\ heir' = [heir EXCEPT ![t] = None]
    /\ mutex' = None
    /\ Goto(t, "user")
    /\ UNCHANGED <<owner, sq, lock_count, exists, stop, arg, depth, condVars>>

-----------------------------------------------------------------------------
\* sys_cond_create after a destroy, sys_cond_destroy; the mutex stays while it
\* has a condition variable (cond_count).

CondCreate(t) ==
    /\ ~cexists
    /\ exists
    /\ MayEnter(t)
    /\ pc[t] = "user"
    /\ cexists' = TRUE
    /\ UNCHANGED <<vars, csq, ret, requeued, rest, held>>

CondDestroy(t) ==
    /\ cexists
    /\ MayEnter(t)
    /\ pc[t] = "user"
    /\ \A u \in Threads : pc[u] \notin InLambda
    /\ mutex = None
    /\ csq = <<>>
    /\ cexists' = FALSE
    /\ UNCHANGED <<vars, csq, ret, requeued, rest, held>>

\* The savestate: a waiter comes back with the queue it was in and its
\* recursive value if it sleeps, and otherwise with its arguments only.
CondReload ==
    /\ stop
    /\ \A t \in Threads : pc[t] \in {"halted", "again_l", "again_u", "again_c", "again_s",
                                     "redo_l", "redo_u", "redo_c"}
    /\ stop' = FALSE
    /\ owner' = SavedOwner
    /\ sq' = <<>>
    /\ csq' = <<>>
    /\ pc' = [t \in Threads |-> CASE pc[t] \in {"again_l", "redo_l"} -> "redo_l"
                                  [] pc[t] \in {"again_u", "redo_u"} -> "redo_u"
                                  [] pc[t] \in {"again_c", "redo_c"} -> "redo_c"
                                  [] OTHER -> "user"]
    /\ st' = [t \in Threads |->
                IF pc[t] \in {"again_l", "again_c"} /\ st[t] = "sleep" THEN "sleep" ELSE "onproc"]
    /\ cancel' = [t \in Threads |-> 0]
    /\ UNCHANGED <<lock_count, mutex, exists, arg, heir, depth,
                   cexists, ret, requeued, rest, held>>

-----------------------------------------------------------------------------
WaitCall(t) ==
    \/ \E timeout \in Timeouts : CondWait(t, timeout)
    \/ CondRefused(t) \/ CondSleep(t) \/ CondWaitAgain(t) \/ CondSignaled(t) \/ CondStopped(t)
    \/ CondTimeout(t) \/ CondRescheduled(t) \/ CondExpired(t) \/ CondResleep(t) \/ CondReturn(t)

SignalCall(t) ==
    \/ SignalStopped(t) \/ Signal(t) \/ SignalAll(t) \/ SignalAllNext(t) \/ SignalAwake(t)
    \/ \E i \in DOMAIN csq : SignalTo(t, i)

MutexStep ==
    \/ \E t \in Threads :
          \/ Lock(t) \/ TryLock(t) \/ UnlockCall(t) \/ Halt(t)
          \/ ~cexists /\ Destroy(t)
    \/ Stop

CondNext ==
    \/ MutexStep /\ UNCHANGED condVars
    \/ \E t \in Threads : WaitCall(t) \/ SignalCall(t) \/ CondCreate(t) \/ CondDestroy(t)
    \/ CondReload

CondSpec == CondInit /\ [][CondNext]_cvars

\* The steps of a thread inside a call. At any point of a call they are either free
\* of lv2_mutex::mutex or lock it, and the lock is fair: strong fairness.
CondProceed(t) ==
    \/ (Proceed(t) \/ ProceedLocked(t)) /\ UNCHANGED condVars
    \/ CondSleep(t) \/ CondSignaled(t) \/ CondTimeout(t) \/ CondRescheduled(t)
    \/ CondResleep(t) \/ CondReturn(t) \/ SignalAllNext(t) \/ SignalAwake(t)
    \/ CondExpired(t)

CondLiveSpec == CondSpec /\ \A t \in Threads : SF_cvars(CondProceed(t))

-----------------------------------------------------------------------------
\* Properties

\* A savestate is not requested while a timed wait is in progress or the mutex is
\* locked recursively: the properties are about the other behaviours (the README
\* describes what can happen then).
PlainStops == stop => \A t \in Threads : arg[t] = 0 /\ depth[t] < 2

\* Places inside sys_cond_wait after the caller was registered.
CondAwaiting == {"c_sleep", "c_waiting", "c_resched", "c_expired", "c_resleep", "c_mutex",
                 "again_c"}

\* The mutex is never handed to a thread that has given up, whichever of unlock,
\* wait, timeout and signals decides: the owner was told that it holds the mutex,
\* or will be told when its call, which is out of the queues, returns; and who was
\* told is the owner, at the depth it locked the mutex to (HolderOwns).
CondOwnerIsTold ==
    /\ HolderOwns
    /\ owner # None =>
         \/ depth[owner] > 0
         \/ /\ pc[owner] \in (Awaiting \cup CondAwaiting \cup {"c_return"})
                               \ {"again_l", "again_c"}
            /\ ~InQueue(sq, owner)
            /\ ~InQueue(csq, owner)

\* The ensure()s of sys_cond.cpp: sys_cond_wait ends with the mutex owned by its
\* caller ("Verify ownership"), a waiter that slept on the mutex when the state
\* was saved finds the mutex owned when it is loaded, as does a repeated lock (the
\* scheduler only starts when all that slept called sleep() again), and
\* sys_cond_signal_all makes at most one waiter the owner.
CondEnsures ==
    \A t \in Threads :
        /\ pc[t] = "c_return" => owner = t
        /\ pc[t] = "redo_c" /\ st[t] = "sleep" /\ requeued[t] => owner # None
        /\ pc[t] = "redo_l" /\ t \in FutureSleepers => owner \notin {None, t}
        /\ pc[t] = "s_all" /\ rest[t] # <<>> /\ owner = None => heir[t] = None

\* A thread is in one queue at most and once: a signal racing with a timeout
\* never links a thread (it has only one next_cpu) into two lists.
InOneQueue ==
    LET all == csq \o sq \o (IF mutex = None THEN <<>> ELSE rest[mutex])
    IN  /\ IsInjective(all)
        /\ \A i \in DOMAIN all : pc[all[i]] \in Awaiting \cup CondAwaiting

\* A thread that sleeps in sys_cond_wait or sys_mutex_lock is in a queue, or
\* the holder of lv2_mutex::mutex is about to move or to awake it: a signal, an
\* unlock or a timeout between the queueing and the sleep is not lost.  No race
\* links a thread into two lists (InOneQueue).
CondNoLostWakeup ==
    /\ InOneQueue
    /\ \A t \in Threads :
         pc[t] \in {"waiting", "again_l", "c_waiting", "c_mutex", "again_c"} /\ st[t] = "sleep" =>
            \/ InQueue(sq, t)
            \/ InQueue(csq, t)
            \/ mutex # None /\ (heir[mutex] = t \/ InQueue(rest[mutex], t))

\* A waiter that leaves the condition variable does so towards the mutex.
WaitersMoveToMutex ==
    [][\A t \in Threads :
          InQueue(csq, t) /\ ~InQueue(csq', t) /\ ~(stop /\ ~stop') =>
              \/ InQueue(sq', t)
              \/ owner' = t
              \/ mutex' # None /\ InQueue(rest'[mutex'], t)]_cvars

\* A waiter that was made the owner of the mutex returns from sys_mutex_lock and
\* sys_cond_wait, and a lock with a timeout returns, unless a savestate stops it.
CondWaiterReturns ==
    \A t \in Threads :
        \/ pc[t] \in {"waiting", "c_waiting", "c_mutex"} /\ owner = t
        \/ pc[t] = "waiting" /\ arg[t] # 0
        ~> pc[t] = "user" \/ stop

=============================================================================
