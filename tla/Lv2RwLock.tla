------------------------------ MODULE Lv2RwLock ------------------------------
(***************************************************************************)
(* sys_rwlock.cpp: one lv2_rwlock shared by PPU threads.                   *)
(*                                                                         *)
(* lv2_rwlock::owner is one word: 0, minus twice the number of readers, or *)
(* twice the id of the writer, and in bit 0 whether anyone waits.  It is a *)
(* record here.  While bit 0 is set no compare-and-swap outside            *)
(* lv2_rwlock::mutex can succeed, and a thread that is made the owner has  *)
(* to take the mutex or to be awoken before it does anything; so what a    *)
(* handler does under the mutex is one step.  The unlocks leave the id     *)
(* manager's lock before they take the mutex.                              *)
(*                                                                         *)
(* reading and writing are history variables: the locks each thread knows  *)
(* it has.  The code does not know who reads: only threads that do call    *)
(* sys_rwlock_runlock here.                                                *)
(***************************************************************************)
EXTENDS Integers, Sequences, FiniteSets, FiniteSetsExt, Functions, Lv2Threads, Lv2WaitQueue

CONSTANTS Timeouts,   \* the timeouts passed to the locks; 0 is none
          MaxReads,   \* bound: read locks one thread takes at a time
          Savestates, \* TRUE when the emulator may save and reload
          None        \* not a thread: nobody

ASSUME RwLockAssumption ==
    /\ Timeouts \subseteq Nat
    /\ MaxReads \in Nat \ {0}
    /\ Savestates \in BOOLEAN
    /\ IsFiniteSet(Threads)
    /\ None \notin Threads
    /\ Protocol \in {"fifo", "prio"}
    /\ Prio \in [Threads -> Nat]

VARIABLES owner, rq, wq, mutex, exists, \* lv2_rwlock
          stop,                         \* a savestate was requested
          pc,                           \* where each thread is
          mode,                         \* what its lock waits for: "r" or "w"
          arg,                          \* the timeout of the wait in progress
          reading, writing              \* history

lockVars == <<owner, rq, wq, mutex, exists>>
history == <<reading, writing>>
vars == <<lockVars, stop, pc, mode, arg, history, threadVars>>

Owners == [writer : Threads \cup {None}, readers : Nat, wait : BOOLEAN]

Places == {"user", "halted", "waiting", "resched", "expired", "spin", "ru_lock", "wu_lock",
           "again_l", "again_ru", "again_wu", "redo_l", "redo_ru", "redo_wu"}

TypeOK ==
    /\ ThreadsTypeOK
    /\ owner \in Owners
    /\ rq \in Seq(Threads)
    /\ wq \in Seq(Threads)
    /\ mutex \in Threads \cup {None}
    /\ exists \in BOOLEAN
    /\ stop \in BOOLEAN
    /\ pc \in [Threads -> Places]
    /\ mode \in [Threads -> {"r", "w"}]
    /\ arg \in [Threads -> Nat]
    /\ reading \in [Threads -> Nat]
    /\ writing \in [Threads -> BOOLEAN]

\* owner = 0
Free == [writer |-> None, readers |-> 0, wait |-> FALSE]

Init ==
    /\ ThreadsInit
    /\ owner = Free
    /\ rq = <<>>
    /\ wq = <<>>
    /\ mutex = None
    /\ exists = TRUE
    /\ stop = FALSE
    /\ pc = [t \in Threads |-> "user"]
    /\ mode = [t \in Threads |-> "r"]
    /\ arg = [t \in Threads |-> 0]
    /\ reading = [t \in Threads |-> 0]
    /\ writing = [t \in Threads |-> FALSE]

-----------------------------------------------------------------------------
Goto(t, to) == pc' = [pc EXCEPT ![t] = to]

\* Threads that repeat their lock before the scheduler is started (g_to_sleep).
FutureSleepers == {t \in Threads : st[t] = "sleep" /\ pc[t] = "redo_l"}

MayEnter(t) == FutureSleepers = {} \/ t \in FutureSleepers

\* A lock is granted: the thread knows it when its call returns.
GrantTo(t, m) ==
    /\ reading' = IF m = "r" THEN [reading EXCEPT ![t] = @ + 1] ELSE reading
    /\ writing' = IF m = "w" THEN [writing EXCEPT ![t] = TRUE] ELSE writing

Repeating_Mutant(u) == FALSE

\* It was stopped while queued and will repeat its call (cpu_flag::again).
Repeating(u) == pc[u] = "again_l"

SomeRepeating(q) == \E i \in DOMAIN q : Repeating(q[i])

-----------------------------------------------------------------------------
\* sys_rwlock_rlock, sys_rwlock_wlock

\* The caller may become a reader (val <= 0 && !(val & 1)) or the writer (val == 0).
Available(m) ==
    /\ owner.writer = None
    /\ ~owner.wait
    /\ m = "w" => owner.readers = 0

OwnedBy(t, m) ==
    IF m = "r" THEN [owner EXCEPT !.readers = @ + 1] ELSE [owner EXCEPT !.writer = t]

\* A call of the lock; one that is repeated has the arguments it had.
Entering(t, m, timeout) ==
    /\ exists
    /\ MayEnter(t)
    /\ \/ pc[t] = "user" /\ (m = "r" => reading[t] < MaxReads)
       \/ pc[t] = "redo_l" /\ m = mode[t] /\ timeout = arg[t]

\* By compare-and-swap, or by fetch_op under the mutex.
LockAtOnce(t, m, timeout) ==
    /\ Entering(t, m, timeout)
    /\ Available(m)
    /\ owner' = OwnedBy(t, m)
    /\ GrantTo(t, m)
    /\ Goto(t, "user")
    /\ UNCHANGED <<rq, wq, mutex, exists, stop, mode, arg, threadVars>>

\* Under the mutex: set the wait bit, sleep and enter the queue.  The writer
\* itself fails with EDEADLK when it wants to write.
LockWait(t, m, timeout) ==
    /\ Entering(t, m, timeout)
    /\ mutex = None
    /\ ~Available(m)
    /\ m = "w" => owner.writer # t
    /\ owner' = [owner EXCEPT !.wait = TRUE]
    /\ Sleep(t)
    /\ rq' = IF m = "r" THEN Emplace(rq, t) ELSE rq
    /\ wq' = IF m = "w" THEN Emplace(wq, t) ELSE wq
    /\ mode' = [mode EXCEPT ![t] = m]
    /\ arg' = [arg EXCEPT ![t] = timeout]
    /\ Goto(t, "waiting")
    /\ UNCHANGED <<mutex, exists, stop, history>>

Queued(t) == InQueue(rq, t) \/ InQueue(wq, t)

\* The loop finds cpu_flag::signal.
WaitSignaled(t) ==
    /\ pc[t] = "waiting"
    /\ Resume(t)
    /\ GrantTo(t, mode[t])
    /\ Goto(t, "user")
    /\ UNCHANGED <<lockVars, stop, mode, arg>>

\* The loop finds the thread stopped: repeat the call if still queued.
WaitStopped(t) ==
    /\ pc[t] = "waiting"
    /\ stop
    /\ mutex = None
    /\ \/ /\ Queued(t)
          /\ Goto(t, "again_l")
          /\ UNCHANGED history
       \/ /\ ~Queued(t)
          /\ GrantTo(t, mode[t])
          /\ Goto(t, "halted")
    /\ UNCHANGED <<lockVars, stop, mode, arg, threadVars>>

\* wait_timeout() returns true, check_state() waits for rescheduling.
WaitTimeout(t) ==
    /\ pc[t] = "waiting"
    /\ arg[t] # 0
    /\ SelfAwake(t)
    /\ Goto(t, "resched")
    /\ UNCHANGED <<lockVars, stop, mode, arg, history>>

WaitRescheduled(t) ==
    /\ pc[t] = "resched"
    /\ \/ /\ Resume(t)
          /\ Goto(t, "expired")
       \/ /\ stop                          \* check_state() returns true
          /\ Goto(t, "waiting")
          /\ Resume(t) \/ UNCHANGED threadVars
    /\ UNCHANGED <<lockVars, stop, mode, arg, history>>

\* A timed out reader leaves its queue, or was granted the lock.
ReaderExpired(t) ==
    /\ pc[t] = "expired"
    /\ mode[t] = "r"
    /\ mutex = None
    /\ \/ /\ InQueue(rq, t)
          /\ rq' = Unqueue(rq, t)
          /\ UNCHANGED history
       \/ /\ ~InQueue(rq, t)
          /\ GrantTo(t, "r")
          /\ UNCHANGED rq
    /\ Goto(t, "user")
    /\ UNCHANGED <<owner, wq, mutex, exists, stop, mode, arg, threadVars>>

\* It was the last writer in the queue of a lock that is being read.
LastWriter(t) == rq # <<>> /\ wq = <<t>> /\ owner.readers > 0

\* owner after the writer t gave up.
WithoutWriter(t) ==
    IF LastWriter(t)
    THEN [owner EXCEPT !.readers = @ + Len(rq), !.wait = FALSE]
    ELSE [owner EXCEPT !.wait = @ /\ ~(rq = <<>> /\ wq = <<t>>)]

LetIn_Mutant(t) == {}

\* The readers that it kept waiting.
LetIn(t) == IF LastWriter(t) THEN Range(rq) ELSE {}

\* A timed out writer leaves its queue and awakes the readers it kept waiting,
\* or was granted the lock.  The loop that awakes them does not look for
\* readers that will repeat their call: schedule() returns the oldest of those
\* without unlinking it, and the loop does not end ("spin").
WriterExpired(t) ==
    /\ pc[t] = "expired"
    /\ mode[t] = "w"
    /\ mutex = None
    /\ \/ /\ InQueue(wq, t)
          /\ LastWriter(t) => ~SomeRepeating(rq)
          /\ wq' = Unqueue(wq, t)
          /\ owner' = WithoutWriter(t)
          /\ rq' = IF LastWriter(t) THEN <<>> ELSE rq
          /\ Awake(LetIn(t))
          /\ Goto(t, "user")
          /\ UNCHANGED <<mutex, history>>
       \/ /\ InQueue(wq, t)
          /\ LastWriter(t)
          /\ SomeRepeating(rq)
          /\ wq' = Unqueue(wq, t)
          /\ rq' = SubSeq(rq, 1, Max({i \in DOMAIN rq : Repeating(rq[i])}))
          /\ mutex' = t
          /\ Goto(t, "spin")
          /\ UNCHANGED <<owner, history, threadVars>>
       \/ /\ ~InQueue(wq, t)
          /\ GrantTo(t, "w")
          /\ Goto(t, "user")
          /\ UNCHANGED <<owner, rq, wq, mutex, threadVars>>
    /\ UNCHANGED <<exists, stop, mode, arg>>

-----------------------------------------------------------------------------
\* sys_rwlock_tryrlock, sys_rwlock_trywlock (EBUSY and EDEADLK change nothing)

TryLock(t, m) ==
    /\ exists
    /\ MayEnter(t)
    /\ pc[t] = "user"
    /\ m = "r" => reading[t] < MaxReads
    /\ Available(m)
    /\ owner' = OwnedBy(t, m)
    /\ GrantTo(t, m)
    /\ UNCHANGED <<rq, wq, mutex, exists, stop, pc, mode, arg, threadVars>>

-----------------------------------------------------------------------------
\* sys_rwlock_runlock, sys_rwlock_wunlock

HandedTo_Mutant(i) == [writer |-> wq[i], readers |-> 0, wait |-> FALSE]

\* owner = cpu->id << 1 | !!wq | !!rq, for the writer at i.
HandedTo(i) ==
    [writer |-> wq[i], readers |-> 0, wait |-> Len(wq) > 1 \/ rq # <<>>]

\* The next writer, under the mutex.
AwakeWriter ==
    LET i == Schedule(wq)
    IN  /\ owner' = HandedTo(i)
        /\ wq' = Unlink(wq, i)
        /\ Awake({wq[i]})
        /\ UNCHANGED rq

WriterRepeating == wq # <<>> /\ Repeating(wq[Schedule(wq)])

\* The reader's call has been accepted.
ReadReleased(t) == reading' = [reading EXCEPT ![t] = @ - 1]

Releasing(t) ==
    /\ exists
    /\ MayEnter(t)
    /\ \/ pc[t] = "user" /\ reading[t] > 0
       \/ pc[t] = "redo_ru"

RUnlockAtOnce(t) ==
    /\ Releasing(t)
    /\ owner.readers > 0
    /\ ~owner.wait
    /\ owner' = [owner EXCEPT !.readers = @ - 1]
    /\ ReadReleased(t)
    /\ Goto(t, "user")
    /\ UNCHANGED <<rq, wq, mutex, exists, stop, mode, arg, writing, threadVars>>

RUnlockBusy(t) ==
    /\ Releasing(t)
    /\ owner.wait
    /\ Goto(t, "ru_lock")
    /\ UNCHANGED <<lockVars, stop, mode, arg, history, threadVars>>

\* Under the mutex: remove one reader; the last one hands the lock over
\* (ensure(!rq) if there is no writer).
RUnlockLocked(t) ==
    /\ pc[t] = "ru_lock"
    /\ mutex = None
    /\ \/ /\ owner.readers > 1 \/ (owner.readers = 1 /\ ~owner.wait)
          /\ owner' = [owner EXCEPT !.readers = @ - 1]
          /\ ReadReleased(t)
          /\ Goto(t, "user")
          /\ UNCHANGED <<rq, wq, threadVars>>
       \/ /\ owner.readers = 1 /\ owner.wait
          /\ WriterRepeating
          /\ Goto(t, "again_ru")
          /\ UNCHANGED <<owner, rq, wq, reading, threadVars>>
       \/ /\ owner.readers = 1 /\ owner.wait
          /\ wq # <<>>
          /\ ~WriterRepeating
          /\ AwakeWriter
          /\ ReadReleased(t)
          /\ Goto(t, "user")
       \/ /\ owner.readers = 1 /\ owner.wait
          /\ wq = <<>>
          /\ owner' = Free
          /\ ReadReleased(t)
          /\ Goto(t, "user")
          /\ UNCHANGED <<rq, wq, threadVars>>
    /\ UNCHANGED <<mutex, exists, stop, mode, arg, writing>>

\* The writer's call has been accepted (EPERM for the others).
WriteReleased(t) == writing' = [writing EXCEPT ![t] = FALSE]

WUnlockAtOnce(t) ==
    /\ exists
    /\ MayEnter(t)
    /\ pc[t] \in {"user", "redo_wu"}
    /\ owner.writer = t
    /\ ~owner.wait
    /\ owner' = Free
    /\ WriteReleased(t)
    /\ Goto(t, "user")
    /\ UNCHANGED <<rq, wq, mutex, exists, stop, mode, arg, reading, threadVars>>

WUnlockBusy(t) ==
    /\ exists
    /\ MayEnter(t)
    /\ pc[t] \in {"user", "redo_wu"}
    /\ owner.writer = t
    /\ owner.wait
    /\ Goto(t, "wu_lock")
    /\ UNCHANGED <<lockVars, stop, mode, arg, history, threadVars>>

\* Under the mutex: to the next writer, to all readers, or to nobody.
WUnlockLocked(t) ==
    /\ pc[t] = "wu_lock"
    /\ mutex = None
    /\ \/ /\ WriterRepeating \/ (wq = <<>> /\ SomeRepeating(rq))
          /\ Goto(t, "again_wu")
          /\ UNCHANGED <<owner, rq, wq, writing, threadVars>>
       \/ /\ wq # <<>>
          /\ ~WriterRepeating
          /\ AwakeWriter
          /\ WriteReleased(t)
          /\ Goto(t, "user")
       \/ /\ wq = <<>>
          /\ ~SomeRepeating(rq)
          /\ owner' = [Free EXCEPT !.readers = Len(rq)]
          /\ Awake(Range(rq))
          /\ rq' = <<>>
          /\ WriteReleased(t)
          /\ Goto(t, "user")
          /\ UNCHANGED wq
    /\ UNCHANGED <<mutex, exists, stop, mode, arg, reading>>

-----------------------------------------------------------------------------
\* sys_rwlock_destroy: idm::withdraw excludes the handlers in idm::get.

Destroy(t) ==
    /\ exists
    /\ MayEnter(t)
    /\ pc[t] = "user"
    /\ owner = Free
    /\ exists' = FALSE
    /\ UNCHANGED <<owner, rq, wq, mutex, stop, pc, mode, arg, history, threadVars>>

-----------------------------------------------------------------------------
\* Savestates

Stop ==
    /\ Savestates
    /\ ~stop
    /\ FutureSleepers = {}
    /\ stop' = TRUE
    /\ UNCHANGED <<lockVars, pc, mode, arg, history, threadVars>>

Halt(t) ==
    /\ stop
    /\ pc[t] = "user"
    /\ Goto(t, "halted")
    /\ UNCHANGED <<lockVars, stop, mode, arg, history, threadVars>>

\* lv2_rwlock::save writes owner with its wait bit; the waiters that sleep
\* enter their queue again themselves, before anything else runs.
Reload ==
    /\ stop
    /\ \A t \in Threads : pc[t] \in {"halted", "again_l", "again_ru", "again_wu",
                                     "redo_l", "redo_ru", "redo_wu"}
    /\ stop' = FALSE
    /\ rq' = <<>>
    /\ wq' = <<>>
    /\ pc' = [t \in Threads |-> CASE pc[t] \in {"again_l", "redo_l"} -> "redo_l"
                                  [] pc[t] \in {"again_ru", "redo_ru"} -> "redo_ru"
                                  [] pc[t] \in {"again_wu", "redo_wu"} -> "redo_wu"
                                  [] OTHER -> "user"]
    /\ st' = [t \in Threads |->
                IF pc[t] = "again_l" /\ st[t] = "sleep" THEN "sleep" ELSE "onproc"]
    /\ UNCHANGED <<owner, mutex, exists, mode, arg, history, cancel>>

-----------------------------------------------------------------------------
Lock(t) ==
    \/ \E m \in {"r", "w"}, timeout \in Timeouts : LockAtOnce(t, m, timeout) \/ LockWait(t, m, timeout)
    \/ WaitSignaled(t) \/ WaitStopped(t) \/ WaitTimeout(t) \/ WaitRescheduled(t)
    \/ ReaderExpired(t) \/ WriterExpired(t)

Unlock(t) ==
    \/ RUnlockAtOnce(t) \/ RUnlockBusy(t) \/ RUnlockLocked(t)
    \/ WUnlockAtOnce(t) \/ WUnlockBusy(t) \/ WUnlockLocked(t)

Next ==
    \/ \E t \in Threads :
          \/ Lock(t) \/ Unlock(t) \/ Destroy(t) \/ Halt(t)
          \/ \E m \in {"r", "w"} : TryLock(t, m)
    \/ Stop
    \/ Reload

Spec == Init /\ [][Next]_vars

\* Every thread inside a call goes on, and lv2_rwlock::mutex is granted to a
\* thread that keeps asking for it.
Fairness ==
    \A t \in Threads :
        /\ WF_vars(WaitSignaled(t) \/ WaitTimeout(t) \/ WaitRescheduled(t))
        /\ SF_vars(ReaderExpired(t) \/ WriterExpired(t) \/ WaitStopped(t)
                   \/ RUnlockLocked(t) \/ WUnlockLocked(t))

LiveSpec == Spec /\ Fairness

-----------------------------------------------------------------------------
\* Properties

\* No savestate is requested while a timed wait is in progress (the README
\* describes what can happen then).
UntimedStops ==
    stop => \A t \in Threads : pc[t] \in {"waiting", "resched", "expired", "again_l"} => arg[t] = 0

\* Threads whose lock for m was granted and whose call has not returned.
Granted(m) ==
    {t \in Threads : /\ pc[t] \in {"waiting", "resched", "expired"}
                     /\ mode[t] = m
                     /\ ~Queued(t)}

\* The read locks the threads know they have, numbered for each thread.
ReadLocks == {l \in Threads \X (1..MaxReads) : l[2] <= reading[l[1]]}

\* owner tells exactly who holds the lock, whatever let them in: its count is that of
\* the readers who know that they read and of those whom wunlock or a timed out
\* writer let in (too low lets a writer in beside a reader, too high keeps writers
\* out for ever), its writer knows that it writes or is about to (a lock handed to a
\* thread that timed out would never be unlocked), and nobody reads beside it.
OwnerMatchesHolders ==
    /\ owner.readers = Cardinality(ReadLocks) + Cardinality(Granted("r"))
    /\ \A t \in Threads : owner.writer = t <=> writing[t] \/ t \in Granted("w")
    /\ owner.writer # None => owner.readers = 0

\* A queued thread keeps bit 0 set, which is all that stops the lock-free paths from
\* overtaking it or from unlocking past it, and somebody holds the lock whose unlock
\* will find it; and ensure(!rwlock->rq) of sys_rwlock_runlock holds: when the last
\* reader finds no writer to hand the lock to, no reader waits either.
WaitersKeepBit ==
    /\ rq # <<>> \/ wq # <<>> => owner.wait /\ (owner.writer # None \/ owner.readers > 0)
    /\ \A t \in Threads :
         pc[t] = "ru_lock" /\ mutex = None /\ owner.readers = 1 /\ owner.wait /\ wq = <<>> =>
            rq = <<>>

\* A thread that was granted the lock, or whose timeout is set, returns, unless a
\* savestate stops it: the loop of a timed out writer that awakes the readers ends
\* when none of them was stopped.
LockReturns ==
    \A t \in Threads :
        pc[t] \in {"waiting", "resched", "expired"} /\ (arg[t] # 0 \/ ~Queued(t))
            ~> pc[t] = "user" \/ stop

=============================================================================
