------------------------------ MODULE Lv2Sema -------------------------------
(***************************************************************************)
(* sys_semaphore.cpp: one lv2_sema shared by PPU threads.                  *)
(*                                                                         *)
(* val, sq, mutex and exists are the members of lv2_sema.  val and sq are  *)
(* not protected alike: sq only changes under sema.mutex, val also changes *)
(* without it (the fast paths of wait and post, and trywait), so every     *)
(* handler is cut where such a change can slip in.  The handlers that run  *)
(* inside idm::get exclude sys_semaphore_destroy, which takes the          *)
(* IdManager's lock for writing; the slow path of post does not.           *)
(*                                                                         *)
(* A savestate stops every thread at its next opportunity (stop), a thread *)
(* stopped while it is queued asks to execute its system call again        *)
(* (cpu_flag::again), and Reload restarts from what save() wrote.          *)
(***************************************************************************)
EXTENDS Integers, Sequences, FiniteSets, Lv2Threads, Lv2WaitQueue

CONSTANTS MaxVal,        \* lv2_sema::max
          InitialVal, \* initial_val of sys_semaphore_create
          Counts,     \* the values of count passed to sys_semaphore_post
          Timeouts,   \* the timeouts passed to sys_semaphore_wait; 0 is none
          Savestates, \* TRUE when the emulator may save and reload
          None        \* not a thread: sema.mutex is free

ASSUME SemaAssumption ==
    /\ MaxVal \in Nat \ {0}
    /\ InitialVal \in 0..MaxVal
    /\ Counts \subseteq Nat \ {0}
    /\ Timeouts \subseteq Nat
    /\ Savestates \in BOOLEAN
    /\ IsFiniteSet(Threads)
    /\ None \notin Threads
    /\ Protocol \in {"fifo", "prio"}
    /\ Prio \in [Threads -> Nat]

VARIABLES val, sq, mutex, exists, \* lv2_sema
          stop,                   \* a savestate was requested
          pc,                     \* where each thread is in its system call
          seen,                   \* val as loaded by the fast paths
          arg,                    \* timeout of the wait, or count of the post, in progress
          left,                   \* threads post still has to schedule
          g_to_awake,             \* threads post has scheduled
          balance                 \* history: tokens clients were given less those they took

semaVars == <<val, sq, mutex, exists>>
localVars == <<seen, arg, left, g_to_awake>>
vars == <<semaVars, stop, pc, localVars, balance, threadVars>>

InLambda == {"w_cas", "w_lock", "w_sleep", "p_cas"}

Deficit(v) == IF v < 0 THEN -v ELSE 0

Places == {"user", "halted", "w_cas", "w_lock", "w_sleep", "waiting", "resched",
           "w_expired", "w_restore", "again_w", "redo_w",
           "p_cas", "p_lock", "p_wake", "again_p", "redo_p"}

TypeOK ==
    /\ ThreadsTypeOK
    /\ val \in Int
    /\ val <= MaxVal
    /\ sq \in Seq(Threads)
    /\ mutex \in Threads \cup {None}
    /\ exists \in BOOLEAN
    /\ stop \in BOOLEAN
    /\ pc \in [Threads -> Places]
    /\ seen \in [Threads -> Int]
    /\ arg \in [Threads -> Nat]
    /\ left \in [Threads -> Nat]
    /\ g_to_awake \in [Threads -> SUBSET Threads]
    /\ balance \in Int

Init ==
    /\ ThreadsInit
    /\ val = InitialVal
    /\ sq = <<>>
    /\ mutex = None
    /\ exists = TRUE
    /\ stop = FALSE
    /\ pc = [t \in Threads |-> "user"]
    /\ seen = [t \in Threads |-> 0]
    /\ arg = [t \in Threads |-> 0]
    /\ left = [t \in Threads |-> 0]
    /\ g_to_awake = [t \in Threads |-> {}]
    /\ balance = InitialVal

-----------------------------------------------------------------------------
Goto(t, to) == pc' = [pc EXCEPT ![t] = to]

\* Threads that execute their wait again before the scheduler is started
\* (g_to_sleep).
FutureSleepers ==
    {t \in Threads : st[t] = "sleep" /\ pc[t] \in {"redo_w", "w_cas", "w_lock", "w_sleep"}}

MayEnter(t) == FutureSleepers = {} \/ t \in FutureSleepers

Return(t) ==
    /\ Goto(t, "user")
    /\ arg' = [arg EXCEPT ![t] = 0]

\* The wait returns CELL_OK.
ReturnAcquired(t) ==
    /\ Return(t)
    /\ balance' = balance - 1

-----------------------------------------------------------------------------
\* sys_semaphore_wait

WaitCall(t, timeout) ==
    /\ exists
    /\ MayEnter(t)
    /\ \/ pc[t] = "user"
       \/ pc[t] = "redo_w" /\ timeout = arg[t]
    /\ seen' = [seen EXCEPT ![t] = IF val > 0 THEN val ELSE 0]
    /\ arg' = [arg EXCEPT ![t] = timeout]
    /\ Goto(t, IF val > 0 THEN "w_cas" ELSE "w_lock")
    /\ UNCHANGED <<semaVars, stop, left, g_to_awake, balance, threadVars>>

WaitCas(t) ==
    /\ pc[t] = "w_cas"
    /\ \/ /\ val = seen[t]
          /\ val' = val - 1
          /\ ReturnAcquired(t)
       \/ /\ val # seen[t]
          /\ Goto(t, "w_lock")
          /\ UNCHANGED <<val, arg, balance>>
    /\ seen' = [seen EXCEPT ![t] = 0]
    /\ UNCHANGED <<sq, mutex, exists, stop, left, g_to_awake, threadVars>>

WaitLock(t) ==
    /\ pc[t] = "w_lock"
    /\ mutex = None
    /\ val' = val - 1
    /\ \/ /\ val <= 0
          /\ mutex' = t
          /\ Goto(t, "w_sleep")
          /\ UNCHANGED <<arg, balance>>
       \/ /\ val > 0
          /\ ReturnAcquired(t)
          /\ UNCHANGED mutex
    /\ UNCHANGED <<sq, exists, stop, seen, left, g_to_awake, threadVars>>

WaitSleep(t) ==
    /\ pc[t] = "w_sleep"
    /\ Sleep(t)
    /\ sq' = Emplace(sq, t)
    /\ mutex' = None
    /\ Goto(t, "waiting")
    /\ UNCHANGED <<val, exists, stop, localVars, balance>>

\* The loop of sys_semaphore_wait finds cpu_flag::signal.
WaitSignaled(t) ==
    /\ pc[t] = "waiting"
    /\ Resume(t)
    /\ ReturnAcquired(t)
    /\ UNCHANGED <<semaVars, stop, seen, left, g_to_awake>>

\* The loop finds the thread stopped: repeat the call if still queued.
WaitStopped(t) ==
    /\ pc[t] = "waiting"
    /\ stop
    /\ mutex = None
    /\ \/ /\ InQueue(sq, t)
          /\ Goto(t, "again_w")
          /\ UNCHANGED <<arg, balance>>
       \/ /\ ~InQueue(sq, t)
          /\ Goto(t, "halted")
          /\ arg' = [arg EXCEPT ![t] = 0]
          /\ balance' = balance - 1
    /\ UNCHANGED <<semaVars, stop, seen, left, g_to_awake, threadVars>>

WaitTimeout_Mutant(t) ==
    /\ pc[t] = "waiting"
    /\ arg[t] # 0
    /\ Goto(t, "resched")
    /\ UNCHANGED <<semaVars, stop, localVars, balance, threadVars>>

\* wait_timeout() returns true, check_state() waits for rescheduling.
WaitTimeout(t) ==
    /\ pc[t] = "waiting"
    /\ arg[t] # 0
    /\ SelfAwake(t)
    /\ Goto(t, "resched")
    /\ UNCHANGED <<semaVars, stop, localVars, balance>>

WaitRescheduled(t) ==
    /\ pc[t] = "resched"
    /\ \/ /\ Resume(t)
          /\ Goto(t, "w_expired")
       \/ /\ stop                          \* check_state() returns true
          /\ Goto(t, "waiting")
          /\ Resume(t) \/ UNCHANGED threadVars
    /\ UNCHANGED <<semaVars, stop, localVars, balance>>

WaitExpired(t) ==
    /\ pc[t] = "w_expired"
    /\ mutex = None
    /\ \/ /\ InQueue(sq, t)
          /\ sq' = Unqueue(sq, t)
          /\ mutex' = t
          /\ Goto(t, "w_restore")
          /\ UNCHANGED <<arg, balance>>
       \/ /\ ~InQueue(sq, t)
          /\ ReturnAcquired(t)
          /\ UNCHANGED <<sq, mutex>>
    /\ UNCHANGED <<val, exists, stop, seen, left, g_to_awake, threadVars>>

\* val without the waiter that gave up.
Restored(v) == IF v < 0 THEN v + 1 ELSE v

\* ensure(0 > val.fetch_op(...)): give back the place in the queue; ETIMEDOUT.
WaitRestore(t) ==
    /\ pc[t] = "w_restore"
    /\ val' = Restored(val)
    /\ mutex' = None
    /\ Return(t)
    /\ UNCHANGED <<sq, exists, stop, seen, left, g_to_awake, balance, threadVars>>

-----------------------------------------------------------------------------
\* sys_semaphore_trywait (EBUSY when there is nothing to take)

TryWait(t) ==
    /\ exists
    /\ MayEnter(t)
    /\ pc[t] = "user"
    /\ val > 0
    /\ val' = val - 1
    /\ balance' = balance - 1
    /\ UNCHANGED <<sq, mutex, exists, stop, pc, localVars, threadVars>>

-----------------------------------------------------------------------------
\* sys_semaphore_post

\* The post returns CELL_OK.
ReturnPosted(t) ==
    /\ Return(t)
    /\ balance' = balance + arg[t]

Fits(n) == n <= MaxVal - val

ToAwake_Mutant(v, n) == n

\* min(-min(val, 0), count)
ToAwake(v, n) == IF Deficit(v) < n THEN Deficit(v) ELSE n

PostCall(t, n) ==
    /\ exists
    /\ MayEnter(t)
    /\ \/ pc[t] = "user"
       \/ pc[t] = "redo_p" /\ n = arg[t]
    /\ seen' = [seen EXCEPT ![t] = IF val >= 0 /\ Fits(n) THEN val ELSE 0]
    /\ arg' = [arg EXCEPT ![t] = n]
    /\ Goto(t, IF val >= 0 /\ Fits(n) THEN "p_cas" ELSE "p_lock")
    /\ UNCHANGED <<semaVars, stop, left, g_to_awake, balance, threadVars>>

PostCas(t) ==
    /\ pc[t] = "p_cas"
    /\ \/ /\ val = seen[t]
          /\ val' = val + arg[t]
          /\ ReturnPosted(t)
       \/ /\ val # seen[t]
          /\ Goto(t, "p_lock")
          /\ UNCHANGED <<val, arg, balance>>
    /\ seen' = [seen EXCEPT ![t] = 0]
    /\ UNCHANGED <<sq, mutex, exists, stop, left, g_to_awake, threadVars>>

Repeating_Mutant == FALSE

\* A queued waiter was stopped by a savestate and will repeat its call.
Repeating == \E i \in DOMAIN sq : pc[sq[i]] = "again_w"

\* Under the mutex: give way to a waiter that will repeat its call, fail with
\* EBUSY, or add count and compute to_awake.
PostLock(t) ==
    /\ pc[t] = "p_lock"
    /\ mutex = None
    /\ \/ /\ Repeating
          /\ Goto(t, "again_p")
          /\ UNCHANGED <<val, mutex, left, arg>>
       \/ /\ ~Repeating
          /\ ~Fits(arg[t])
          /\ Return(t)
          /\ UNCHANGED <<val, mutex, left>>
       \/ /\ ~Repeating
          /\ Fits(arg[t])
          /\ val' = val + arg[t]
          /\ left' = [left EXCEPT ![t] = ToAwake(val, arg[t])]
          /\ mutex' = t
          /\ Goto(t, "p_wake")
          /\ UNCHANGED arg
    /\ UNCHANGED <<sq, exists, stop, seen, g_to_awake, balance, threadVars>>

\* append(ensure(schedule(sq, protocol)))
PostSchedule(t) ==
    /\ pc[t] = "p_wake"
    /\ left[t] > 0
    /\ sq # <<>>
    /\ sq' = Unlink(sq, Schedule(sq))
    /\ g_to_awake' = [g_to_awake EXCEPT ![t] = @ \cup {sq[Schedule(sq)]}]
    /\ left' = [left EXCEPT ![t] = @ - 1]
    /\ UNCHANGED <<val, mutex, exists, stop, pc, seen, arg, balance, threadVars>>

PostAwakeAll_Mutant(t) ==
    /\ pc[t] = "p_wake"
    /\ left[t] = 0
    /\ g_to_awake' = [g_to_awake EXCEPT ![t] = {}]
    /\ mutex' = None
    /\ ReturnPosted(t)
    /\ UNCHANGED <<val, sq, exists, stop, seen, left, threadVars>>

\* awake_all() if anyone was scheduled, then unlock.
PostAwakeAll(t) ==
    /\ pc[t] = "p_wake"
    /\ left[t] = 0
    /\ Awake(g_to_awake[t])
    /\ g_to_awake' = [g_to_awake EXCEPT ![t] = {}]
    /\ mutex' = None
    /\ ReturnPosted(t)
    /\ UNCHANGED <<val, sq, exists, stop, seen, left>>

-----------------------------------------------------------------------------
\* sys_semaphore_destroy: idm::withdraw excludes the handlers in idm::get.

Destroyable_Mutant == TRUE

Destroyable == val >= 0

Destroy(t) ==
    /\ exists
    /\ MayEnter(t)
    /\ pc[t] = "user"
    /\ \A u \in Threads : pc[u] \notin InLambda
    /\ Destroyable
    /\ exists' = FALSE
    /\ UNCHANGED <<val, sq, mutex, stop, pc, localVars, balance, threadVars>>

-----------------------------------------------------------------------------
\* Savestates

Stop ==
    /\ Savestates
    /\ ~stop
    /\ FutureSleepers = {}
    /\ stop' = TRUE
    /\ UNCHANGED <<semaVars, pc, localVars, balance, threadVars>>

Halt(t) ==
    /\ stop
    /\ pc[t] = "user"
    /\ Goto(t, "halted")
    /\ UNCHANGED <<semaVars, stop, localVars, balance, threadVars>>

SavedVal(v) == IF v > 0 THEN v ELSE 0

\* lv2_sema::save writes max(val, 0); the waiters register again themselves.
Reload ==
    /\ stop
    /\ \A t \in Threads : pc[t] \in {"halted", "again_w", "again_p", "redo_w", "redo_p"}
    /\ stop' = FALSE
    /\ val' = SavedVal(val)
    /\ sq' = <<>>
    /\ pc' = [t \in Threads |-> CASE pc[t] \in {"again_w", "redo_w"} -> "redo_w"
                                  [] pc[t] \in {"again_p", "redo_p"} -> "redo_p"
                                  [] OTHER -> "user"]
    /\ st' = [t \in Threads |->
                IF pc[t] = "again_w" /\ st[t] = "sleep" THEN "sleep" ELSE "onproc"]
    /\ UNCHANGED <<mutex, exists, localVars, balance, cancel>>

-----------------------------------------------------------------------------
Wait(t) ==
    \/ \E timeout \in Timeouts : WaitCall(t, timeout)
    \/ WaitCas(t) \/ WaitLock(t) \/ WaitSleep(t)
    \/ WaitSignaled(t) \/ WaitStopped(t)
    \/ WaitTimeout(t) \/ WaitRescheduled(t) \/ WaitExpired(t) \/ WaitRestore(t)

Post(t) ==
    \/ \E n \in Counts : PostCall(t, n)
    \/ PostCas(t) \/ PostLock(t) \/ PostSchedule(t) \/ PostAwakeAll(t)

Next ==
    \/ \E t \in Threads : Wait(t) \/ TryWait(t) \/ Post(t) \/ Destroy(t) \/ Halt(t)
    \/ Stop
    \/ Reload

Spec == Init /\ [][Next]_vars

\* Every thread that is inside a call goes on; sema.mutex is granted to a
\* thread that keeps asking for it (SF on the steps that lock it).
Fairness ==
    \A t \in Threads :
        /\ WF_vars(WaitCas(t) \/ WaitSleep(t) \/ WaitSignaled(t) \/ WaitTimeout(t)
                   \/ WaitRescheduled(t) \/ WaitRestore(t))
        /\ WF_vars(PostCas(t) \/ PostSchedule(t) \/ PostAwakeAll(t))
        /\ SF_vars(WaitLock(t) \/ WaitExpired(t) \/ PostLock(t))

LiveSpec == Spec /\ Fairness

-----------------------------------------------------------------------------
\* Properties

\* The queue and the counter agree whenever no handler holds sema.mutex: val
\* counts the queued waiters below zero, although the fast paths change val
\* without the mutex (sys_semaphore_wait, sys_semaphore_post).
WaitersMatchValue == mutex = None => Len(sq) = Deficit(val)

\* The two ensure() of the file never fire: schedule() finds a waiter for
\* every thread post decided to awake, and a wait that times out while queued
\* finds val below zero.
EnsuresHold ==
    \A t \in Threads :
        /\ pc[t] = "p_wake" /\ left[t] > 0 => sq # <<>>
        /\ pc[t] = "w_restore" => val < 0

\* A thread that sleeps in sys_semaphore_wait is still in the queue, or a post
\* that holds the mutex is about to awake it: no wake-up is lost between
\* schedule() and awake_all().
NoLostWakeup ==
    \A t \in Threads :
        pc[t] \in {"waiting", "again_w"} /\ st[t] = "sleep" =>
            InQueue(sq, t) \/ (mutex # None /\ t \in g_to_awake[mutex])

\* Threads that have decremented val and whose wait has not returned.
Registered ==
    {t \in Threads : pc[t] \in {"w_sleep", "waiting", "resched", "w_expired", "w_restore", "again_w"}}

\* The count of the post that has been added to val and has not returned.
Pending == IF mutex # None /\ pc[mutex] = "p_wake" THEN arg[mutex] ELSE 0

\* Tokens are conserved across all interleavings of waits, timeouts and posts, and
\* of savestates that find no timed wait in progress (UntimedStops): val is what
\* the clients were given less what they took, plus the post that is being
\* applied, less the waits that have not returned.
TokensConserved == val = balance + Pending - Cardinality(Registered)

\* A savestate is not requested while a timed wait is in progress (the README
\* describes what can happen then).
UntimedStops ==
    stop => \A t \in Threads : t \in Registered => arg[t] = 0

\* No thread is left behind on a destroyed semaphore: sys_semaphore_destroy
\* only looks at val, and a post that still runs empties the queue.
DestroyedIsDrained == ~exists /\ mutex = None => sq = <<>>

\* The inductive strengthening of the properties above: sema.mutex is held at
\* exactly three places, and at each of them the queue and val differ by a
\* known amount; a value loaded by a fast path stays what its test saw.
QueueInv ==
    /\ \A t \in Threads : mutex = t <=> pc[t] \in {"w_sleep", "w_restore", "p_wake"}
    /\ WaitersMatchValue
    /\ \A t \in Threads :
         /\ pc[t] \in {"w_sleep", "w_restore"} => Len(sq) + 1 = Deficit(val)
         /\ pc[t] = "p_wake" => Len(sq) = Deficit(val) + left[t]
         /\ pc[t] = "w_cas" => seen[t] > 0
         /\ pc[t] = "p_cas" => seen[t] >= 0 /\ seen[t] + arg[t] <= MaxVal
    /\ ~exists => val >= 0 /\ \A t \in Threads : pc[t] \notin InLambda

\* What NoLostWakeup rests on: only the post that holds the mutex has
\* scheduled threads, and a thread that awoke itself is not asleep.
WakeupInv ==
    /\ \A t \in Threads : pc[t] # "p_wake" => g_to_awake[t] = {}
    /\ \A t \in Threads : pc[t] = "resched" => st[t] # "sleep"
    /\ NoLostWakeup

\* A waiter that post has scheduled, or whose timeout is set, returns, unless a
\* savestate stops it.
WaiterReturns ==
    \A t \in Threads :
        pc[t] = "waiting" /\ (arg[t] # 0 \/ ~InQueue(sq, t)) ~> pc[t] = "user" \/ stop

=============================================================================
