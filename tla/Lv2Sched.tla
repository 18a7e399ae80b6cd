------------------------------ MODULE Lv2Sched ------------------------------
(***************************************************************************)
(* The PPU scheduler of lv2_obj (lv2.cpp, sys_sync.h), the part of         *)
(* cpu_thread::check_state() that drives it, and the life of a PPU thread  *)
(* (sys_ppu_thread.cpp) as the scheduler sees it.                          *)
(*                                                                         *)
(* g_ppu is the run queue, a list linked through next_ppu, kept here as a  *)
(* sequence; its first Hw threads own a hardware thread.  A thread is made *)
(* to stop by setting cpu_flag::suspend in its state and is let go by      *)
(* replacing suspend with cpu_flag::signal.  A thread that was running     *)
(* when it was suspended has to acknowledge (ack_suspend) before anybody   *)
(* takes its place: g_pending counts the missing acknowledgements.         *)
(*                                                                         *)
(* The calls of lv2_obj run under g_mutex and are atomic.  The host        *)
(* notifications they decide on are sent later, by notify_all(), and the   *)
(* threads notice their flags later still.                                 *)
(*                                                                         *)
(* A flag of cpu_thread::state is the set of the threads that have it.     *)
(* Deadlines are abstracted: any set of the registered timeouts may have   *)
(* passed at any schedule_all().  The objects threads wait for are         *)
(* abstracted to the set of the threads queued in one of them.             *)
(***************************************************************************)
EXTENDS Integers, Sequences, FiniteSets, SequencesExt, FiniteSetsExt

CONSTANTS Threads,   \* PPU threads
          Host,      \* a thread of the emulator that is not a PPU thread
          Hw,        \* g_cfg.core.ppu_threads
          Slots,     \* the size of g_to_notify
          Prios,     \* priorities; the smaller one runs first
          InitPrio,  \* the priority every thread is created with
          Features   \* what the threads do besides sleeping and waking

ASSUME SchedAssumption ==
    /\ IsFiniteSet(Threads)
    /\ Host \notin Threads
    /\ Hw \in Nat \ {0}
    /\ Slots \in Nat \ {0}
    /\ Prios \subseteq Int
    /\ InitPrio \in [Threads -> Prios]
    /\ Features \subseteq {"timeout", "announce", "priority", "savestate"}

Actors == Threads \cup {Host}

VARIABLES g_ppu, g_pending, ack_suspend,   \* the run queue and its acknowledgements
          g_waiting,                       \* threads with a registered timeout
          g_to_sleep, g_scheduler_ready,   \* boot, or the load of a savestate
          finalized,                       \* make_scheduler_ready() has returned
          g_to_notify,                     \* threads each actor has still to notify
          suspend, signal, notify, wait,   \* cpu_flag of each thread
          prio, cancel_sleep,              \* ppu_thread
          parked,                          \* threads blocked on their own state
          registered,                      \* threads queued in an lv2 object
          timed,                           \* threads whose wait has a timeout
          pc,                              \* where each thread is
          cpu_sleep_called                 \* the local variable of check_state()

queueVars == <<g_ppu, g_pending, ack_suspend, g_waiting, g_to_notify>>
bootVars == <<g_to_sleep, g_scheduler_ready, finalized>>
flagVars == <<suspend, signal, notify, wait>>
threadVars == <<prio, cancel_sleep, registered, timed, pc, cpu_sleep_called>>
vars == <<queueVars, bootVars, flagVars, threadVars, parked>>

\* Places inside check_state().
Checking == {"starting", "check", "expired", "cancelled"}

Places == Checking \cup
    {"idle", "future", "guest", "announced", "waiting", "lapsed", "exiting", "exited"}

TypeOK ==
    /\ g_ppu \in Seq(Threads)
    /\ g_pending \in Nat
    /\ g_scheduler_ready \in BOOLEAN
    /\ finalized \in BOOLEAN
    /\ \A S \in {ack_suspend, g_waiting, g_to_sleep, suspend, signal, notify, wait,
                 parked, registered, timed} : S \subseteq Threads
    /\ g_to_notify \in [Actors -> SUBSET Threads]
    /\ prio \in [Threads -> Prios]
    /\ cancel_sleep \in [Threads -> 0..2]
    /\ pc \in [Threads -> Places]
    /\ cpu_sleep_called \in [Threads -> {"no", "now", "yes"}]

\* A boot, or the load of a savestate: a thread was never started, was running
\* ("starting") or was asleep and executes its system call again ("future").
\* The constructor of ppu_thread sets suspend ("Trigger the scheduler").
Init ==
    /\ pc \in [Threads -> {"idle", "starting", "future"}]
    /\ \E t \in Threads : pc[t] # "idle"
    /\ "savestate" \notin Features => \A t \in Threads : pc[t] # "future"
    /\ g_ppu = <<>>
    /\ g_pending = 0
    /\ ack_suspend = {}
    /\ g_waiting = {}
    /\ g_to_sleep = {t \in Threads : pc[t] = "future"}
    /\ g_scheduler_ready = FALSE
    /\ finalized = FALSE
    /\ g_to_notify = [a \in Actors |-> {}]
    /\ suspend = Threads
    /\ signal = {}
    /\ notify = {}
    /\ wait = {}
    /\ prio = InitPrio
    /\ cancel_sleep = [t \in Threads |-> 0]
    /\ parked = {}
    /\ registered = {}
    /\ timed = {}
    /\ cpu_sleep_called = [t \in Threads |-> "no"]

-----------------------------------------------------------------------------
\* The run queue

Queued(t) == \E i \in DOMAIN g_ppu : g_ppu[i] = t

Onproc(q) == {q[i] : i \in 1 .. Min({Hw, Len(q)})}

Runnable(q) == {q[i] : i \in (Hw + 1) .. Len(q)}

Unqueued(q, t) == SelectSeq(q, LAMBDA u : u # t)

\* u stays ahead of t: "Use priority, also preserve FIFO order".
MayPrecede(pri, u, t) == pri[u] <= pri[t]

\* emplace_thread(): behind the last thread in front that may precede t.
Emplaced(q, pri, t) ==
    IF t \in Range(q) THEN q
    ELSE LET ahead == Max({0} \cup {n \in 1 .. Len(q) :
                                       \A i \in 1 .. n : MayPrecede(pri, q[i], t)})
         IN InsertAt(q, ahead + 1, t)

\* The yield command: t goes behind the last thread of its priority.
Rotated(q, t) ==
    LET group == {i \in DOMAIN q : prio[q[i]] = prio[t]}
    IN InsertAt(Unqueued(q, t), Max(group), t)

-----------------------------------------------------------------------------
\* schedule_all(): what follows every change of the queue

MayWake_Mutant(pending) == g_scheduler_ready

\* Threads are let go only when every acknowledgement is in.
MayWake(pending) == pending = 0 /\ g_scheduler_ready

\* g_pending once the threads in owing are the ones with ack_suspend.
Pending(owing) ==
    g_pending + Cardinality(owing \ ack_suspend) - Cardinality(ack_suspend \ owing)

\* The notifications that fit into g_to_notify.
Slotted(need) == kSubset(Min({Cardinality(need), Slots}), need)

NotifyNow_Mutant(S) == parked

\* "Out of notification slots, notify locally"
NotifyNow(S) == parked \ S

\* Called by a with the new queue, suspended threads, owed acknowledgements and
\* registered timeouts: "Wake up threads", then "Check registered timeouts".
ScheduleAll(a, q, susp, owing, timers) ==
    LET woken == IF MayWake(Pending(owing)) THEN Onproc(q) \cap susp ELSE {}
    IN /\ g_ppu' = q
       /\ ack_suspend' = owing
       /\ g_pending' = Pending(owing)
       /\ suspend' = susp \ woken
       /\ signal' = signal \cup woken
       /\ \E passed \in SUBSET timers :
             LET need == {t \in woken : t \in wait \cup {a} /\ t \notin signal}
                            \cup (passed \ {a})
             IN /\ g_waiting' = timers \ passed
                /\ notify' = notify \cup (passed \ {a})
                /\ \E later \in Slotted(need) :
                      /\ g_to_notify' = [g_to_notify EXCEPT ![a] = later]
                      /\ parked' = NotifyNow(need \ later)

\* The end of awake_unlocked(): "Suspend threads if necessary", "Remove pending
\* if necessary"; then schedule_all().
Reschedule(a, q, susp, timers) ==
    LET more == Runnable(q) \ susp
    IN ScheduleAll(a, q, susp \cup more, (ack_suspend \cup more) \ {a}, timers)

\* "The next sleep call of the thread is cancelled"
Overtaken(S, q) ==
    [t \in Threads |-> IF t \in S \cap Range(q) /\ cancel_sleep[t] = 1 THEN 2
                       ELSE cancel_sleep[t]]

Unregistered_Mutant(timers, S) == timers

\* "Unregister timeout if necessary"
Unregistered(timers, S) == timers \ S

\* awake() over the threads of s, in the order of g_to_awake.
AwakeAll(a, q, susp, timers, s) ==
    Reschedule(a, FoldLeft(LAMBDA acc, t : Emplaced(acc, prio, t), q, s), susp,
               Unregistered(timers, Range(s) \ Range(q)))

-----------------------------------------------------------------------------
\* System calls of a running thread

\* Whether a wait has a timeout.
HasTimeout == IF "timeout" \in Features THEN BOOLEAN ELSE {FALSE}

Idle(a) == g_to_notify[a] = {}

InGuest(t) == pc[t] = "guest" /\ Idle(t)

Goto(t, to) ==
    /\ pc' = [pc EXCEPT ![t] = to]
    /\ cpu_sleep_called' = [cpu_sleep_called EXCEPT ![t] = "no"]

\* The ways to wake queued threads: g_to_awake.
ToAwake(n) == UNION {SetToSeqs(S) : S \in {X \in SUBSET registered : Cardinality(X) <= n}}

SleepAck_Mutant(t) == ack_suspend

\* sleep_unlocked() acknowledges a suspension.
SleepAck(t) == ack_suspend \ {t}

SleepCancel_Mutant(t, S, q) == Overtaken(S, q)

\* sleep_unlocked() forgets the announcement.
SleepCancel(t, S, q) == [Overtaken(S, q) EXCEPT ![t] = 0]

\* sleep_unlocked(t), then awake_unlocked() if g_to_awake is not empty, then
\* schedule_all().
SleepCall(t, hasTimeout, s) ==
    LET q == Unqueued(g_ppu, t)
        timers == IF hasTimeout THEN g_waiting \cup {t} ELSE g_waiting
    IN /\ IF s = <<>>
          THEN ScheduleAll(t, q, suspend \cup {t}, SleepAck(t), timers)
          ELSE AwakeAll(t, q, suspend \cup {t}, timers, s)
       /\ cancel_sleep' = SleepCancel(t, Range(s), q)

\* A system call that queues t and sleeps under the lock of the object; it may
\* hand the object over in the same call (sys_cond_wait unlocks its mutex).
Sleep(t, hasTimeout) ==
    /\ InGuest(t)
    /\ \E s \in ToAwake(1) :
          /\ SleepCall(t, hasTimeout, s)
          /\ registered' = (registered \cup {t}) \ Range(s)
    /\ wait' = wait \cup {t}
    /\ timed' = IF hasTimeout THEN timed \cup {t} ELSE timed \ {t}
    /\ Goto(t, "waiting")
    /\ UNCHANGED <<bootVars, prio>>

\* sys_mutex_lock queues t before it sleeps and without the lock of the object.
Announce(t) ==
    /\ "announce" \in Features
    /\ InGuest(t)
    /\ cancel_sleep' = [cancel_sleep EXCEPT ![t] = 1]
    /\ registered' = registered \cup {t}
    /\ wait' = wait \cup {t}
    /\ Goto(t, "announced")
    /\ UNCHANGED <<queueVars, bootVars, suspend, signal, notify, parked, prio, timed>>

SleepAnnounced(t, hasTimeout) ==
    /\ pc[t] = "announced"
    /\ Idle(t)
    /\ SleepCall(t, hasTimeout, <<>>)
    /\ Goto(t, IF cancel_sleep[t] = 2 THEN "cancelled" ELSE "waiting")
    /\ timed' = IF hasTimeout THEN timed \cup {t} ELSE timed \ {t}
    /\ UNCHANGED <<bootVars, wait, prio, registered>>

\* A system call that takes waiters out of an object and wakes them.
Wake(t) ==
    /\ InGuest(t)
    /\ \E s \in ToAwake(2) \ {<<>>} :
          /\ AwakeAll(t, g_ppu, suspend, g_waiting, s)
          /\ cancel_sleep' = Overtaken(Range(s), g_ppu)
          /\ registered' = registered \ Range(s)
    /\ wait' = wait \cup {t}
    /\ Goto(t, "check")
    /\ UNCHANGED <<bootVars, prio, timed>>

\* The same from a thread of the emulator (a timer, an SPU, the RSX).
HostWake ==
    /\ Idle(Host)
    /\ \E s \in ToAwake(2) \ {<<>>} :
          /\ AwakeAll(Host, g_ppu, suspend, g_waiting, s)
          /\ cancel_sleep' = Overtaken(Range(s), g_ppu)
          /\ registered' = registered \ Range(s)
    /\ UNCHANGED <<bootVars, wait, prio, timed, pc, cpu_sleep_called>>

\* sys_ppu_thread_yield
Yield(t) ==
    /\ InGuest(t)
    /\ Last(g_ppu) # t                        \* next_ppu, or nothing to do
    /\ LET q == Rotated(g_ppu, t)
       IN IF q = g_ppu \/ t \in Onproc(q)      \* no context switch
          THEN ScheduleAll(t, q, suspend, ack_suspend, g_waiting)
          ELSE Reschedule(t, q, suspend, g_waiting)
    /\ wait' = wait \cup {t}
    /\ Goto(t, "check")
    /\ UNCHANGED <<bootVars, prio, cancel_sleep, registered, timed>>

Requeued_Mutant(pri, t) == g_ppu

\* A new priority takes t out of the queue and puts it back in.
Requeued(pri, t) == Emplaced(Unqueued(g_ppu, t), pri, t)

\* sys_ppu_thread_set_priority; for the caller only when it is a change.
SetPriority(u, t, p) ==
    /\ "priority" \in Features
    /\ InGuest(u)
    /\ pc[t] \notin {"exiting", "exited"}
    /\ u = t => prio[t] # p
    /\ prio' = [prio EXCEPT ![t] = p]
    /\ IF Queued(t)
       THEN Reschedule(u, Requeued([prio EXCEPT ![t] = p], t), suspend, g_waiting \ {t})
       ELSE ScheduleAll(u, g_ppu, suspend, ack_suspend, g_waiting)
    /\ wait' = wait \cup {u}
    /\ Goto(u, "check")
    /\ UNCHANGED <<bootVars, cancel_sleep, registered, timed>>

\* sys_ppu_thread_start
Start(u, t) ==
    /\ InGuest(u)
    /\ pc[t] = "idle"
    /\ AwakeAll(u, g_ppu, suspend, g_waiting, <<t>>)
    /\ cancel_sleep' = Overtaken({t}, g_ppu)
    /\ wait' = wait \cup {u}
    /\ pc' = [pc EXCEPT ![u] = "check", ![t] = "starting"]
    /\ cpu_sleep_called' = [cpu_sleep_called EXCEPT ![u] = "no", ![t] = "no"]
    /\ UNCHANGED <<bootVars, prio, registered, timed>>

\* _sys_ppu_thread_exit: leave the queue and wake the joiner, if any.
Exit(t) ==
    /\ InGuest(t)
    /\ \E s \in ToAwake(1) :
          /\ SleepCall(t, FALSE, s)
          /\ registered' = registered \ Range(s)
    /\ wait' = wait \cup {t}
    /\ Goto(t, "exiting")
    /\ UNCHANGED <<bootVars, prio, timed>>

\* "Remove suspend state (TODO)"
Exited(t) ==
    /\ pc[t] = "exiting"
    /\ Idle(t)
    /\ suspend' = suspend \ {t}
    /\ Goto(t, "exited")
    /\ UNCHANGED <<queueVars, bootVars, signal, notify, wait, parked,
                   prio, cancel_sleep, registered, timed>>

\* notify_all(): the host notifications an actor has postponed.
NotifyAll(a) ==
    /\ ~Idle(a)
    /\ parked' = parked \ g_to_notify[a]
    /\ g_to_notify' = [g_to_notify EXCEPT ![a] = {}]
    /\ UNCHANGED <<g_ppu, g_pending, ack_suspend, g_waiting, bootVars, flagVars, threadVars>>

-----------------------------------------------------------------------------
\* cpu_thread::check_state()

\* Guest code polls the state of its thread.
Poll(t) ==
    /\ InGuest(t)
    /\ t \in suspend \cup signal \cup notify
    /\ Goto(t, "check")
    /\ UNCHANGED <<queueVars, bootVars, flagVars, parked, prio, cancel_sleep, registered, timed>>

InCheck(t) == pc[t] \in Checking /\ Idle(t) /\ t \notin parked /\ cpu_sleep_called[t] # "now"

AfterCheck(place) == IF place = "expired" THEN "lapsed" ELSE "guest"

\* Nothing holds the thread: clear the flags and escape.
CheckEscape(t) ==
    /\ InCheck(t)
    /\ t \notin suspend
    /\ signal' = signal \ {t}
    /\ notify' = notify \ {t}
    /\ wait' = wait \ {t}
    /\ Goto(t, AfterCheck(pc[t]))
    /\ UNCHANGED <<queueVars, bootVars, suspend, parked, prio, cancel_sleep, registered, timed>>

\* cpu_sleep() is due: not called yet, or signaled since it was called.
SleepAgain(t) == cpu_sleep_called[t] = "no" \/ t \in signal

\* check_state() sets cpu_flag::wait before it blocks.
CheckWait(t) == wait \cup {t}

CheckSuspended(t) ==
    /\ InCheck(t)
    /\ t \in suspend
    /\ SleepAgain(t) \/ t \in signal \cup notify
    /\ signal' = signal \ {t}
    /\ notify' = notify \ {t}
    /\ wait' = CheckWait(t)
    /\ cpu_sleep_called' = [cpu_sleep_called EXCEPT ![t] = IF SleepAgain(t) THEN "now" ELSE @]
    /\ UNCHANGED <<queueVars, bootVars, suspend, parked, prio, cancel_sleep, registered, timed, pc>>

\* ppu_thread::cpu_sleep(): awake(this)
CpuSleep(t) ==
    /\ cpu_sleep_called[t] = "now"
    /\ AwakeAll(t, g_ppu, suspend, g_waiting, <<t>>)
    /\ cancel_sleep' = Overtaken({t}, g_ppu)
    /\ cpu_sleep_called' = [cpu_sleep_called EXCEPT ![t] = "yes"]
    /\ UNCHANGED <<bootVars, wait, prio, registered, timed, pc>>

\* cpu_wait(): block while the state is what check_state() has seen.
CheckPark(t) ==
    /\ InCheck(t)
    /\ t \in suspend
    /\ cpu_sleep_called[t] = "yes"
    /\ t \notin signal \cup notify
    /\ parked' = parked \cup {t}
    /\ UNCHANGED <<queueVars, bootVars, flagVars, threadVars>>

-----------------------------------------------------------------------------
\* The wait loops of the system calls

InWait(t) == pc[t] = "waiting" /\ Idle(t)

WaitSignaled(t) ==
    /\ InWait(t)
    /\ t \notin parked
    /\ t \in signal
    /\ signal' = signal \ {t}
    /\ Goto(t, "check")
    /\ UNCHANGED <<queueVars, bootVars, suspend, notify, wait, parked,
                   prio, cancel_sleep, registered, timed>>

\* wait_timeout() returns true: the scheduler says so, or the host's clock.
WaitTimeout(t) ==
    /\ InWait(t)
    /\ t \in timed
    /\ t \in notify \/ t \notin signal
    /\ parked' = parked \ {t}
    /\ Goto(t, "expired")
    /\ UNCHANGED <<queueVars, bootVars, flagVars, prio, cancel_sleep, registered, timed>>

WaitPark(t) ==
    /\ InWait(t)
    /\ t \notin parked \cup signal \cup notify
    /\ parked' = parked \cup {t}
    /\ UNCHANGED <<queueVars, bootVars, flagVars, threadVars>>

\* Under the lock of the object: the wait is cancelled, or was over already.
Lapse(t) ==
    /\ pc[t] = "lapsed"
    /\ registered' = registered \ {t}
    /\ wait' = wait \cup {t}
    /\ Goto(t, "check")
    /\ UNCHANGED <<queueVars, bootVars, suspend, signal, notify, parked,
                   prio, cancel_sleep, timed>>

\* "ppu.state += cpu_flag::wait" after check_state()
LapseWait(t) == wait \cup {t}

\* sys_cond_wait moves to the queue of the mutex and sleeps again, untimed.
SleepAfterLapse(t) ==
    /\ pc[t] = "lapsed"
    /\ t \in registered
    /\ SleepCall(t, FALSE, <<>>)
    /\ wait' = LapseWait(t)
    /\ timed' = timed \ {t}
    /\ Goto(t, "waiting")
    /\ UNCHANGED <<bootVars, prio, registered>>

-----------------------------------------------------------------------------
\* Boot and savestates

\* A thread that was asleep repeats its system call; its timeout is not
\* registered again.
FutureSleep(t, hasTimeout) ==
    /\ pc[t] = "future"
    /\ ScheduleAll(t, g_ppu, suspend \cup {t}, SleepAck(t), g_waiting)
    /\ g_to_sleep' = g_to_sleep \ {t}
    /\ registered' = registered \cup {t}
    /\ wait' = wait \cup {t}
    /\ timed' = IF hasTimeout THEN timed \cup {t} ELSE timed \ {t}
    /\ Goto(t, "waiting")
    /\ UNCHANGED <<g_scheduler_ready, finalized, prio, cancel_sleep>>

\* make_scheduler_ready(), once every future sleeper sleeps.
SchedulerReady ==
    /\ ~g_scheduler_ready
    /\ g_to_sleep = {}
    /\ g_scheduler_ready' = TRUE
    /\ UNCHANGED <<queueVars, g_to_sleep, finalized, flagVars, threadVars, parked>>

AwakeReady ==
    /\ g_scheduler_ready
    /\ ~finalized
    /\ Idle(Host)
    /\ AwakeAll(Host, g_ppu, suspend, g_waiting, <<>>)
    /\ finalized' = TRUE
    /\ UNCHANGED <<g_to_sleep, g_scheduler_ready, wait, threadVars>>

-----------------------------------------------------------------------------
Syscall(t) ==
    \/ \E b \in HasTimeout : Sleep(t, b) \/ SleepAnnounced(t, b)
    \/ Announce(t) \/ Wake(t) \/ Yield(t) \/ Exit(t) \/ Exited(t)
    \/ \E u \in Threads : Start(t, u)
    \/ \E u \in Threads, p \in Prios : SetPriority(t, u, p)

CheckState(t) ==
    Poll(t) \/ CheckEscape(t) \/ CheckSuspended(t) \/ CpuSleep(t) \/ CheckPark(t)

WaitLoop(t) ==
    WaitSignaled(t) \/ WaitTimeout(t) \/ WaitPark(t) \/ Lapse(t) \/ SleepAfterLapse(t)

Boot ==
    \/ \E t \in Threads, b \in HasTimeout : FutureSleep(t, b)
    \/ SchedulerReady
    \/ AwakeReady

Next ==
    \/ \E t \in Threads : Syscall(t) \/ CheckState(t) \/ WaitLoop(t)
    \/ \E a \in Actors : NotifyAll(a)
    \/ HostWake
    \/ Boot

Spec == Init /\ [][Next]_vars

\* What a host thread does without waiting for anybody: it sends its notifications,
\* polls its state in guest code, and goes on inside check_state() and its calls.
Proceed(t) ==
    \/ NotifyAll(t) \/ Poll(t) \/ CheckEscape(t) \/ CheckSuspended(t) \/ CpuSleep(t)
    \/ WaitSignaled(t) \/ Lapse(t) \/ SleepAfterLapse(t) \/ Exited(t)
    \/ \E b \in HasTimeout : SleepAnnounced(t, b) \/ FutureSleep(t, b)

\* The host schedules every thread of the emulator.
Fairness ==
    /\ \A t \in Threads : WF_vars(Proceed(t))
    /\ WF_vars(NotifyAll(Host) \/ SchedulerReady \/ AwakeReady)

LiveSpec == Spec /\ Fairness

-----------------------------------------------------------------------------
\* Properties

\* Guest code runs on no more than g_cfg.core.ppu_threads threads at a time: a
\* preempted thread leaves its hardware thread before another one is let go.
OneGuestPerHwThread == Cardinality({t \in Threads : pc[t] = "guest"}) <= Hw

\* g_pending is the number of threads with ack_suspend, and each of them is on
\* its way to acknowledge: it is in the run queue, suspended, and if it blocks on
\* its state it has a signal that takes it out of there.
AcknowledgementsComing ==
    /\ g_pending = Cardinality(ack_suspend)
    /\ \A t \in ack_suspend :
          /\ Queued(t)
          /\ t \in suspend
          /\ t \in parked => t \in signal
          /\ cpu_sleep_called[t] = "yes" => t \in signal

\* The run queue holds every thread once, by priority, and whenever every
\* suspension is acknowledged exactly its first Hw threads may run:
\* schedule_all() leaves no hardware thread idle and none to a lesser thread.  The
\* acknowledgements it waits for will come (AcknowledgementsComing).
ProcessorsMatchQueue ==
    /\ AcknowledgementsComing
    /\ \A i, j \in DOMAIN g_ppu :
          i < j => g_ppu[i] # g_ppu[j] /\ prio[g_ppu[i]] <= prio[g_ppu[j]]
    /\ Runnable(g_ppu) \subseteq suspend
    /\ g_pending = 0 /\ finalized => Onproc(g_ppu) \cap suspend = {}

\* The ensure()s and fatal errors of lv2.cpp and sys_ppu_thread.cpp: a thread about
\* to sleep is in the run queue and has neither signal nor a forced timeout, a
\* timeout is registered only for a thread that sleeps and forced only once, and a
\* thread that is started was not in the run queue before.
SchedulerEnsures ==
    /\ \A t \in Threads : pc[t] \in {"guest", "announced", "lapsed"} /\ Idle(t) => t \notin signal
    /\ \A t \in Threads : pc[t] \in {"guest", "announced"} => t \notin notify
    /\ \A t \in Threads : pc[t] \in {"guest", "announced", "lapsed"} => Queued(t)
    /\ g_waiting \cap notify = {}
    /\ \A t \in g_waiting : ~Queued(t)
    /\ \A t \in Threads : pc[t] = "idle" => ~Queued(t)

\* A thread that sleeps in a wait loop is queued in the object it waits for, so
\* that somebody can wake it: a wake-up that comes before the announced sleep of
\* sys_mutex_lock turns that sleep into a yield.
SleepersAreQueued ==
    \A t \in Threads : pc[t] = "waiting" /\ ~Queued(t) => t \in registered

\* A thread blocked on its state that was let go, or whose timeout was forced, is
\* in some g_to_notify: schedule_all() may skip a notification only if the thread
\* will look at its state anyway.  And who sleeps can be woken (SleepersAreQueued).
NoLostNotification ==
    /\ SleepersAreQueued
    /\ parked \cap (signal \cup notify) \subseteq UNION {g_to_notify[a] : a \in Actors}

\* A thread that is awoken runs unless it is displaced by others.
OnprocRuns ==
    \A t \in Threads :
        t \in Onproc(g_ppu) /\ t \in suspend ~> t \notin suspend \/ t \notin Onproc(g_ppu)

-----------------------------------------------------------------------------
\* What the primitives see of a thread (Lv2Threads): it is out of the run queue,
\* it is back in it and waits to be let go, or it executes host code.  A thread
\* preempted while it runs is not asleep for them.
Seen(t) ==
    IF ~Queued(t) THEN "sleep"
    ELSE IF pc[t] \in {"starting", "waiting", "expired", "cancelled"} THEN "ready"
    ELSE "onproc"

Abstract == INSTANCE Lv2Threads WITH st <- [t \in Threads |-> Seen(t)],
                                     cancel <- cancel_sleep

\* The scheduler implements the interface the primitives are modelled with.
ImplementsThreads == Abstract!SchedSpec

=============================================================================
