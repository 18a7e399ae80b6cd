----------------------------- MODULE Lv2Threads -----------------------------
(***************************************************************************)
(* What the lv2 primitives rely on of lv2_obj's scheduler, seen from one   *)
(* PPU thread (sys_sync.h, lv2.cpp): sleep() takes the thread out of the   *)
(* run queue, awake() puts it back, and a thread that is back in the run   *)
(* queue runs again once the scheduler has picked it and set               *)
(* cpu_flag::signal.  Lv2Sched is the detailed scheduler; it implements    *)
(* this module.                                                            *)
(*                                                                         *)
(*   st[t] = "onproc"  t is in g_ppu and executes host code                *)
(*   st[t] = "sleep"   t is not in g_ppu                                   *)
(*   st[t] = "ready"   t is back in g_ppu and has to wait until it is      *)
(*                     scheduled (cpu_flag::suspend or cpu_flag::signal)   *)
(*                                                                         *)
(* cancel[t] is ppu_thread::cancel_sleep: 1 announces a sleep() that is    *)
(* not taken under the lock of the object waited on, 2 says that awake()   *)
(* overtook it.                                                            *)
(***************************************************************************)
EXTENDS Naturals

CONSTANT Threads

VARIABLES st, cancel

threadVars == <<st, cancel>>

Status == {"onproc", "sleep", "ready"}

ThreadsTypeOK ==
    /\ st \in [Threads -> Status]
    /\ cancel \in [Threads -> 0..2]

ThreadsInit ==
    /\ st = [t \in Threads |-> "onproc"]
    /\ cancel = [t \in Threads |-> 0]

\* sleep(): a cancelled sleep still leaves the run queue; check_state() of the
\* caller brings it back ("replaced with a short yield").
Asleep(t) == [st EXCEPT ![t] = "sleep"]

Sleep(t) ==
    /\ st' = Asleep(t)
    /\ cancel' = [cancel EXCEPT ![t] = 0]

\* The value sleep() returns.
SleepIsKept(t) == cancel[t] # 2

\* awake_unlocked() over the threads S: the ones that sleep enter the run queue,
\* the others only learn that their announced sleep was overtaken.
Awake(S) ==
    /\ st' = [t \in Threads |->
                IF t \in S /\ st[t] = "sleep" THEN "ready" ELSE st[t]]
    /\ cancel' = [t \in Threads |->
                IF t \in S /\ st[t] # "sleep" /\ cancel[t] = 1 THEN 2 ELSE cancel[t]]

\* sleep(t) with threads appended to g_to_awake: t leaves, S enters.
SleepAndAwake(t, S) ==
    /\ st' = [u \in Threads |->
                IF u = t THEN "sleep"
                ELSE IF u \in S /\ st[u] = "sleep" THEN "ready" ELSE st[u]]
    /\ cancel' = [u \in Threads |->
                IF u = t THEN 0
                ELSE IF u \in S /\ st[u] # "sleep" /\ cancel[u] = 1 THEN 2 ELSE cancel[u]]

\* check_state() of a sleeping thread: cpu_sleep() awakes the thread itself.
SelfAwake(t) ==
    /\ st' = [st EXCEPT ![t] = IF @ = "sleep" THEN "ready" ELSE @]
    /\ UNCHANGED cancel

\* The scheduler picks t and t consumes cpu_flag::signal.
Resume(t) ==
    /\ st[t] = "ready"
    /\ st' = [st EXCEPT ![t] = "onproc"]
    /\ UNCHANGED cancel


\* A thread announces that it will sleep (cancel_sleep = 1).
Announce(t) ==
    /\ cancel' = [cancel EXCEPT ![t] = 1]
    /\ UNCHANGED st

-----------------------------------------------------------------------------
\* All the scheduler promises, for a set of threads of which some run.

SchedInit ==
    /\ st \in [Threads -> {"onproc", "sleep"}]
    /\ cancel = [t \in Threads |-> 0]

SchedNext ==
    \/ \E t \in Threads :
          \/ st[t] = "onproc" /\ (Sleep(t) \/ \E u \in Threads \ {t} : SleepAndAwake(t, {u}))
          \/ st[t] = "onproc" /\ cancel[t] = 0 /\ Announce(t)
          \/ SelfAwake(t)
          \/ Resume(t)
    \/ \E S \in SUBSET Threads : Awake(S)

SchedSpec == SchedInit /\ [][SchedNext]_threadVars

=============================================================================
