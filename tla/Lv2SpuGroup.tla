---------------------------- MODULE Lv2SpuGroup ----------------------------
(***************************************************************************)
(* SPU thread groups: the system calls of PPU threads on a group           *)
(* (lv2/sys_spu.cpp), the life of an SPU host thread (cpu_thread::         *)
(* operator(), check_state, spu_thread::cpu_return) and the system calls   *)
(* an SPU makes with the STOP instruction (stop_and_signal), with one      *)
(* event queue the SPUs of the group receive from.                         *)
(*                                                                         *)
(* group->mutex is the variable mutex: a critical section that waits       *)
(* inside is split and holds it, any other is one step taken while it is   *)
(* free.  Flags of an SPU are changed by several threads; of a section     *)
(* that flags every thread of the group only the whole is modelled, as a   *)
(* thread flagged later behaves as if it had acted before.                 *)
(* cpu_flag::wait is a function of the place of the thread (HasWait).      *)
(***************************************************************************)
EXTENDS Integers, FiniteSets

CONSTANTS Num,        \* group->max_num
          Ppus,       \* the PPU threads that terminate, join and destroy
          None,
          QueueSize,  \* size of the event queue
          Umax,       \* the greatest value of stop_count
          Restart,    \* where stop_count goes on after Umax
          Stops,      \* stop_count at the beginning
          MaxRuns     \* bound: how often the group is started

ASSUME SpuGroupAssumption ==
    /\ Num \in Nat \ {0} /\ QueueSize \in Nat \ {0}
    /\ IsFiniteSet(Ppus) /\ Ppus \cap (1..Num) = {} /\ None \notin Ppus \cup (1..Num)
    /\ None \notin {"ALL_THREADS_EXIT", "GROUP_EXIT", "TERMINATED"}
    /\ Umax \in Nat /\ Restart \in 1..Umax - 1 /\ Stops \in 0..Umax
    /\ MaxRuns \in Nat

Spus == 1..Num

VARIABLES run_state, init, running, join_state, exit_status, set_terminate,
          stop_count, waiter, mutex,
          state,      \* flags of the SPU threads
          exited,     \* status_npc says the SPU called sys_spu_thread_exit
          published,  \* exit_status of the SPU holds its last_exit_status
          events,     \* number of events in the queue
          sq,         \* SPU threads that wait in the queue
          pc,         \* where the SPU and PPU threads are
          at,         \* thread the holder of the mutex is notifying
          last_stop,  \* the local last_stop of a terminating PPU thread
          freed,      \* sys_spu_thread_group_destroy got past lock_unlock
          runs,       \* how often the group was started
          decider,    \* history: who set set_terminate in this run
          over        \* history: the run a PPU thread is terminating is over

groupVars == <<run_state, init, running, join_state, exit_status,
               set_terminate, stop_count, waiter, freed, runs, decider>>
spuVars == <<state, exited, published>>
queueVars == <<events, sq>>
ppuVars == <<at, last_stop, over>>
vars == <<groupVars, spuVars, queueVars, ppuVars, mutex, pc>>

Initialized == {"NOT_INITIALIZED", "INITIALIZED"}
Waiting == {"WAITING", "SUSPENDED", "WAITING_AND_SUSPENDED"}

Init ==
    /\ run_state = "NOT_INITIALIZED" /\ init = 0 /\ running = 0
    /\ join_state = None /\ exit_status = None /\ set_terminate = FALSE
    /\ stop_count = Stops /\ waiter = None /\ mutex = None
    /\ state = [s \in Spus |-> {"stop"}]
    /\ exited = [s \in Spus |-> FALSE] /\ published = [s \in Spus |-> FALSE]
    /\ events = 0 /\ sq = {}
    /\ pc = [t \in Spus \cup Ppus |-> IF t \in Spus THEN "off" ELSE "idle"]
    /\ at = 0 /\ last_stop = [p \in Ppus |-> Stops]
    /\ freed = FALSE /\ runs = 0 /\ decider = None
    /\ over = [p \in Ppus |-> FALSE]

Goto(t, l) == pc' = [pc EXCEPT ![t] = l]

Stopped(s) == state[s] \cap {"stop", "again"} # {}
Paused(s) == "suspend" \in state[s] /\ ~Stopped(s)

\* cpu_flag::wait is set everywhere but in guest code and between the escape
\* from check_state and the end of cpu_task.
HasWait(s) == pc[s] \notin {"run", "leave"}

\* Mutant: ret is raised again.
StopAll_Mutant == state' = [s \in Spus |-> state[s] \cup {"stop", "ret"}]

\* "In case the thread raised the ret flag itself at some point do not raise
\* it again"
StopAll == state' = [s \in Spus |-> IF "stop" \in state[s] THEN state[s]
                                    ELSE state[s] \cup {"stop", "ret"}]

wait_term_count == Cardinality({p \in Ppus : pc[p] = "stopping"})

----------------------------------------------------------------------------
\* The host thread of an SPU.

\* cpu_thread::operator(): the flag stop is gone, cpu_task begins.
CpuTask(s) ==
    /\ pc[s] = "off" /\ "stop" \notin state[s]
    /\ Goto(s, "enter")
    /\ UNCHANGED <<groupVars, spuVars, queueVars, ppuVars, mutex>>

\* cpu_thread::check_state, as the loop of cpu_task calls it: leave cpu_task,
\* wait while suspended, or go on with guest code.
CheckState(s) ==
    /\ pc[s] \in {"enter", "run"}
    /\ \/ Stopped(s) /\ Goto(s, "leave")
       \/ Paused(s) /\ pc[s] = "run" /\ Goto(s, "enter")
       \/ ~Stopped(s) /\ ~Paused(s) /\ pc[s] = "enter" /\ Goto(s, "run")
    /\ UNCHANGED <<groupVars, spuVars, queueVars, ppuVars, mutex>>

\* operator() sees ret, after cpu_task or while it was waiting, and calls
\* cpu_return.
SeeRet(s) ==
    /\ pc[s] \in {"leave", "off"} /\ "ret" \in state[s]
    /\ state' = [state EXCEPT ![s] = @ \ {"ret"}]
    /\ Goto(s, "dec")
    /\ UNCHANGED <<groupVars, exited, published, queueVars, ppuVars, mutex>>

\* Back in operator(): the host thread ends when it has the flag again.
Returned(s) == Goto(s, IF "again" \in state[s] THEN "dead" ELSE "off")

\* cpu_return: the last thread to decrement running ends the run.
Decrement(s) ==
    /\ pc[s] = "dec"
    /\ running' = running - 1
    /\ \/ running = 1 /\ Goto(s, "last")
       \/ running # 1 /\ exited[s] /\ Goto(s, "publish")
       \/ running # 1 /\ ~exited[s] /\ Returned(s)
    /\ UNCHANGED <<run_state, init, join_state, exit_status, set_terminate,
                   stop_count, waiter, freed, runs, decider,
                   spuVars, queueVars, ppuVars, mutex>>

\* cpu_return, a thread that is not the last: exit_status.set_value
Publish(s) ==
    /\ pc[s] = "publish"
    /\ published' = [published EXCEPT ![s] = TRUE]
    /\ Returned(s)
    /\ UNCHANGED <<groupVars, state, exited, queueVars, ppuVars, mutex>>

\* Mutant: the cause is overwritten.
EndRun_Mutant(s) ==
    /\ pc[s] = "last" /\ mutex = None
    /\ mutex' = s
    /\ run_state' = "INITIALIZED"
    /\ join_state' = "ALL_THREADS_EXIT"
    /\ Goto(s, "statuses")
    /\ UNCHANGED <<init, running, exit_status, set_terminate, stop_count,
                   waiter, freed, runs, decider, spuVars, queueVars, ppuVars>>

\* cpu_return, the last thread, with the mutex.  It now waits for the exit
\* statuses of the others (StopRun).
EndRun(s) ==
    /\ pc[s] = "last" /\ mutex = None
    /\ mutex' = s
    /\ run_state' = "INITIALIZED"
    /\ join_state' = IF join_state = None THEN "ALL_THREADS_EXIT"
                                          ELSE join_state
    /\ Goto(s, "statuses")
    /\ UNCHANGED <<init, running, exit_status, set_terminate, stop_count,
                   waiter, freed, runs, decider, spuVars, queueVars, ppuVars>>

\* The rest of the critical section: count the stop, serve the joiner.
StopRun(s) ==
    LET l == IF stop_count = Umax THEN "drain"
             ELSE IF "again" \in state[s] THEN "dead" ELSE "off"
    IN  /\ pc[s] = "statuses"
        /\ \A r \in Spus \ {s} : exited[r] => published[r]
        /\ published' = [published EXCEPT ![s] = exited[s] \/ @]
        /\ stop_count' = IF stop_count = Umax THEN Restart ELSE stop_count + 1
        /\ waiter' = None
        /\ join_state' = IF waiter = None THEN join_state ELSE None
        /\ pc' = [t \in Spus \cup Ppus |-> CASE t = s -> l
                                             [] t = waiter -> "idle"
                                             [] OTHER -> pc[t]]
        /\ mutex' = None
        /\ over' = [p \in Ppus |-> over[p] \/ pc[p] = "stopping"]
        /\ UNCHANGED <<run_state, init, running, exit_status, set_terminate,
                       freed, runs, decider, state, exited, queueVars, at,
                       last_stop>>

\* Mutant: without the wait.
Drain_Mutant(s) ==
    /\ pc[s] = "drain"
    /\ Returned(s)
    /\ UNCHANGED <<groupVars, spuVars, queueVars, ppuVars, mutex>>

\* "Wait for terminators manually if needed (ensuring they quit before
\* value-wrapping)"
Drain(s) ==
    /\ pc[s] = "drain" /\ wait_term_count = 0
    /\ Returned(s)
    /\ UNCHANGED <<groupVars, spuVars, queueVars, ppuVars, mutex>>

HostStep(s) == \/ CpuTask(s) \/ CheckState(s) \/ SeeRet(s) \/ Decrement(s)
               \/ Publish(s) \/ EndRun(s) \/ StopRun(s) \/ Drain(s)

----------------------------------------------------------------------------
\* System calls of an SPU.

\* sys_spu_thread_exit.  The status is another than exit_status holds, or the
\* same one.
ThreadExit(s) ==
    /\ pc[s] = "run"
    /\ exited' = [exited EXCEPT ![s] = TRUE]
    /\ published' \in {published, [published EXCEPT ![s] = FALSE]}
    /\ state' = [state EXCEPT ![s] = @ \cup {"stop", "ret"}]
    /\ Goto(s, "enter")
    /\ UNCHANGED <<groupVars, queueVars, ppuVars, mutex>>

\* sys_spu_thread_group_exit and sys_spu_thread_receive_event begin.
Call(s) ==
    /\ pc[s] = "run"
    /\ \E l \in {"group_exit", "receive"} : Goto(s, l)
    /\ UNCHANGED <<groupVars, spuVars, queueVars, ppuVars, mutex>>

\* "Check group status (by actually checking thread status), wait if
\* necessary": both calls do, before they lock the mutex.
CheckGroup(s) ==
    /\ pc[s] \in {"group_exit", "receive"}
    /\ \/ /\ Stopped(s)
          /\ state' = [state EXCEPT ![s] = @ \cup {"again"}]
          /\ Goto(s, "enter")
       \/ /\ ~Stopped(s) /\ ~Paused(s)
          /\ Goto(s, IF pc[s] = "receive" THEN "receive_lock" ELSE "exit_lock")
          /\ UNCHANGED state
    /\ UNCHANGED <<groupVars, exited, published, queueVars, ppuVars, mutex>>

\* "Whoever terminated first decides the error status + cause"
GroupExit(s) ==
    /\ pc[s] = "exit_lock" /\ mutex = None
    /\ \/ /\ run_state \in Waiting
          /\ Goto(s, "group_exit")
          /\ UNCHANGED <<groupVars, spuVars>>
       \/ /\ run_state \notin Waiting /\ set_terminate
          /\ Goto(s, "enter")
          /\ UNCHANGED <<groupVars, spuVars>>
       \/ /\ run_state \notin Waiting /\ ~set_terminate
          /\ set_terminate' = TRUE /\ decider' = s
          /\ StopAll
          /\ exit_status' = s /\ join_state' = "GROUP_EXIT"
          /\ Goto(s, "enter")
          /\ UNCHANGED <<run_state, init, running, stop_count, waiter, freed,
                         runs, exited, published>>
    /\ UNCHANGED <<queueVars, ppuVars, mutex>>

\* sys_spu_thread_receive_event with the mutexes of the queue and the group.
ReceiveEvent(s) ==
    /\ pc[s] = "receive_lock" /\ mutex = None
    /\ \/ /\ Stopped(s)
          /\ state' = [state EXCEPT ![s] = @ \cup {"again"}]
          /\ Goto(s, "enter")
          /\ UNCHANGED <<run_state, queueVars>>
       \/ /\ ~Stopped(s) /\ run_state \in Waiting
          /\ Goto(s, "receive")
          /\ UNCHANGED <<run_state, state, queueVars>>
       \/ /\ ~Stopped(s) /\ run_state \notin Waiting /\ events = 0
          /\ sq' = sq \cup {s}
          /\ run_state' = "WAITING"
          /\ state' = [r \in Spus |-> state[r] \cup {"suspend"}]
          /\ Goto(s, "sleep")
          /\ UNCHANGED events
       \/ /\ ~Stopped(s) /\ run_state \notin Waiting /\ events > 0
          /\ events' = events - 1
          /\ Goto(s, "enter")
          /\ UNCHANGED <<run_state, state, sq>>
    /\ UNCHANGED <<init, running, join_state, exit_status, set_terminate,
                   stop_count, waiter, freed, runs, decider,
                   exited, published, ppuVars, mutex>>

\* The wait at the end of sys_spu_thread_receive_event.
Woken(s) ==
    /\ pc[s] = "sleep" /\ "signal" \in state[s]
    /\ state' = [state EXCEPT ![s] = @ \ {"signal"}]
    /\ Goto(s, "enter")
    /\ UNCHANGED <<groupVars, exited, published, queueVars, ppuVars, mutex>>

\* sys_spu_thread_tryreceive_event
TryReceive(s) ==
    /\ pc[s] = "run" /\ mutex = None /\ events > 0
    /\ events' = events - 1
    /\ UNCHANGED <<groupVars, spuVars, sq, ppuVars, mutex, pc>>

SpuCall(s) == \/ ThreadExit(s) \/ Call(s) \/ CheckGroup(s) \/ GroupExit(s)
              \/ ReceiveEvent(s) \/ Woken(s) \/ TryReceive(s)

----------------------------------------------------------------------------
\* System calls of PPU threads on the group.

\* sys_spu_thread_initialize
Initialize ==
    /\ mutex = None /\ run_state = "NOT_INITIALIZED"
    /\ init' = init + 1
    /\ run_state' = IF init' = Num THEN "INITIALIZED" ELSE run_state
    /\ UNCHANGED <<running, join_state, exit_status, set_terminate,
                   stop_count, waiter, freed, runs, decider,
                   spuVars, queueVars, ppuVars, mutex, pc>>

\* sys_spu_thread_group_start
Start ==
    /\ runs < MaxRuns
    /\ mutex = None /\ run_state = "INITIALIZED"
    /\ run_state' = "RUNNING"
    /\ join_state' = None /\ exit_status' = None
    /\ running' = Num
    /\ set_terminate' = FALSE /\ decider' = None
    /\ runs' = runs + 1
    /\ exited' = [s \in Spus |-> FALSE]
    /\ state' = [s \in Spus |-> state[s] \ {"stop"}]
    /\ UNCHANGED <<init, stop_count, waiter, freed, published, queueVars,
                   ppuVars, mutex, pc>>

\* sys_spu_thread_group_suspend
Suspend ==
    /\ mutex = None
    /\ \/ run_state = "RUNNING" /\ run_state' = "SUSPENDED"
       \/ run_state = "WAITING" /\ run_state' = "WAITING_AND_SUSPENDED"
    /\ state' = [s \in Spus |-> state[s] \cup {"suspend"}]
    /\ UNCHANGED <<init, running, join_state, exit_status, set_terminate,
                   stop_count, waiter, freed, runs, decider, exited,
                   published, queueVars, ppuVars, mutex, pc>>

\* Mutant: resuming lets the threads go in both cases.
Resume_Mutant ==
    /\ mutex = None
    /\ \/ run_state = "SUSPENDED" /\ run_state' = "RUNNING"
       \/ run_state = "WAITING_AND_SUSPENDED" /\ run_state' = "WAITING"
    /\ state' = [s \in Spus |-> state[s] \ {"suspend"}]
    /\ UNCHANGED <<init, running, join_state, exit_status, set_terminate,
                   stop_count, waiter, freed, runs, decider, exited,
                   published, queueVars, ppuVars, mutex, pc>>

\* sys_spu_thread_group_resume: a group that waits for an event stays as it is
\* but for its status.
Resume ==
    /\ mutex = None
    /\ \/ /\ run_state = "SUSPENDED" /\ run_state' = "RUNNING"
          /\ state' = [s \in Spus |-> state[s] \ {"suspend"}]
       \/ /\ run_state = "WAITING_AND_SUSPENDED" /\ run_state' = "WAITING"
          /\ UNCHANGED state
    /\ UNCHANGED <<init, running, join_state, exit_status, set_terminate,
                   stop_count, waiter, freed, runs, decider, exited,
                   published, queueVars, ppuVars, mutex, pc>>

\* sys_spu_thread_group_terminate: a second one only waits for the stop.
Terminate(p) ==
    /\ pc[p] = "idle" /\ mutex = None
    /\ run_state \in {"RUNNING", "SUSPENDED"}
    /\ \/ /\ set_terminate
          /\ last_stop' = [last_stop EXCEPT ![p] = stop_count]
          /\ Goto(p, "stopping")
          /\ UNCHANGED <<set_terminate, decider, state, mutex, at>>
       \/ /\ ~set_terminate
          /\ set_terminate' = TRUE /\ decider' = p
          /\ StopAll
          /\ mutex' = p /\ at' = 1
          /\ Goto(p, "notify")
          /\ UNCHANGED last_stop
    /\ UNCHANGED <<run_state, init, running, join_state, exit_status,
                   stop_count, waiter, freed, runs, exited, published,
                   queueVars, over>>

\* Its loop over the threads: notify one as long as it has the flag wait.
NotifyThread(p) ==
    /\ pc[p] = "notify" /\ at <= Num
    /\ running = 0 \/ ~HasWait(at)
    /\ at' = at + 1
    /\ UNCHANGED <<groupVars, spuVars, queueVars, last_stop, over, mutex, pc>>

\* The result of the run, then the wait for the stop.
SetResult(p) ==
    /\ pc[p] = "notify" /\ at = Num + 1
    /\ exit_status' = p /\ join_state' = "TERMINATED"
    /\ last_stop' = [last_stop EXCEPT ![p] = stop_count]
    /\ mutex' = None /\ at' = 0
    /\ Goto(p, "stopping")
    /\ UNCHANGED <<run_state, init, running, set_terminate, stop_count,
                   waiter, freed, runs, decider, spuVars, queueVars, over>>

TerminateReturn(p) ==
    /\ pc[p] = "stopping" /\ stop_count # last_stop[p]
    /\ over' = [over EXCEPT ![p] = FALSE]
    /\ Goto(p, "idle")
    /\ UNCHANGED <<groupVars, spuVars, queueVars, at, last_stop, mutex>>

\* sys_spu_thread_group_join: take the result of the run, or wait for it.
Join(p) ==
    /\ pc[p] = "idle" /\ mutex = None
    /\ run_state \notin {"NOT_INITIALIZED", "DESTROYED"} /\ waiter = None
    /\ \/ /\ join_state # None /\ run_state = "INITIALIZED"
          /\ join_state' = None
          /\ UNCHANGED <<waiter, pc>>
       \/ /\ join_state = None \/ run_state # "INITIALIZED"
          /\ waiter' = p
          /\ Goto(p, "join")
          /\ UNCHANGED join_state
    /\ UNCHANGED <<run_state, init, running, exit_status, set_terminate,
                   stop_count, freed, runs, decider, spuVars, queueVars,
                   ppuVars, mutex>>

\* sys_spu_thread_group_destroy, without the mutex, then its lock_unlock.
Destroy(p) ==
    /\ pc[p] = "idle" /\ run_state \in Initialized
    /\ run_state' = "DESTROYED"
    /\ Goto(p, "destroy")
    /\ UNCHANGED <<init, running, join_state, exit_status, set_terminate,
                   stop_count, waiter, freed, runs, decider, spuVars,
                   queueVars, ppuVars, mutex>>

\* Mutant: without lock_unlock.
Free_Mutant(p) ==
    /\ pc[p] = "destroy"
    /\ freed' = TRUE
    /\ Goto(p, "idle")
    /\ UNCHANGED <<run_state, init, running, join_state, exit_status,
                   set_terminate, stop_count, waiter, runs, decider, spuVars,
                   queueVars, ppuVars, mutex>>

Free(p) ==
    /\ pc[p] = "destroy" /\ mutex = None
    /\ freed' = TRUE
    /\ Goto(p, "idle")
    /\ UNCHANGED <<run_state, init, running, join_state, exit_status,
                   set_terminate, stop_count, waiter, runs, decider, spuVars,
                   queueVars, ppuVars, mutex>>

\* lv2_event_queue::send
SendEvent ==
    /\ sq = {} /\ events < QueueSize
    /\ events' = events + 1
    /\ UNCHANGED <<groupVars, spuVars, sq, ppuVars, mutex, pc>>

\* resume_spu_thread_group_from_waiting, for the SPU that send took from the
\* queue.  Flags suspend and signal of that SPU are toggled.
Toggle(f) == (f \ {"suspend", "signal"}) \cup ({"suspend", "signal"} \ f)

ResumeFromWaiting(s) ==
    /\ s \in sq /\ mutex = None
    /\ sq' = sq \ {s}
    /\ \/ /\ run_state = "WAITING_AND_SUSPENDED"
          /\ run_state' = "SUSPENDED"
          /\ state' = [state EXCEPT ![s] = @ \cup {"signal"}]
       \/ /\ run_state # "WAITING_AND_SUSPENDED"
          /\ run_state' = IF run_state = "WAITING" THEN "RUNNING"
                                                   ELSE run_state
          /\ state' = [r \in Spus |-> IF r = s THEN Toggle(state[r])
                                      ELSE state[r] \ {"suspend"}]
    /\ UNCHANGED <<init, running, join_state, exit_status, set_terminate,
                   stop_count, waiter, freed, runs, decider, exited,
                   published, events, ppuVars, mutex, pc>>

PpuStep(p) == NotifyThread(p) \/ SetResult(p) \/ TerminateReturn(p) \/ Free(p)

Next ==
    \/ \E s \in Spus : HostStep(s) \/ SpuCall(s) \/ ResumeFromWaiting(s)
    \/ \E p \in Ppus : PpuStep(p) \/ Terminate(p) \/ Join(p) \/ Destroy(p)
    \/ Initialize \/ Start \/ Suspend \/ Resume \/ SendEvent

Spec == Init /\ [][Next]_vars

\* The host threads run and none waits for ever for a mutex that is free
\* again and again; what a guest program calls, and when, is left open.
Fairness ==
    /\ \A s \in Spus : /\ WF_vars(CpuTask(s) \/ CheckState(s) \/ SeeRet(s))
                       /\ WF_vars(Decrement(s) \/ Publish(s) \/ StopRun(s))
                       /\ WF_vars(Drain(s) \/ CheckGroup(s) \/ Woken(s))
                       /\ SF_vars(EndRun(s))
                       /\ SF_vars(GroupExit(s))
                       /\ SF_vars(ReceiveEvent(s))
    /\ \A p \in Ppus : WF_vars(PpuStep(p))

LiveSpec == Spec /\ Fairness

----------------------------------------------------------------------------
(* Properties *)

\* The SPU takes part in the current run and cpu_return has not counted it.
Live(s) == "stop" \notin state[s] \/ "ret" \in state[s] \/ pc[s] = "dec"

\* However the exits of the threads, a group exit and terminations race, every
\* thread leaves a run once: running is the number of threads that have yet to
\* come through cpu_return, so that ensure(group->running) never fails and
\* exactly one thread ends the run.
RunningCounted ==
    /\ running = Cardinality({s \in Spus : Live(s)})
    /\ Cardinality({s \in Spus : pc[s] \in {"last", "statuses"}}) <= 1

\* A group that may be started again, or whose SPUs sys_spu_thread_group_destroy
\* is about to clean up, is at rest: no thread of the run before can still
\* decrement running or change the result, and sys_spu_thread_get_exit_status
\* finds the status of every thread that called sys_spu_thread_exit.
StoppedIsQuiet ==
    (run_state \in Initialized /\ mutex = None) \/ freed =>
        /\ running = 0
        /\ \A s \in Spus :
              /\ ~Live(s) /\ pc[s] \notin {"last", "statuses"}
              /\ exited[s] => published[s]

\* "Whoever terminated first decides the error status + cause": the result of
\* a run is that of the first group exit or termination, or says that all
\* threads exited.  And it reaches a joiner: none keeps waiting beside the
\* result of a finished run.
JoinOutcome ==
    run_state = "INITIALIZED" /\ mutex = None /\ join_state # None =>
        /\ waiter = None
        /\ exit_status = decider
        /\ join_state = IF decider = None THEN "ALL_THREADS_EXIT"
                        ELSE IF decider \in Spus THEN "GROUP_EXIT"
                        ELSE "TERMINATED"

\* The status of the group and the threads agree, which is what the ensure()s
\* on cpu_flag::suspend in sys_spu_thread_receive_event and in
\* resume_spu_thread_group_from_waiting rely on: the group waits for an event
\* exactly when one of its SPUs sleeps in the queue, the event sent to it wakes
\* it, and while the group is suspended or waits every thread is held.
StatusMatchesThreads ==
    mutex = None =>
        /\ run_state \in {"WAITING", "WAITING_AND_SUSPENDED"}
              <=> Cardinality(sq) = 1
        /\ Cardinality(sq) <= 1
        /\ \A s \in Spus : pc[s] = "sleep" => (s \in sq <=> "signal" \notin state[s])
        /\ \A s \in sq : pc[s] = "sleep"
        /\ run_state \in Waiting => \A s \in Spus : "suspend" \in state[s]

\* sys_spu_thread_group_terminate recognises the stop it waits for by
\* stop_count, also when the group has been started and stopped again since,
\* or stop_count has wrapped.
StopNotMissed == \A p \in Ppus : over[p] => stop_count # last_stop[p]

\* sys_spu_thread_group_terminate, "Wait until the threads are actually
\* stopped": a termination that has stopped the threads returns.
TerminateReturns ==
    \A p \in Ppus : pc[p] = "notify" ~> pc[p] = "idle"
=============================================================================
