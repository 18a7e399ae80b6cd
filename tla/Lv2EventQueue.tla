---------------------------- MODULE Lv2EventQueue ----------------------------
(***************************************************************************)
(* sys_event.cpp: one lv2_event_queue of the type SYS_PPU_QUEUE and one    *)
(* lv2_event_port through which PPU threads send to it.                    *)
(*                                                                         *)
(* An event is the number of the call of sys_event_port_send that made it; *)
(* a call that a savestate interrupts and that is repeated keeps its       *)
(* number.  The handlers do all they do to the queue under its mutex, so   *)
(* each is one step; what a sender does after it has awoken a thread of a  *)
(* higher priority is another.                                             *)
(***************************************************************************)
EXTENDS Naturals, Sequences, FiniteSets, Functions, Lv2Threads, Lv2WaitQueue

CONSTANTS Size,       \* the capacity passed to sys_event_queue_create
          MaxSends,   \* bound: calls of sys_event_port_send
          Senders,    \* the threads that use the port
          Receivers,  \* the threads that receive
          Timeouts,   \* the timeouts passed to the receives; 0 is none
          Savestates  \* TRUE when the emulator may save and reload

ASSUME QueueAssumption ==
    /\ Size \in Nat \ {0}
    /\ MaxSends \in Nat
    /\ Senders \subseteq Threads /\ Receivers \subseteq Threads
    /\ Timeouts \subseteq Nat
    /\ Savestates \in BOOLEAN
    /\ Protocol \in {"fifo", "prio"}
    /\ Prio \in [Threads -> Nat]

VARIABLES events, pq, exists,     \* lv2_event_queue
          connected, busy, port,  \* lv2_event_port: queue, is_busy, and whether it exists
          stop,                   \* a savestate was requested
          pc,                     \* where each thread is
          arg,                    \* the timeout of its receive
          got, canceled,          \* gpr[4..7] and gpr[3] of its receive
          sending,                \* the event of its send
          calls, accepted, taken  \* history: the calls made, the events that were sent
                                  \* and how often each was received or discarded

queueVars == <<events, pq, exists>>
portVars == <<connected, busy, port>>
recvVars == <<arg, got, canceled>>
sendVars == <<sending, calls, accepted>>
vars == <<queueVars, portVars, stop, pc, recvVars, sendVars, taken, threadVars>>

Calls == 1..MaxSends

Places == {"user", "halted", "waiting", "resched", "expired", "notified",
           "again_r", "again_p", "again_d", "redo_r", "redo_p", "redo_d"}

TypeOK ==
    /\ ThreadsTypeOK
    /\ events \in Seq(Calls) /\ Len(events) <= Size
    /\ pq \in Seq(Threads) /\ IsInjective(pq)
    /\ {exists, connected, port, stop} \subseteq BOOLEAN
    /\ busy \in 0..Cardinality(Threads)
    /\ pc \in [Threads -> Places]
    /\ arg \in [Threads -> Nat]
    /\ got \in [Threads -> 0..MaxSends]
    /\ canceled \in [Threads -> BOOLEAN]
    /\ sending \in [Threads -> 0..MaxSends]
    /\ calls \in 0..MaxSends
    /\ accepted \subseteq Calls
    /\ taken \in [Calls -> Nat]

Init ==
    /\ ThreadsInit
    /\ events = <<>>
    /\ pq = <<>>
    /\ exists = TRUE
    /\ connected = FALSE
    /\ busy = 0
    /\ port = TRUE
    /\ stop = FALSE
    /\ pc = [t \in Threads |-> "user"]
    /\ arg = [t \in Threads |-> 0]
    /\ got = [t \in Threads |-> 0]
    /\ canceled = [t \in Threads |-> FALSE]
    /\ sending = [t \in Threads |-> 0]
    /\ calls = 0
    /\ accepted = {}
    /\ taken = [e \in Calls |-> 0]

-----------------------------------------------------------------------------
Goto(t, to) == pc' = [pc EXCEPT ![t] = to]

\* Threads that repeat their receive before the scheduler is started (g_to_sleep).
FutureSleepers == {t \in Threads : st[t] = "sleep" /\ pc[t] = "redo_r"}

MayEnter(t) == FutureSleepers = {} \/ t \in FutureSleepers

\* It was stopped while queued and will repeat its call (cpu_flag::again).
Repeating(u) == pc[u] = "again_r"

\* The events S reach the guest, or are discarded on its demand.
Take(S) == taken' = [e \in Calls |-> IF e \in S THEN taken[e] + 1 ELSE taken[e]]

-----------------------------------------------------------------------------
\* sys_event_queue_receive

Receiving(t, timeout) ==
    /\ exists
    /\ MayEnter(t)
    /\ \/ pc[t] = "user" /\ t \in Receivers
       \/ pc[t] = "redo_r" /\ timeout = arg[t]

ReceiveAtOnce(t, timeout) ==
    /\ Receiving(t, timeout)
    /\ events # <<>>
    /\ Take({Head(events)})
    /\ events' = Tail(events)
    /\ Goto(t, "user")
    /\ UNCHANGED <<pq, exists, portVars, stop, recvVars, sendVars, threadVars>>

ReceiveSleep(t, timeout) ==
    /\ Receiving(t, timeout)
    /\ events = <<>>
    /\ Sleep(t)
    /\ pq' = Emplace(pq, t)
    /\ arg' = [arg EXCEPT ![t] = timeout]
    /\ Goto(t, "waiting")
    /\ UNCHANGED <<events, exists, portVars, stop, got, canceled, sendVars, taken>>

Queued(t) == InQueue(pq, t)

\* The call returns: "If cancelled, gpr[3] will be non-zero.  Other registers
\* must contain event data."
Returned(t, to) ==
    /\ Goto(t, to)
    /\ IF canceled[t] THEN UNCHANGED taken ELSE Take({got[t]})
    /\ got' = [got EXCEPT ![t] = 0]
    /\ canceled' = [canceled EXCEPT ![t] = FALSE]
    /\ arg' = [arg EXCEPT ![t] = 0]

ReceiveSignaled(t) ==
    /\ pc[t] = "waiting"
    /\ Resume(t)
    /\ Returned(t, "user")
    /\ UNCHANGED <<queueVars, portVars, stop, sendVars>>

\* The loop finds the thread stopped: repeat the call if still queued.
ReceiveStopped(t) ==
    /\ pc[t] = "waiting"
    /\ stop
    /\ IF Queued(t) THEN Goto(t, "again_r") /\ UNCHANGED <<recvVars, taken>>
                    ELSE Returned(t, "halted")
    /\ UNCHANGED <<queueVars, portVars, stop, sendVars, threadVars>>

\* wait_timeout() returns true, check_state() waits for rescheduling.
ReceiveTimeout(t) ==
    /\ pc[t] = "waiting"
    /\ arg[t] # 0
    /\ SelfAwake(t)
    /\ Goto(t, "resched")
    /\ UNCHANGED <<queueVars, portVars, stop, recvVars, sendVars, taken>>

ReceiveRescheduled(t) ==
    /\ pc[t] = "resched"
    /\ \/ Resume(t) /\ Goto(t, "expired")
       \/ /\ stop                          \* check_state() returns true
          /\ Goto(t, "waiting")
          /\ Resume(t) \/ UNCHANGED threadVars
    /\ UNCHANGED <<queueVars, portVars, stop, recvVars, sendVars, taken>>

ReceiveExpired_Mutant(t) ==
    /\ pc[t] = "expired"
    /\ pq' = IF Queued(t) THEN Unqueue(pq, t) ELSE pq
    /\ Goto(t, "user")
    /\ UNCHANGED <<events, exists, portVars, stop, recvVars, sendVars, taken, threadVars>>

\* ETIMEDOUT if still queued; otherwise an event has arrived after all.
ReceiveExpired(t) ==
    /\ pc[t] = "expired"
    /\ IF Queued(t)
       THEN /\ pq' = Unqueue(pq, t)
            /\ arg' = [arg EXCEPT ![t] = 0]
            /\ Goto(t, "user")
            /\ UNCHANGED <<got, canceled, taken>>
       ELSE Returned(t, "user") /\ UNCHANGED pq
    /\ UNCHANGED <<events, exists, portVars, stop, sendVars, threadVars>>

-----------------------------------------------------------------------------
\* sys_event_queue_tryreceive takes at most n events, sys_event_queue_drain all.

TryReceive(t, n) ==
    /\ pc[t] = "user" /\ t \in Receivers
    /\ exists
    /\ MayEnter(t)
    /\ LET count == IF n < Len(events) THEN n ELSE Len(events)
       IN  /\ Take(Range(SubSeq(events, 1, count)))
           /\ events' = SubSeq(events, count + 1, Len(events))
    /\ UNCHANGED <<pq, exists, portVars, stop, pc, recvVars, sendVars, threadVars>>

Drain(t) ==
    /\ pc[t] = "user" /\ t \in Receivers
    /\ exists
    /\ MayEnter(t)
    /\ Take(Range(events))
    /\ events' = <<>>
    /\ UNCHANGED <<pq, exists, portVars, stop, pc, recvVars, sendVars, threadVars>>

\* sys_event_queue_destroy: waiters are awoken with ECANCELED if forced (EBUSY if
\* not); unread events are lost with the queue.
QueueDestroy(t, force) ==
    /\ pc[t] = "user" \/ (pc[t] = "redo_d" /\ force)
    /\ exists
    /\ MayEnter(t)
    /\ pq = <<>> \/ force
    /\ IF \E i \in DOMAIN pq : Repeating(pq[i])
       THEN /\ Goto(t, "again_d")
            /\ UNCHANGED <<pq, exists, canceled, threadVars>>
       ELSE /\ Goto(t, "user")
            /\ exists' = FALSE
            /\ canceled' = [u \in Threads |-> canceled[u] \/ Queued(u)]
            /\ pq' = <<>>
            /\ Awake({u \in Threads : Queued(u)})
    /\ UNCHANGED <<events, portVars, stop, arg, got, sendVars, taken>>

-----------------------------------------------------------------------------
\* sys_event_port_send

\* The port is found, and lv2_obj::check(port.queue).
IsConnected == port /\ connected /\ exists

\* This call, or the one that is repeated.
SendCall(t, e) ==
    /\ t \in Senders
    /\ MayEnter(t)
    /\ \/ pc[t] = "user" /\ calls < MaxSends /\ e = calls + 1 /\ calls' = e
       \/ pc[t] = "redo_p" /\ e = sending[t] /\ calls' = calls

\* ppu_thread::loaded_from_savestate: only while a thread that slept when the
\* state was saved repeats its call.
LoadedFromSavestate(t) == pc[t] = "redo_p" /\ st[t] = "sleep"

HasRoom == Len(events) < Size

NoReceiver_Mutant == \A i \in DOMAIN pq : Repeating(pq[i])

NoReceiver == pq = <<>>

\* lv2_event_queue::send without a receiver: save the event, or fail with EBUSY.
\* Without a queue or a port it fails as well (ENOTCONN, ESRCH).
SendSave(t, e) ==
    /\ SendCall(t, e)
    /\ ~LoadedFromSavestate(t)
    /\ NoReceiver \/ ~IsConnected
    /\ IF IsConnected /\ HasRoom
       THEN events' = Append(events, e) /\ accepted' = accepted \cup {e}
       ELSE UNCHANGED <<events, accepted>>
    /\ Goto(t, "user")
    /\ sending' = [sending EXCEPT ![t] = 0]
    /\ UNCHANGED <<pq, exists, portVars, stop, recvVars, taken, threadVars>>

\* lv2_event_queue::send with a receiver: store the event in its registers.
\* A sender that awoke a thread of a higher priority holds the port busy.
SendDirect(t, e) ==
    LET i == Schedule(pq)
        u == pq[i]
        notified == Prio[u] < Prio[t]
    IN  /\ SendCall(t, e)
        /\ ~LoadedFromSavestate(t)
        /\ IsConnected
        /\ ~NoReceiver
        /\ IF Repeating(u)                 \* "Ignored event!"
           THEN /\ Goto(t, "again_p")
                /\ UNCHANGED <<pq, got, busy, accepted, threadVars>>
           ELSE /\ got' = [got EXCEPT ![u] = e]
                /\ pq' = Unlink(pq, i)
                /\ Awake({u})
                /\ accepted' = accepted \cup {e}
                /\ busy' = IF notified THEN busy + 1 ELSE busy
                /\ Goto(t, IF notified THEN "notified" ELSE "user")
        /\ sending' = [sending EXCEPT ![t] = IF pc'[t] = "user" THEN 0 ELSE e]
        /\ UNCHANGED <<events, exists, connected, port, stop, arg, canceled, taken>>

\* "Wait to be requeued"; stopped there, the call is repeated.
SendWaited(t) ==
    /\ pc[t] = "notified"
    /\ Goto(t, IF stop THEN "again_p" ELSE "user")
    /\ sending' = [sending EXCEPT ![t] = IF stop THEN @ ELSE 0]
    /\ busy' = busy - 1
    /\ UNCHANGED <<queueVars, connected, port, stop, recvVars, calls, accepted, taken, threadVars>>

-----------------------------------------------------------------------------
\* sys_event_port_connect_local, sys_event_port_disconnect, sys_event_port_destroy

PortCall(t) == pc[t] = "user" /\ t \in Senders /\ port /\ MayEnter(t)

PortConnect(t) ==
    /\ PortCall(t)
    /\ exists
    /\ ~IsConnected
    /\ connected' = TRUE
    /\ UNCHANGED <<queueVars, busy, port, stop, pc, recvVars, sendVars, taken, threadVars>>

PortDisconnect(t) ==
    /\ PortCall(t)
    /\ IsConnected
    /\ busy = 0
    /\ connected' = FALSE
    /\ UNCHANGED <<queueVars, busy, port, stop, pc, recvVars, sendVars, taken, threadVars>>

PortDestroy(t) ==
    /\ PortCall(t)
    /\ ~IsConnected
    /\ port' = FALSE
    /\ UNCHANGED <<queueVars, connected, busy, stop, pc, recvVars, sendVars, taken, threadVars>>

-----------------------------------------------------------------------------
\* Savestates

Stop ==
    /\ Savestates
    /\ ~stop
    /\ FutureSleepers = {}
    /\ stop' = TRUE
    /\ UNCHANGED <<queueVars, portVars, pc, recvVars, sendVars, taken, threadVars>>

Halt(t) ==
    /\ stop
    /\ pc[t] = "user"
    /\ Goto(t, "halted")
    /\ UNCHANGED <<queueVars, portVars, stop, recvVars, sendVars, taken, threadVars>>

\* lv2_event_queue::save writes the events, lv2_event_port::save its queue; is_busy
\* starts from 0.  The receivers that sleep enter the queue again themselves,
\* before anything else runs.
Reload ==
    /\ stop
    /\ \A t \in Threads : pc[t] \in {"halted", "again_r", "again_p", "again_d",
                                     "redo_r", "redo_p", "redo_d"}
    /\ stop' = FALSE
    /\ pq' = <<>>
    /\ connected' = IsConnected
    /\ busy' = 0
    /\ pc' = [t \in Threads |-> CASE pc[t] \in {"again_r", "redo_r"} -> "redo_r"
                                  [] pc[t] \in {"again_p", "redo_p"} -> "redo_p"
                                  [] pc[t] \in {"again_d", "redo_d"} -> "redo_d"
                                  [] OTHER -> "user"]
    /\ st' = [t \in Threads |->
                IF pc[t] = "again_r" /\ st[t] = "sleep" THEN "sleep" ELSE "onproc"]
    /\ UNCHANGED <<events, exists, port, recvVars, sendVars, taken, cancel>>

\* A repeated call finds that the queue is gone (ESRCH).
RepeatFails(t) ==
    /\ pc[t] \in {"redo_r", "redo_d"}
    /\ st[t] # "sleep"
    /\ MayEnter(t)
    /\ ~exists
    /\ Goto(t, "user")
    /\ UNCHANGED <<queueVars, portVars, stop, recvVars, sendVars, taken, threadVars>>

-----------------------------------------------------------------------------
Receive(t) ==
    \/ \E timeout \in Timeouts : ReceiveAtOnce(t, timeout) \/ ReceiveSleep(t, timeout)
    \/ ReceiveSignaled(t) \/ ReceiveStopped(t) \/ ReceiveTimeout(t)
    \/ ReceiveRescheduled(t) \/ ReceiveExpired(t)
    \/ \E n \in 1..Size : TryReceive(t, n)
    \/ Drain(t)

Send(t) ==
    \/ \E e \in Calls : SendSave(t, e) \/ SendDirect(t, e)
    \/ SendWaited(t)
    \/ PortConnect(t) \/ PortDisconnect(t) \/ PortDestroy(t)

Next ==
    \/ \E t \in Threads :
          \/ Receive(t) \/ Send(t) \/ Halt(t) \/ RepeatFails(t)
          \/ \E force \in BOOLEAN : QueueDestroy(t, force)
    \/ Stop
    \/ Reload

Spec == Init /\ [][Next]_vars

-----------------------------------------------------------------------------
\* Properties

\* A savestate is not requested while a timed receive is in progress, and does
\* not find a sender that waits to be requeued (the README describes what can happen
\* then).
PlainStops ==
    stop => \A t \in Threads :
        /\ pc[t] # "notified"
        /\ pc[t] \in {"waiting", "resched", "expired", "again_r"} => arg[t] = 0

\* Threads whose receive is over and has not returned.
Answered ==
    {t \in Threads : pc[t] \in {"waiting", "resched", "expired"} /\ ~Queued(t)}

\* Where an event is: in the queue, in the registers of a receiver, or taken.
Copies(e) ==
    Cardinality({i \in DOMAIN events : events[i] = e})
    + Cardinality({t \in Answered : got[t] = e /\ ~canceled[t]}) + taken[e]

\* An event that sys_event_port_send accepted is received exactly once: it is in one
\* place, whether it was queued or handed to a receiver, whose timeout may be racing
\* with the sender, and also across a savestate; one that was refused is nowhere.
EventsKept ==
    \A e \in Calls : Copies(e) = IF e \in accepted THEN 1 ELSE 0

\* No event waits in the queue while a receiver sleeps on it, or is about to after
\* a reload; and a receiver that was unlinked is awake and has an event, unless it
\* was cancelled ("Other registers must contain event data").
ReceiversServed ==
    /\ pq # <<>> \/ FutureSleepers # {} => events = <<>>
    /\ \A t \in Answered : st[t] # "sleep" /\ (canceled[t] \/ got[t] # 0)

=============================================================================
