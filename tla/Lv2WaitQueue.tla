---------------------------- MODULE Lv2WaitQueue ----------------------------
(***************************************************************************)
(* The wait queues of the lv2 objects (sys_sync.h): a list linked through  *)
(* cpu_thread::next_cpu, newest waiter first, kept here as a sequence.     *)
(* emplace() stamps a waiter with an increasing order, so among equal      *)
(* priorities the smaller order is the larger index.  The exception is a   *)
(* thread saved asleep that repeats its call after a load: emplace() keeps *)
(* the order it was saved with, which is less than any new one.  The       *)
(* modules let these threads repeat their calls in every order before      *)
(* anybody else runs, so that the saved order is one of the outcomes.      *)
(***************************************************************************)
EXTENDS Naturals, Sequences

CONSTANTS Protocol,  \* SYS_SYNC_FIFO: "fifo"; SYS_SYNC_PRIORITY: "prio"
          Prio       \* ppu_thread::prio.prio of every thread; smaller runs first

InQueue(sq, t) == \E i \in DOMAIN sq : sq[i] = t

\* emplace(): push to the front of the list.
Emplace(sq, t) == <<t>> \o sq

IndexOf(sq, t) == CHOOSE i \in DOMAIN sq : sq[i] = t

\* What unqueue() and schedule() do to the list: the node before the waiter at
\* i is made to point to the one after it.
Unlink(sq, i) == SubSeq(sq, 1, i - 1) \o SubSeq(sq, i + 1, Len(sq))

\* unqueue(): unlink t wherever it is.
Unqueue(sq, t) == Unlink(sq, IndexOf(sq, t))

\* The waiter at i is served before the one at j.
Before(sq, i, j) ==
    \/ Prio[sq[i]] < Prio[sq[j]]
    \/ Prio[sq[i]] = Prio[sq[j]] /\ i > j

\* schedule(): the index of the waiter that schedule() returns.
ScheduleBy(protocol, sq) ==
    IF protocol = "fifo"
    THEN Len(sq)
    ELSE CHOOSE i \in DOMAIN sq : \A j \in DOMAIN sq \ {i} : Before(sq, i, j)

Schedule(sq) == ScheduleBy(Protocol, sq)

=============================================================================
