------------------------- MODULE Lv2EventQueueProofs -------------------------
(***************************************************************************)
(* Proofs about event queues for any number of threads, any capacity and   *)
(* any number of events.                                                   *)
(***************************************************************************)
EXTENDS Lv2EventQueue, Lv2WaitQueueProofs

\* A thread in one of these places is in the loop of its receive.
Loop == {"waiting", "resched", "expired"}

TypeInv ==
    /\ st \in [Threads -> Status]
    /\ events \in Seq(Calls)
    /\ pq \in Seq(Threads)
    /\ pc \in [Threads -> Places]
    /\ arg \in [Threads -> Nat]
    /\ got \in [Threads -> 0..MaxSends]
    /\ canceled \in [Threads -> BOOLEAN]
    /\ sending \in [Threads -> 0..MaxSends]
    /\ calls \in 0..MaxSends
    /\ accepted \subseteq Calls
    /\ taken \in [Calls -> Nat]

\* A receiver that is saved is still queued, and one that was unlinked has been
\* awoken with an answer.
WaitInv ==
    /\ \A t \in Threads : pc[t] = "again_r" => Queued(t)
    /\ \A t \in Threads : pc[t] \in Loop /\ ~Queued(t) =>
          st[t] # "sleep" /\ (canceled[t] \/ got[t] # 0)

EmptyInv == pq # <<>> \/ FutureSleepers # {} => events = <<>>

ServedInv == TypeInv /\ WaitInv /\ EmptyInv

\* Who is queued, and whose registers hold an answer.
QueueInv ==
    /\ \A i, j \in DOMAIN pq : pq[i] = pq[j] => i = j
    /\ \A t \in Threads : Queued(t) =>
          /\ pc[t] \in Loop \cup {"again_r"}
          /\ got[t] = 0 /\ ~canceled[t]
          /\ pc[t] = "waiting" => st[t] = "sleep"
    /\ \A t \in Threads : pc[t] \in {"resched", "expired"} => arg[t] # 0
    /\ \A t \in Threads : pc[t] \notin Loop => got[t] = 0 /\ ~canceled[t]
    /\ \A t \in Threads : canceled[t] => got[t] = 0

\* Where the events are: no two entries of the queue, and no two receivers, have the
\* same one; an event is taken at most once, and only if it was sent; one that is in
\* the queue or in registers was sent and is nowhere else; and no sent event is lost.
QueueOnce == \A i, j \in DOMAIN events : events[i] = events[j] => i = j

HandOnce == \A t, u \in Threads : got[t] = got[u] /\ got[t] # 0 => t = u

TakenOnce == \A e \in Calls : taken[e] \in {0, 1} /\ (taken[e] = 1 => e \in accepted)

QueueSent ==
    \A i \in DOMAIN events : /\ events[i] \in accepted /\ taken[events[i]] = 0
                             /\ \A t \in Threads : got[t] # events[i]

HandSent == \A t \in Threads : got[t] # 0 => got[t] \in accepted /\ taken[got[t]] = 0

NotLost ==
    \A e \in accepted : \/ taken[e] = 1
                        \/ \E i \in DOMAIN events : events[i] = e
                        \/ \E t \in Threads : got[t] = e

KeptInv == QueueOnce /\ HandOnce /\ TakenOnce /\ QueueSent /\ HandSent /\ NotLost

\* A call of sys_event_port_send that is repeated after the savestate.
SendsAgain(t) == pc[t] \in {"again_p", "redo_p"}

\* Such a call has not sent its event, and no other call has the same event.
SendInv ==
    /\ \A e \in accepted : e <= calls
    /\ \A t \in Threads : SendsAgain(t) =>
          sending[t] \in Calls \ accepted /\ sending[t] <= calls
    /\ \A t, u \in Threads : SendsAgain(t) /\ SendsAgain(u) /\ sending[t] = sending[u] => t = u

EventInv == QueueInv /\ KeptInv /\ SendInv

------------------------------------------------------------------------------
\* Which places are in the loop of receive.
LEMMA PlacesOf ==
    /\ Loop \subseteq Places /\ {"user", "halted", "again_p", "again_d", "notified"} \subseteq
                                   Places \ (Loop \cup {"again_r", "redo_r"})
    /\ \A x \in {"user", "redo_r", "redo_p", "redo_d", "notified"} : x \notin Loop \cup {"again_r"}
BY DEF Places, Loop

\* Nothing that concerns the receivers changes.
LEMMA SameWaits ==
    ASSUME UNCHANGED <<pq, pc, st, got, canceled, arg>>
    PROVE  /\ WaitInv => WaitInv'
           /\ FutureSleepers' = FutureSleepers
           /\ QueueInv => QueueInv'
<1>1. \A t : Queued(t)' <=> Queued(t)
  BY DEF Queued
<1> QED BY Zenon, <1>1 DEF WaitInv, FutureSleepers, QueueInv

\* One thread moves outside of the loop of receive, and nobody is awoken.
LEMMA QuietMove ==
    ASSUME TypeInv, WaitInv, NEW t \in Threads,
           NEW x \in Places \ (Loop \cup {"again_r", "redo_r"}),
           pc[t] \notin Loop \cup {"again_r"}, Goto(t, x),
           UNCHANGED <<pq, st, got, canceled>>
    PROVE  /\ pc' \in [Threads -> Places] /\ WaitInv'
           /\ FutureSleepers' \subseteq FutureSleepers
           /\ QueueInv /\ arg' = arg => QueueInv'
<1>1. pc' \in [Threads -> Places] /\ pc'[t] = x /\ \A u \in Threads \ {t} : pc'[u] = pc[u]
  BY DEF Goto, TypeInv
<1>2. \A u : Queued(u)' <=> Queued(u)
  BY DEF Queued
<1>3. x \notin Loop /\ x # "again_r" /\ x # "redo_r"
  OBVIOUS
<1>4. WaitInv'
  BY Zenon, <1>1, <1>2, <1>3 DEF WaitInv
<1>5. FutureSleepers' \subseteq FutureSleepers
  BY Zenon, <1>1, <1>3 DEF FutureSleepers
<1>6. ASSUME QueueInv, arg' = arg PROVE QueueInv'
  <2>1. ~Queued(t)
    BY <1>6 DEF QueueInv
  <2>2. \A u \in Threads : Queued(u) => pc'[u] = pc[u]
    BY Zenon, <1>1, <2>1
  <2>3. \A u \in Threads : pc'[u] \notin Loop => pc[u] \notin Loop
    BY Zenon, <1>1
  <2>4. x \notin {"resched", "expired"}
    BY <1>3 DEF Loop
  <2>5. \A u \in Threads : pc'[u] \in {"resched", "expired"} => pc[u] = pc'[u]
    BY Zenon, <1>1, <2>4
  <2> QED BY Zenon, <1>2, <1>6, <2>2, <2>3, <2>5 DEF QueueInv
<1> QED BY <1>1, <1>4, <1>5, <1>6

\* The same, when the events are left alone.
LEMMA QuietServed ==
    ASSUME ServedInv, NEW t \in Threads,
           NEW x \in Places \ (Loop \cup {"again_r", "redo_r"}),
           pc[t] \notin Loop \cup {"again_r"}, Goto(t, x),
           UNCHANGED <<pq, st, got, canceled, arg, events, taken>>,
           sending' \in [Threads -> 0..MaxSends], calls' \in 0..MaxSends, accepted' \subseteq Calls
    PROVE  ServedInv' /\ (QueueInv => QueueInv')
<1> USE DEF ServedInv
<1>1. /\ pc' \in [Threads -> Places] /\ WaitInv' /\ FutureSleepers' \subseteq FutureSleepers
      /\ QueueInv => QueueInv'
  BY Zenon, QuietMove
<1>2. TypeInv'
  BY Zenon, <1>1 DEF TypeInv
<1>3. EmptyInv'
  BY <1>1 DEF EmptyInv
<1> QED BY <1>1, <1>2, <1>3

\* A call other than a repeated receive waits until all receivers that slept when
\* the state was saved sleep again.
LEMMA NoSleepers ==
    ASSUME NEW t \in Threads, MayEnter(t), pc[t] # "redo_r"
    PROVE  FutureSleepers = {}
BY DEF MayEnter, FutureSleepers

\* What the history of taken events becomes.
LEMMA Taking ==
    ASSUME TypeInv, NEW S, Take(S)
    PROVE  /\ taken' \in [Calls -> Nat]
           /\ \A e \in Calls : taken'[e] = IF e \in S THEN taken[e] + 1 ELSE taken[e]
BY DEF TypeInv, Take

\* The first n events of the queue.
First(n) == {events[i] : i \in 1..n}

\* What a call of receive that takes events from the queue, tryreceive and drain do.
LEMMA FromQueue ==
    ASSUME TypeInv, NEW t \in Threads,
           \/ \E timeout : ReceiveAtOnce(t, timeout)
           \/ \E n \in 1..Size : TryReceive(t, n)
           \/ Drain(t)
    PROVE  \E n \in 0..Len(events) :
              /\ Take(First(n))
              /\ events' \in Seq(Calls) /\ Len(events') = Len(events) - n
              /\ \A i \in 1..Len(events) - n : events'[i] = events[i + n]
<1>1. events \in Seq(Calls) /\ Len(events) \in Nat /\ DOMAIN events = 1..Len(events)
  BY DEF TypeInv
<1>2. ASSUME NEW timeout, ReceiveAtOnce(t, timeout) PROVE
              /\ 1 \in 0..Len(events) /\ Take(First(1))
              /\ events' \in Seq(Calls) /\ Len(events') = Len(events) - 1
              /\ \A i \in 1..Len(events) - 1 : events'[i] = events[i + 1]
  <2>1. events # <<>> /\ events' = Tail(events) /\ Take({Head(events)})
    BY <1>2 DEF ReceiveAtOnce
  <2>2. Head(events) = events[1] /\ Len(events) > 0
    BY <1>1, <2>1
  <2>3. First(1) = {Head(events)}
    BY <2>2 DEF First
  <2>4. Tail(events) \in Seq(Calls) /\ Len(Tail(events)) = Len(events) - 1
    BY <1>1, <2>1
  <2>5. \A i \in 1..Len(events) - 1 : Tail(events)[i] = events[i + 1]
    BY <1>1, <2>1
  <2>6. 1 \in 0..Len(events)
    BY <1>1, <2>2
  <2> QED BY Zenon, <2>1, <2>3, <2>4, <2>5, <2>6
<1>3. ASSUME NEW n \in 1..Size, TryReceive(t, n) PROVE \E m \in 0..Len(events) :
         /\ Take(Range(SubSeq(events, 1, m))) /\ events' = SubSeq(events, m + 1, Len(events))
  <2>1. (IF n < Len(events) THEN n ELSE Len(events)) \in 0..Len(events)
    BY <1>1, QueueAssumption
  <2> QED BY Zenon, <2>1, <1>3 DEF TryReceive
<1>4. ASSUME Drain(t) PROVE
         /\ Len(events) \in 0..Len(events) /\ Take(First(Len(events)))
         /\ events' \in Seq(Calls) /\ Len(events') = Len(events) - Len(events)
         /\ \A i \in 1..Len(events) - Len(events) : events'[i] = events[i + Len(events)]
  <2>1. Range(events) = First(Len(events))
    BY <1>1 DEF Range, First
  <2> QED BY <1>1, <1>4, <2>1 DEF Drain
<1>5. ASSUME NEW m \in 0..Len(events), Take(Range(SubSeq(events, 1, m))),
             events' = SubSeq(events, m + 1, Len(events))
      PROVE  /\ Take(First(m))
             /\ events' \in Seq(Calls) /\ Len(events') = Len(events) - m
             /\ \A i \in 1..Len(events) - m : events'[i] = events[i + m]
  <2> DEFINE q == SubSeq(events, 1, m)
             r == SubSeq(events, m + 1, Len(events))
  <2>1. m \in Nat /\ 1..m \subseteq 1..Len(events) /\ \A i \in 1..Len(events) - m : i + m \in 1..Len(events)
    BY <1>1
  <2>2. q = [i \in 1..m |-> events[i]]
    BY <1>1, <2>1
  <2>3. r = [i \in 1..Len(events) - m |-> events[i + m]]
    BY <1>1, <2>1
  <2> HIDE DEF q, r
  <2>4. Range(q) = First(m)
    BY Zenon, <2>2 DEF Range, First
  <2>5. r \in Seq(Calls) /\ Len(r) = Len(events) - m
    <3>1. Len(events) - m \in Nat /\ \A i \in 1..Len(events) - m : events[i + m] \in Calls
      BY <1>1, <2>1
    <3> QED BY <2>3, <3>1
  <2>6. \A i \in 1..Len(events) - m : r[i] = events[i + m]
    BY Zenon, <2>3
  <2> QED BY Zenon, <1>5, <2>4, <2>5, <2>6 DEF q, r
<1>6. CASE \E timeout : ReceiveAtOnce(t, timeout)
  BY Zenon, <1>2, <1>6
<1>7. CASE \E n \in 1..Size : TryReceive(t, n)
  BY Zenon, <1>3, <1>5, <1>7
<1>8. CASE Drain(t)
  BY Zenon, <1>4, <1>8
<1> QED BY <1>6, <1>7, <1>8

------------------------------------------------------------------------------
\* The steps of receivers

\* receive finds an event; tryreceive and drain.
LEMMA FromQueueServed ==
    ASSUME ServedInv, NEW t \in Threads,
           \/ \E timeout : ReceiveAtOnce(t, timeout)
           \/ \E n \in 1..Size : TryReceive(t, n)
           \/ Drain(t)
    PROVE  ServedInv' /\ (QueueInv => QueueInv')
<1> USE DEF ServedInv
<1>1. PICK n \in 0..Len(events) :
              /\ Take(First(n))
              /\ events' \in Seq(Calls) /\ Len(events') = Len(events) - n
              /\ \A i \in 1..Len(events) - n : events'[i] = events[i + n]
  BY Zenon, FromQueue
<1>2. UNCHANGED <<pq, exists, portVars, stop, recvVars, sendVars, threadVars>>
  BY DEF ReceiveAtOnce, TryReceive, Drain
<1>3. events = <<>> => events' = <<>>
  <2>1. events = <<>> => Len(events') = 0
    BY <1>1
  <2> QED BY <1>1, <2>1
<1>4. taken' \in [Calls -> Nat]
  BY <1>1, Taking
<1>5. CASE pc' = pc /\ pc[t] = "user" /\ MayEnter(t)
  <2>1. FutureSleepers = {}
    BY <1>5, NoSleepers
  <2>2. WaitInv' /\ FutureSleepers' = FutureSleepers /\ (QueueInv => QueueInv')
    BY Zenon, <1>2, <1>5, SameWaits DEF recvVars, threadVars
  <2>3. TypeInv'
    BY Zenon, <1>1, <1>2, <1>4, <1>5 DEF TypeInv, recvVars, sendVars, threadVars
  <2>4. EmptyInv'
    BY <1>2, <1>3, <2>1, <2>2 DEF EmptyInv
  <2> QED BY <2>2, <2>3, <2>4
<1>6. CASE Goto(t, "user") /\ pc[t] \in {"user", "redo_r"} /\ events # <<>>
  <2>1. FutureSleepers = {} /\ pq = <<>>
    BY <1>6 DEF EmptyInv
  <2>2. /\ pc' \in [Threads -> Places] /\ WaitInv' /\ FutureSleepers' \subseteq FutureSleepers
        /\ QueueInv => QueueInv'
    BY Zenon, <1>2, <1>6, PlacesOf, QuietMove DEF recvVars, threadVars
  <2>3. TypeInv'
    BY Zenon, <1>1, <1>2, <1>4, <2>2 DEF TypeInv, recvVars, sendVars, threadVars
  <2>4. EmptyInv'
    BY <1>2, <2>1, <2>2 DEF EmptyInv
  <2> QED BY <2>2, <2>3, <2>4
<1>7. CASE \E timeout : ReceiveAtOnce(t, timeout)
  BY <1>6, <1>7 DEF ReceiveAtOnce, Receiving
<1>8. CASE (\E n1 \in 1..Size : TryReceive(t, n1)) \/ Drain(t)
  BY <1>5, <1>8 DEF TryReceive, Drain
<1> QED BY <1>7, <1>8

\* receive finds no event: the thread is queued and sleeps.
LEMMA ReceiveSleepServed ==
    ASSUME ServedInv, NEW t \in Threads, NEW timeout \in Timeouts, ReceiveSleep(t, timeout)
    PROVE  ServedInv' /\ (QueueInv => QueueInv')
<1> USE DEF ServedInv
<1>1. /\ pc[t] \in {"user", "redo_r"} /\ events = <<>> /\ events' = events
      /\ pq' = Emplace(pq, t) /\ arg' = [arg EXCEPT ![t] = timeout]
      /\ st' = [st EXCEPT ![t] = "sleep"] /\ pc' = [pc EXCEPT ![t] = "waiting"]
      /\ UNCHANGED <<got, canceled, sending, calls, accepted, taken>>
  BY DEF ReceiveSleep, Receiving, Goto, Sleep, Asleep, sendVars
<1>2. /\ pc' \in [Threads -> Places] /\ pc'[t] = "waiting" /\ \A u \in Threads \ {t} : pc'[u] = pc[u]
      /\ st' \in [Threads -> Status] /\ st'[t] = "sleep" /\ \A u \in Threads \ {t} : st'[u] = st[u]
      /\ arg' \in [Threads -> Nat] /\ \A u \in Threads \ {t} : arg'[u] = arg[u]
  BY <1>1, QueueAssumption DEF TypeInv, Places, Status
<1>3. /\ pq' \in Seq(Threads)
      /\ \A u : Queued(u)' <=> u = t \/ Queued(u)
  BY <1>1, EmplaceProperties DEF TypeInv, Queued
<1>4. TypeInv'
  BY Zenon, <1>1, <1>2, <1>3 DEF TypeInv
<1>5. WaitInv'
  BY Zenon, <1>1, <1>2, <1>3 DEF WaitInv
<1>6. EmptyInv'
  BY <1>1 DEF EmptyInv
<1>7. ASSUME QueueInv PROVE QueueInv'
  <2>1. pc[t] \notin Loop /\ pc[t] \notin Loop \cup {"again_r"}
    BY <1>1, PlacesOf
  <2>2. ~Queued(t) /\ got[t] = 0 /\ ~canceled[t]
    BY <1>7, <2>1 DEF QueueInv
  <2>3. \A i, j \in DOMAIN pq' : pq'[i] = pq'[j] => i = j
    <3>1. pq \in Seq(Threads) /\ ~InQueue(pq, t) /\ \A i, j \in DOMAIN pq : pq[i] = pq[j] => i = j
      BY <1>7, <2>2 DEF QueueInv, TypeInv, Queued
    <3>2. \A i, j \in DOMAIN Emplace(pq, t) : Emplace(pq, t)[i] = Emplace(pq, t)[j] => i = j
      BY Zenon, <3>1, EmplaceOnce
    <3> QED BY Zenon, <1>1, <3>2
  <2>4. "waiting" \in Loop /\ "waiting" \notin {"resched", "expired"}
    BY DEF Loop
  <2>5. \A u \in Threads : Queued(u)' =>
          /\ pc'[u] \in Loop \cup {"again_r"}
          /\ got'[u] = 0 /\ ~canceled'[u]
          /\ pc'[u] = "waiting" => st'[u] = "sleep"
    BY Zenon, <1>1, <1>2, <1>3, <1>7, <2>2, <2>4 DEF QueueInv
  <2>6. \A u \in Threads : pc'[u] \in {"resched", "expired"} => arg'[u] # 0
    BY Zenon, <1>2, <1>7, <2>4 DEF QueueInv
  <2>7. /\ \A u \in Threads : pc'[u] \notin Loop => got'[u] = 0 /\ ~canceled'[u]
        /\ \A u \in Threads : canceled'[u] => got'[u] = 0
    BY Zenon, <1>1, <1>2, <1>7, <2>4 DEF QueueInv
  <2> QED BY Zenon, <2>3, <2>5, <2>6, <2>7 DEF QueueInv
<1> QED BY <1>4, <1>5, <1>6, <1>7

\* receive returns what it finds in the registers.
LEMMA ReturnedServed ==
    ASSUME ServedInv, NEW t \in Threads, NEW x \in {"user", "halted"}, pc[t] \in Loop, Returned(t, x),
           st' \in [Threads -> Status], \A u \in Threads \ {t} : st'[u] = st[u],
           UNCHANGED <<events, pq, sending, calls, accepted>>
    PROVE  ServedInv' /\ (QueueInv /\ ~Queued(t) => QueueInv')
<1> USE DEF ServedInv
<1>1. /\ pc' \in [Threads -> Places] /\ pc'[t] = x /\ \A u \in Threads \ {t} : pc'[u] = pc[u]
      /\ got' \in [Threads -> 0..MaxSends] /\ got'[t] = 0 /\ \A u \in Threads \ {t} : got'[u] = got[u]
      /\ canceled' \in [Threads -> BOOLEAN] /\ ~canceled'[t]
      /\ \A u \in Threads \ {t} : canceled'[u] = canceled[u]
      /\ arg' \in [Threads -> Nat] /\ \A u \in Threads \ {t} : arg'[u] = arg[u]
  BY QueueAssumption DEF TypeInv, Returned, Goto, Places
<1>2. taken' \in [Calls -> Nat]
  BY Taking DEF Returned, TypeInv
<1>3. x \notin Loop /\ x # "again_r" /\ x # "redo_r" /\ x \notin {"resched", "expired"}
  BY DEF Loop
<1>4. \A u : Queued(u)' <=> Queued(u)
  BY DEF Queued
<1>5. TypeInv'
  BY Zenon, <1>1, <1>2 DEF TypeInv
<1>6. WaitInv'
  <2>1. \A u \in Threads : pc'[u] \in Loop \/ pc'[u] = "again_r" => u # t
    BY Zenon, <1>1, <1>3
  <2>2. \A u \in Threads : u # t => /\ pc'[u] = pc[u] /\ st'[u] = st[u] /\ got'[u] = got[u]
                                    /\ canceled'[u] = canceled[u]
    BY Zenon, <1>1
  <2>3. \A u \in Threads : pc'[u] = "again_r" => Queued(u)'
    BY Zenon, <1>4, <2>1, <2>2 DEF WaitInv
  <2>4. \A u \in Threads : pc'[u] \in Loop /\ ~Queued(u)' =>
           st'[u] # "sleep" /\ (canceled'[u] \/ got'[u] # 0)
    BY Zenon, <1>4, <2>1, <2>2 DEF WaitInv
  <2> QED BY Zenon, <2>3, <2>4 DEF WaitInv
<1>7. FutureSleepers' \subseteq FutureSleepers
  BY Zenon, <1>1, <1>3 DEF FutureSleepers
<1>8. EmptyInv'
  BY <1>7 DEF EmptyInv
<1>9. ASSUME QueueInv, ~Queued(t) PROVE QueueInv'
  <2>1. \A u \in Threads : Queued(u)' => u # t /\ Queued(u)
    BY Zenon, <1>4, <1>9
  <2>2. \A u \in Threads : Queued(u)' =>
          /\ pc'[u] \in Loop \cup {"again_r"}
          /\ got'[u] = 0 /\ ~canceled'[u]
          /\ pc'[u] = "waiting" => st'[u] = "sleep"
    <3>1. \A u \in Threads : Queued(u)' => pc'[u] = pc[u] /\ got'[u] = got[u]
                                            /\ canceled'[u] = canceled[u] /\ st'[u] = st[u]
      BY Zenon, <1>1, <2>1
    <3> QED BY Zenon, <1>9, <2>1, <3>1 DEF QueueInv
  <2>3. \A u \in Threads : pc'[u] \in {"resched", "expired"} => arg'[u] # 0
    BY Zenon, <1>1, <1>3, <1>9 DEF QueueInv
  <2>4. /\ \A u \in Threads : pc'[u] \notin Loop => got'[u] = 0 /\ ~canceled'[u]
        /\ \A u \in Threads : canceled'[u] => got'[u] = 0
    BY Zenon, <1>1, <1>9 DEF QueueInv
  <2> QED BY Zenon, <1>9, <2>2, <2>3, <2>4 DEF QueueInv
<1> QED BY <1>5, <1>6, <1>8, <1>9

\* The loop of receive goes on, in one place or another, or gives up while the
\* thread is queued.
LEMMA LoopServed ==
    ASSUME ServedInv, NEW t \in Threads, NEW x \in Loop \cup {"again_r"}, pc[t] \in Loop,
           Goto(t, x), x = "again_r" => Queued(t),
           st' \in [Threads -> Status], \A u \in Threads \ {t} : st'[u] = st[u],
           st'[t] = "sleep" => st[t] = "sleep",
           UNCHANGED <<events, pq, recvVars, sendVars, taken>>
    PROVE  /\ ServedInv'
           /\ QueueInv /\ (x = "waiting" => st' = st /\ pc[t] = "waiting")
                       /\ (x \in {"resched", "expired"} => arg[t] # 0) => QueueInv'
<1> USE DEF ServedInv, recvVars, sendVars
<1>1. pc' \in [Threads -> Places] /\ pc'[t] = x /\ \A u \in Threads \ {t} : pc'[u] = pc[u]
  BY DEF TypeInv, Goto, Places, Loop
<1>2. \A u : Queued(u)' <=> Queued(u)
  BY DEF Queued
<1>3. x # "redo_r"
  BY DEF Loop
<1>4. TypeInv'
  BY Zenon, <1>1 DEF TypeInv
<1>5. WaitInv'
  <2>1. x \in Loop \/ x = "again_r"
    OBVIOUS
  <2>2. "again_r" \notin Loop
    BY DEF Loop
  <2> QED BY Zenon, <1>1, <1>2, <2>1, <2>2 DEF WaitInv
<1>6. FutureSleepers' \subseteq FutureSleepers
  BY Zenon, <1>1, <1>3 DEF FutureSleepers
<1>7. EmptyInv'
  BY <1>6 DEF EmptyInv
<1>8. ASSUME QueueInv, x = "waiting" => st' = st /\ pc[t] = "waiting",
             x \in {"resched", "expired"} => arg[t] # 0
      PROVE  QueueInv'
  <2>1. x \notin Loop => got[t] = 0 /\ ~canceled[t]
    BY <1>8 DEF QueueInv
  <2> QED BY Zenon, <1>1, <1>2, <1>8, <2>1 DEF QueueInv
<1> QED BY <1>4, <1>5, <1>7, <1>8

\* The timeout has expired and no event has arrived: the thread leaves the queue.
LEMMA ExpiredServed ==
    ASSUME ServedInv, NEW t \in Threads, pc[t] = "expired", Queued(t),
           pq' = Unqueue(pq, t), arg' = [arg EXCEPT ![t] = 0], Goto(t, "user"),
           UNCHANGED <<events, st, got, canceled, sending, calls, accepted, taken>>
    PROVE  ServedInv' /\ (QueueInv => QueueInv')
<1> USE DEF ServedInv
<1> DEFINE i == IndexOf(pq, t)
<1>1. pq \in Seq(Threads) /\ i \in 1..Len(pq) /\ pq[i] = t /\ pq' = Unlink(pq, i)
  BY UnqueueIndex DEF TypeInv, Queued, Unqueue
<1> HIDE DEF i
<1>2. /\ pq' \in Seq(Threads)
      /\ \A u : (Queued(u) /\ u # t => Queued(u)') /\ (Queued(u)' => Queued(u))
  BY <1>1, UnlinkProperties, UnlinkMembers DEF Queued
<1>3. /\ pc' \in [Threads -> Places] /\ pc'[t] = "user" /\ \A u \in Threads \ {t} : pc'[u] = pc[u]
      /\ arg' \in [Threads -> Nat] /\ \A u \in Threads \ {t} : arg'[u] = arg[u]
  BY DEF TypeInv, Goto, Places
<1>4. "user" \notin Loop
  BY DEF Loop
<1>5. TypeInv'
  BY Zenon, <1>2, <1>3 DEF TypeInv
<1>6. WaitInv'
  BY Zenon, <1>2, <1>3, <1>4 DEF WaitInv
<1>7. EmptyInv'
  <2>1. FutureSleepers' \subseteq FutureSleepers
    BY Zenon, <1>3 DEF FutureSleepers
  <2>2. pq # <<>>
    BY <1>1
  <2> QED BY <2>2 DEF EmptyInv
<1>8. ASSUME QueueInv PROVE QueueInv'
  <2>1. /\ ~Queued(t)' /\ \A j, k \in DOMAIN pq' : pq'[j] = pq'[k] => j = k
    BY <1>1, <1>8, UnlinkOnce DEF QueueInv, Queued
  <2>2. got[t] = 0 /\ ~canceled[t]
    BY <1>8 DEF QueueInv
  <2>3. \A u \in Threads : Queued(u)' => u # t /\ Queued(u)
    BY <1>2, <2>1 DEF Queued
  <2>4. \A u \in Threads : Queued(u)' =>
          /\ pc'[u] \in Loop \cup {"again_r"}
          /\ got'[u] = 0 /\ ~canceled'[u]
          /\ pc'[u] = "waiting" => st'[u] = "sleep"
    BY Zenon, <1>3, <1>8, <2>3 DEF QueueInv
  <2>5. \A u \in Threads : pc'[u] \in {"resched", "expired"} => arg'[u] # 0
    <3>1. "user" \notin {"resched", "expired"}
      OBVIOUS
    <3> QED BY Zenon, <1>3, <1>8, <3>1 DEF QueueInv
  <2>6. /\ \A u \in Threads : pc'[u] \notin Loop => got'[u] = 0 /\ ~canceled'[u]
        /\ \A u \in Threads : canceled'[u] => got'[u] = 0
    BY Zenon, <1>3, <1>8, <2>2 DEF QueueInv
  <2> QED BY Zenon, <2>1, <2>4, <2>5, <2>6 DEF QueueInv
<1> QED BY <1>5, <1>6, <1>7, <1>8

\* The loop of receive.
LEMMA ReceiveLoopServed ==
    ASSUME ServedInv, NEW t \in Threads,
           \/ ReceiveSignaled(t) \/ ReceiveStopped(t) \/ ReceiveTimeout(t)
           \/ ReceiveRescheduled(t) \/ ReceiveExpired(t)
    PROVE  ServedInv' /\ (QueueInv /\ PlainStops => QueueInv')
<1>0. /\ {"waiting", "resched", "expired"} = Loop /\ st \in [Threads -> Status]
      /\ {"onproc", "ready"} \subseteq Status
  BY DEF Loop, ServedInv, TypeInv, Status
<1> USE DEF sendVars, threadVars, queueVars
<1>1. CASE ReceiveSignaled(t)
  <2>1. /\ pc[t] = "waiting" /\ Returned(t, "user") /\ st[t] = "ready" /\ st' = [st EXCEPT ![t] = "onproc"]
        /\ UNCHANGED <<events, pq, sending, calls, accepted>>
    BY <1>1 DEF ReceiveSignaled, Resume
  <2>2. st' \in [Threads -> Status] /\ \A u \in Threads \ {t} : st'[u] = st[u]
    BY <1>0, <2>1
  <2>3. QueueInv => ~Queued(t)
    BY <2>1 DEF QueueInv
  <2>4. ServedInv' /\ (QueueInv /\ ~Queued(t) => QueueInv')
    BY Zenon, <1>0, <2>1, <2>2, ReturnedServed
  <2> QED BY <2>3, <2>4
<1>2. CASE ReceiveStopped(t)
  <2>1. pc[t] = "waiting" /\ UNCHANGED <<events, pq, sending, calls, accepted, st>>
    BY <1>2 DEF ReceiveStopped
  <2>2. CASE Queued(t)
    <3>1. Goto(t, "again_r") /\ UNCHANGED <<recvVars, taken>>
      BY <1>2, <2>2 DEF ReceiveStopped
    <3>2. "again_r" \in Loop \cup {"again_r"} /\ "again_r" \notin {"waiting", "resched", "expired"}
      OBVIOUS
    <3>3. /\ ServedInv'
          /\ QueueInv /\ ("again_r" = "waiting" => st' = st /\ pc[t] = "waiting")
                      /\ ("again_r" \in {"resched", "expired"} => arg[t] # 0) => QueueInv'
      BY Zenon, <1>0, <2>1, <2>2, <3>1, <3>2, LoopServed
    <3> QED BY <3>3
  <2>3. CASE ~Queued(t)
    <3>1. Returned(t, "halted")
      BY <1>2, <2>3 DEF ReceiveStopped
    <3> QED BY Zenon, <1>0, <2>1, <2>3, <3>1, ReturnedServed
  <2> QED BY <2>2, <2>3
<1>3. CASE ReceiveTimeout(t)
  <2>1. /\ pc[t] = "waiting" /\ arg[t] # 0 /\ Goto(t, "resched")
        /\ st' = [st EXCEPT ![t] = IF @ = "sleep" THEN "ready" ELSE @]
        /\ UNCHANGED <<events, pq, recvVars, sendVars, taken>>
    BY <1>3 DEF ReceiveTimeout, SelfAwake
  <2>2. st' \in [Threads -> Status] /\ st'[t] # "sleep" /\ \A u \in Threads \ {t} : st'[u] = st[u]
    BY <1>0, <2>1
  <2> QED BY Zenon, <1>0, <2>1, <2>2, LoopServed
<1>4. CASE ReceiveRescheduled(t)
  <2>1. pc[t] = "resched" /\ UNCHANGED <<events, pq, recvVars, sendVars, taken>>
    BY <1>4 DEF ReceiveRescheduled
  <2>2. /\ st' \in [Threads -> Status] /\ (st'[t] = "sleep" => st[t] = "sleep")
        /\ \A u \in Threads \ {t} : st'[u] = st[u]
    BY <1>0, <1>4 DEF ReceiveRescheduled, Resume
  <2>3. CASE Goto(t, "expired")
    <3>1. QueueInv => arg[t] # 0
      BY <2>1 DEF QueueInv
    <3>2. /\ ServedInv'
          /\ QueueInv /\ ("expired" = "waiting" => st' = st /\ pc[t] = "waiting")
                      /\ ("expired" \in {"resched", "expired"} => arg[t] # 0) => QueueInv'
      BY Zenon, <1>0, <2>1, <2>2, <2>3, LoopServed
    <3> QED BY <3>1, <3>2
  <2>4. CASE stop /\ Goto(t, "waiting")
    <3>1. ServedInv'
      BY Zenon, <1>0, <2>1, <2>2, <2>4, LoopServed
    <3>2. ~(QueueInv /\ PlainStops)
      BY <2>1, <2>4 DEF QueueInv, PlainStops
    <3> QED BY <3>1, <3>2
  <2> QED BY <1>4, <2>3, <2>4 DEF ReceiveRescheduled
<1>5. CASE ReceiveExpired(t)
  <2>1. pc[t] = "expired" /\ UNCHANGED <<events, sending, calls, accepted, st>>
    BY <1>5 DEF ReceiveExpired
  <2>2. CASE Queued(t)
    <3>1. /\ pq' = Unqueue(pq, t) /\ arg' = [arg EXCEPT ![t] = 0] /\ Goto(t, "user")
          /\ UNCHANGED <<got, canceled, taken>>
      BY <1>5, <2>2 DEF ReceiveExpired
    <3> QED BY Zenon, <2>1, <2>2, <3>1, ExpiredServed
  <2>3. CASE ~Queued(t)
    <3>1. Returned(t, "user") /\ pq' = pq
      BY <1>5, <2>3 DEF ReceiveExpired
    <3> QED BY Zenon, <1>0, <2>1, <2>3, <3>1, ReturnedServed
  <2> QED BY <2>2, <2>3
<1> QED BY <1>1, <1>2, <1>3, <1>4, <1>5

\* sys_event_queue_destroy awakes all waiters, or gives up for one that is saved.
LEMMA DestroyServed ==
    ASSUME ServedInv, NEW t \in Threads, NEW force \in BOOLEAN, QueueDestroy(t, force)
    PROVE  ServedInv' /\ (QueueInv => QueueInv')
<1> USE DEF ServedInv
<1>1. /\ pc[t] \in {"user", "redo_d"}
      /\ UNCHANGED <<events, arg, got, sending, calls, accepted, taken>>
  BY DEF QueueDestroy, sendVars
<1>2. CASE \E i \in DOMAIN pq : Repeating(pq[i])
  <2>1. Goto(t, "again_d") /\ UNCHANGED <<pq, canceled, st>>
    BY <1>2 DEF QueueDestroy, threadVars
  <2> QED BY Zenon, <1>1, <2>1, PlacesOf, QuietServed DEF TypeInv
<1>3. CASE ~\E i \in DOMAIN pq : Repeating(pq[i])
  <2>1. /\ pc' = [pc EXCEPT ![t] = "user"] /\ pq' = <<>>
        /\ canceled' = [u \in Threads |-> canceled[u] \/ Queued(u)]
        /\ Awake({u \in Threads : Queued(u)})
    BY <1>3 DEF QueueDestroy, Goto
  <2>2. /\ pc' \in [Threads -> Places] /\ pc'[t] = "user" /\ \A u \in Threads \ {t} : pc'[u] = pc[u]
        /\ canceled' \in [Threads -> BOOLEAN] /\ \A u \in Threads : canceled'[u] <=> canceled[u] \/ Queued(u)
        /\ pq' \in Seq(Threads)
    <3>1. /\ pc' \in [Threads -> Places] /\ pc'[t] = "user" /\ \A u \in Threads \ {t} : pc'[u] = pc[u]
          /\ pq' \in Seq(Threads)
      BY <2>1 DEF TypeInv, Places
    <3>2. \A u \in Threads : canceled'[u] = (canceled[u] \/ Queued(u))
      BY Zenon, <2>1
    <3>3. canceled' \in [Threads -> BOOLEAN]
      BY Zenon, <2>1
    <3> QED BY Zenon, <3>1, <3>2, <3>3
  <2>3. /\ st' \in [Threads -> Status]
        /\ \A u \in Threads : /\ Queued(u) => st'[u] # "sleep"
                              /\ st'[u] = "sleep" => st[u] = "sleep"
    BY <2>1 DEF TypeInv, Awake, Status
  <2>4. \A u : ~Queued(u)'
    BY <2>1 DEF Queued, InQueue
  <2>5. \A u \in Threads : Queued(u) => pc[u] # "again_r"
    BY <1>3 DEF Queued, InQueue, Repeating
  <2>6. "user" \notin Loop /\ "user" \notin {"again_r", "redo_r", "resched", "expired"}
    BY DEF Loop
  <2>7. TypeInv'
    BY Zenon, <1>1, <2>2, <2>3 DEF TypeInv
  <2>8. WaitInv'
    BY Zenon, <1>1, <2>2, <2>3, <2>4, <2>5, <2>6 DEF WaitInv
  <2>9. FutureSleepers' \subseteq FutureSleepers
    BY Zenon, <2>2, <2>3, <2>6 DEF FutureSleepers
  <2>10. EmptyInv'
    BY <1>1, <2>1, <2>9 DEF EmptyInv
  <2>11. ASSUME QueueInv PROVE QueueInv'
    <3>1. \A j, k \in DOMAIN pq' : pq'[j] = pq'[k] => j = k
      BY <2>1
    <3>2. \A u \in Threads : Queued(u) => u # t /\ pc'[u] \in Loop /\ got[u] = 0
      <4>1. pc[t] \notin Loop \cup {"again_r"}
        BY <1>1, PlacesOf
      <4> QED BY <2>2, <2>5, <2>11, <4>1 DEF QueueInv
    <3>3. pc[t] \notin Loop
      BY <1>1, PlacesOf
    <3>4. \A u \in Threads : pc'[u] \notin Loop => got'[u] = 0 /\ ~canceled'[u]
      BY Zenon, <1>1, <2>2, <2>11, <3>2, <3>3 DEF QueueInv
    <3>5. \A u \in Threads : pc'[u] \in {"resched", "expired"} => arg'[u] # 0
      BY Zenon, <1>1, <2>2, <2>6, <2>11 DEF QueueInv
    <3>6. \A u \in Threads : canceled'[u] => got'[u] = 0
      BY Zenon, <1>1, <2>2, <2>11, <3>2 DEF QueueInv
    <3> QED BY Zenon, <2>4, <3>1, <3>4, <3>5, <3>6 DEF QueueInv
  <2> QED BY <2>7, <2>8, <2>10, <2>11
<1> QED BY <1>2, <1>3

------------------------------------------------------------------------------
\* The steps of senders, and savestates

\* The call of sys_event_port_send.
LEMMA Sending ==
    ASSUME TypeInv, NEW t \in Threads, NEW e \in Calls, SendCall(t, e)
    PROVE  /\ pc[t] \in {"user", "redo_p"} /\ FutureSleepers = {}
           /\ calls' \in 0..MaxSends
<1>1. pc[t] \in {"user", "redo_p"} /\ MayEnter(t)
  BY DEF SendCall
<1>2. FutureSleepers = {}
  BY <1>1, NoSleepers
<1>3. calls' \in 0..MaxSends
  BY QueueAssumption DEF SendCall, TypeInv, Calls
<1> QED BY <1>1, <1>2, <1>3

\* The event is stored in the queue, or refused.
LEMMA SendSaveServed ==
    ASSUME ServedInv, NEW t \in Threads, NEW e \in Calls, SendSave(t, e)
    PROVE  ServedInv' /\ (QueueInv => QueueInv')
<1> USE DEF ServedInv
<1>1. /\ pc[t] \in {"user", "redo_p"} /\ FutureSleepers = {} /\ calls' \in 0..MaxSends
  BY Sending DEF SendSave, SendCall, TypeInv
<1>2. /\ Goto(t, "user") /\ sending' = [sending EXCEPT ![t] = 0]
      /\ UNCHANGED <<pq, arg, got, canceled, taken, st>>
  BY DEF SendSave, recvVars, threadVars
<1>3. /\ events' \in Seq(Calls) /\ accepted' \subseteq Calls
      /\ pq # <<>> => events' = events
  <2>1. /\ \/ events' = Append(events, e) /\ accepted' = accepted \cup {e}
           \/ UNCHANGED <<events, accepted>>
        /\ pq # <<>> => events' = events
    BY DEF SendSave, NoReceiver
  <2>2. Append(events, e) \in Seq(Calls) /\ events \in Seq(Calls)
    BY DEF TypeInv
  <2> QED BY Zenon, <2>1, <2>2 DEF TypeInv
<1>4. /\ pc' \in [Threads -> Places] /\ WaitInv' /\ FutureSleepers' \subseteq FutureSleepers
      /\ QueueInv => QueueInv'
  BY Zenon, <1>1, <1>2, PlacesOf, QuietMove
<1>5. sending' \in [Threads -> 0..MaxSends]
  BY <1>2, QueueAssumption DEF TypeInv
<1>6. TypeInv'
  BY Zenon, <1>1, <1>2, <1>3, <1>4, <1>5 DEF TypeInv
<1>7. EmptyInv'
  BY <1>1, <1>2, <1>3, <1>4 DEF EmptyInv
<1> QED BY <1>4, <1>6, <1>7

\* The event is stored in the registers of the receiver schedule() picks, or the
\* call gives up because this one is saved.
LEMMA SendDirectServed ==
    ASSUME ServedInv, NEW t \in Threads, NEW e \in Calls, SendDirect(t, e)
    PROVE  ServedInv' /\ (QueueInv => QueueInv')
<1> USE DEF ServedInv
<1>1. /\ pc[t] \in {"user", "redo_p"} /\ FutureSleepers = {} /\ calls' \in 0..MaxSends
  BY Sending DEF SendDirect, SendCall, TypeInv
<1>2. PICK i \in 1..Len(pq), u \in Threads :
         i = Schedule(pq) /\ u = pq[i] /\ pq \in Seq(Threads) /\ pq # <<>> /\ Queued(u)
  <2>1. pq \in Seq(Threads) /\ pq # <<>>
    BY DEF SendDirect, NoReceiver, TypeInv
  <2>2. Schedule(pq) \in 1..Len(pq)
    BY <2>1, ScheduleInDomain, QueueAssumption
  <2>3. \A i \in 1..Len(pq) : pq[i] \in Threads /\ Queued(pq[i])
    BY <2>1 DEF Queued, InQueue
  <2> QED BY Zenon, <2>1, <2>2, <2>3
<1>3. /\ sending' \in [Threads -> 0..MaxSends]
      /\ UNCHANGED <<events, arg, canceled, taken>>
  <2>1. /\ \E x \in {0, e} : sending' = [sending EXCEPT ![t] = x]
        /\ UNCHANGED <<events, arg, canceled, taken>>
    BY Zenon DEF SendDirect
  <2>2. {0, e} \subseteq 0..MaxSends
    BY QueueAssumption DEF Calls
  <2> QED BY <2>1, <2>2 DEF TypeInv
<1>4. CASE Repeating(u)
  <2>1. Goto(t, "again_p") /\ UNCHANGED <<pq, got, accepted, st>>
    BY <1>2, <1>4 DEF SendDirect, threadVars
  <2> QED BY Zenon, <1>1, <1>3, <2>1, PlacesOf, QuietServed DEF TypeInv
<1>5. CASE ~Repeating(u)
  <2>1. /\ got' = [got EXCEPT ![u] = e] /\ pq' = Unlink(pq, i) /\ Awake({u})
        /\ accepted' = accepted \cup {e}
        /\ Goto(t, IF Prio[u] < Prio[t] THEN "notified" ELSE "user")
    BY <1>2, <1>5 DEF SendDirect
  <2>2. PICK x \in {"notified", "user"} : Goto(t, x)
    BY <2>1
  <2>3. /\ pc' \in [Threads -> Places] /\ pc'[t] = x /\ \A v \in Threads \ {t} : pc'[v] = pc[v]
        /\ x \notin Loop /\ x \notin {"again_r", "redo_r", "resched", "expired"}
    BY <2>2 DEF TypeInv, Goto, Places, Loop
  <2>4. /\ got' \in [Threads -> 0..MaxSends] /\ got'[u] = e /\ e # 0
        /\ \A v \in Threads \ {u} : got'[v] = got[v]
        /\ accepted' \subseteq Calls
    <3>1. e \in 0..MaxSends /\ e # 0
      BY QueueAssumption DEF Calls
    <3> QED BY <1>2, <2>1, <3>1 DEF TypeInv
  <2>5. /\ st' \in [Threads -> Status] /\ st'[u] # "sleep" /\ \A v \in Threads \ {u} : st'[v] = st[v]
    BY <1>2, <2>1 DEF TypeInv, Awake, Status
  <2>6. /\ pq' \in Seq(Threads)
        /\ \A v : (Queued(v) /\ v # u => Queued(v)') /\ (Queued(v)' => Queued(v))
    BY <1>2, <2>1, UnlinkProperties, UnlinkMembers DEF Queued
  <2>7. TypeInv'
    BY Zenon, <1>1, <1>3, <2>3, <2>4, <2>5, <2>6 DEF TypeInv
  <2>8. WaitInv'
    <3>1. \A v \in Threads : pc'[v] = "again_r" => Queued(v)'
      BY Zenon, <1>5, <2>3, <2>6 DEF WaitInv, Repeating
    <3>2. ASSUME NEW v \in Threads, pc'[v] \in Loop, ~Queued(v)'
          PROVE  st'[v] # "sleep" /\ (canceled'[v] \/ got'[v] # 0)
      <4>1. CASE v = u
        BY Zenon, <2>4, <2>5, <4>1
      <4>2. CASE v # u
        BY Zenon, <1>3, <2>3, <2>4, <2>5, <2>6, <3>2, <4>2 DEF WaitInv
      <4> QED BY <4>1, <4>2
    <3> QED BY <3>1, <3>2 DEF WaitInv
  <2>9. EmptyInv'
    BY <1>2, <1>3 DEF EmptyInv
  <2>10. ASSUME QueueInv PROVE QueueInv'
    <3>1. ~Queued(u)' /\ \A j, k \in DOMAIN pq' : pq'[j] = pq'[k] => j = k
      <4>1. \A j, k \in DOMAIN pq : pq[j] = pq[k] => j = k
        BY <2>10 DEF QueueInv
      <4>2. /\ ~InQueue(Unlink(pq, i), pq[i])
            /\ \A j, k \in DOMAIN Unlink(pq, i) : Unlink(pq, i)[j] = Unlink(pq, i)[k] => j = k
        BY <1>2, <4>1, UnlinkOnce
      <4> QED BY Zenon, <1>2, <2>1, <4>2 DEF Queued
    <3>2. pc[t] \notin Loop \cup {"again_r"} /\ pc[t] \notin Loop
      BY <1>1, PlacesOf
    <3>3. /\ \A v \in Threads : Queued(v) => v # t
          /\ pc[u] \in Loop /\ ~canceled[u]
      BY <1>2, <1>5, <2>10, <3>2 DEF QueueInv, Repeating
    <3>4. \A v \in Threads : Queued(v)' => v # u /\ v # t /\ Queued(v)
      BY <2>6, <3>1, <3>3 DEF Queued
    <3>5. \A v \in Threads : pc'[v] \notin Loop => got'[v] = 0 /\ ~canceled'[v]
      <4>1. u # t
        BY <1>2, <3>3
      <4>2. \A v \in Threads : pc'[v] \notin Loop => v # u /\ pc[v] \notin Loop
        BY Zenon, <2>3, <3>2, <3>3, <4>1
      <4> QED BY Zenon, <1>3, <2>4, <2>10, <4>2 DEF QueueInv
    <3>6. \A v \in Threads : pc'[v] \in {"resched", "expired"} => arg'[v] # 0
      BY Zenon, <1>3, <2>3, <2>10 DEF QueueInv
    <3>7. \A v \in Threads : canceled'[v] => got'[v] = 0
      BY Zenon, <1>3, <2>4, <2>10, <3>3 DEF QueueInv
    <3>8. \A v \in Threads : Queued(v)' =>
            /\ pc'[v] \in Loop \cup {"again_r"}
            /\ got'[v] = 0 /\ ~canceled'[v]
            /\ pc'[v] = "waiting" => st'[v] = "sleep"
      BY Zenon, <1>3, <2>3, <2>4, <2>5, <2>10, <3>4 DEF QueueInv
    <3> QED BY Zenon, <3>1, <3>5, <3>6, <3>7, <3>8 DEF QueueInv
  <2> QED BY <2>7, <2>8, <2>9, <2>10
<1> QED BY <1>4, <1>5

\* Only the threads' places, the flag stop and the queue's list of waiters change
\* in a reload: the receivers that were saved in their sleep will sleep again.
LEMMA ReloadServed ==
    ASSUME ServedInv, Reload
    PROVE  ServedInv' /\ (QueueInv => QueueInv')
<1> USE DEF ServedInv
<1>1. /\ pq' = <<>> /\ UNCHANGED <<events, arg, got, canceled, sending, calls, accepted, taken>>
      /\ \A t \in Threads : pc[t] \in {"halted", "again_r", "again_p", "again_d",
                                       "redo_r", "redo_p", "redo_d"}
  BY DEF Reload, recvVars, sendVars
<1>2. /\ pc' \in [Threads -> {"user", "redo_r", "redo_p", "redo_d"}]
      /\ st' \in [Threads -> {"sleep", "onproc"}]
      /\ \A t \in Threads : st'[t] = "sleep" => pc[t] = "again_r"
  <2>1. pc' = [t \in Threads |-> CASE pc[t] \in {"again_r", "redo_r"} -> "redo_r"
                                  [] pc[t] \in {"again_p", "redo_p"} -> "redo_p"
                                  [] pc[t] \in {"again_d", "redo_d"} -> "redo_d"
                                  [] OTHER -> "user"]
    BY DEF Reload
  <2>2. st' = [t \in Threads |->
                 IF pc[t] = "again_r" /\ st[t] = "sleep" THEN "sleep" ELSE "onproc"]
    BY DEF Reload
  <2>3. pc' \in [Threads -> {"user", "redo_r", "redo_p", "redo_d"}]
    BY <2>1
  <2> QED BY <2>2, <2>3
<1>3. /\ \A t \in Threads : pc'[t] \notin Loop /\ pc'[t] # "again_r" /\ pc[t] \notin Loop
      /\ pc' \in [Threads -> Places] /\ st' \in [Threads -> Status]
      /\ \A t \in Threads : pc'[t] \notin {"resched", "expired"}
  BY <1>1, <1>2 DEF Loop, Places, Status
<1>4. \A t : ~Queued(t)'
  BY <1>1 DEF Queued, InQueue
<1>5. TypeInv'
  <2>1. pq' \in Seq(Threads)
    BY <1>1
  <2> QED BY Zenon, <1>1, <1>3, <2>1 DEF TypeInv
<1>6. WaitInv'
  BY Zenon, <1>3 DEF WaitInv
<1>7. EmptyInv'
  <2>1. ASSUME FutureSleepers' # {} PROVE pq # <<>>
    <3>1. PICK t \in Threads : st'[t] = "sleep"
      BY <2>1 DEF FutureSleepers
    <3>2. Queued(t)
      BY <1>2, <3>1 DEF WaitInv
    <3> QED BY <3>2 DEF Queued, InQueue
  <2> QED BY <1>1, <2>1 DEF EmptyInv
<1>8. ASSUME QueueInv PROVE QueueInv'
  <2>1. \A i, j \in DOMAIN pq' : pq'[i] = pq'[j] => i = j
    BY <1>1
  <2> QED BY Zenon, <1>1, <1>3, <1>4, <1>8, <2>1 DEF QueueInv
<1> QED BY <1>5, <1>6, <1>7, <1>8

\* The steps that neither touch the queue nor the receivers' registers.
LEMMA OthersServed ==
    ASSUME ServedInv, NEW t \in Threads,
           \/ SendWaited(t) \/ Halt(t) \/ RepeatFails(t)
           \/ PortConnect(t) \/ PortDisconnect(t) \/ PortDestroy(t)
    PROVE  ServedInv' /\ (QueueInv => QueueInv')
<1>1. UNCHANGED <<pq, st, got, canceled, arg, events, taken, calls, accepted>>
  BY DEF SendWaited, Halt, RepeatFails, PortConnect, PortDisconnect, PortDestroy,
         queueVars, recvVars, sendVars, threadVars
<1>2. CASE SendWaited(t) \/ Halt(t) \/ RepeatFails(t)
  <2>1. PICK x \in {"user", "halted", "again_p"} : Goto(t, x)
    BY <1>2 DEF SendWaited, Halt, RepeatFails
  <2>2. pc[t] \in {"notified", "user", "redo_r", "redo_d"}
    BY <1>2 DEF SendWaited, Halt, RepeatFails
  <2>3. sending' \in [Threads -> 0..MaxSends]
    <3>1. sending' = sending \/ sending' = [sending EXCEPT ![t] = 0]
      BY <1>2 DEF SendWaited, Halt, RepeatFails, sendVars, ServedInv, TypeInv
    <3>2. sending \in [Threads -> 0..MaxSends] /\ 0 \in 0..MaxSends
      BY QueueAssumption DEF ServedInv, TypeInv
    <3> QED BY <3>1, <3>2
  <2>4. x \in Places \ (Loop \cup {"again_r", "redo_r"}) /\ pc[t] \notin Loop \cup {"again_r"}
    BY <2>1, <2>2, PlacesOf
  <2> QED BY Zenon, <1>1, <2>1, <2>3, <2>4, QuietServed DEF ServedInv, TypeInv
<1>3. CASE PortConnect(t) \/ PortDisconnect(t) \/ PortDestroy(t)
  <2>1. UNCHANGED <<pc, sending>>
    BY <1>3 DEF PortConnect, PortDisconnect, PortDestroy, sendVars
  <2>2. (WaitInv => WaitInv') /\ FutureSleepers' = FutureSleepers /\ (QueueInv => QueueInv')
    BY Zenon, <1>1, <2>1, SameWaits
  <2> QED BY <1>1, <2>1, <2>2 DEF ServedInv, TypeInv, EmptyInv
<1> QED BY <1>2, <1>3

\* Every step keeps the receivers served.
LEMMA NextServed ==
    ASSUME ServedInv, [Next]_vars
    PROVE  ServedInv' /\ (QueueInv /\ PlainStops => QueueInv')
<1>1. CASE UNCHANGED vars
  <2>1. UNCHANGED <<pq, st, got, canceled, arg, events, taken, calls, accepted, pc, sending>>
    BY <1>1 DEF vars, queueVars, recvVars, sendVars, threadVars
  <2>2. (WaitInv => WaitInv') /\ FutureSleepers' = FutureSleepers /\ (QueueInv => QueueInv')
    BY Zenon, <2>1, SameWaits
  <2> QED BY <2>1, <2>2 DEF ServedInv, TypeInv, EmptyInv
<1>2. ASSUME NEW t \in Threads, Receive(t) PROVE ServedInv' /\ (QueueInv /\ PlainStops => QueueInv')
  <2>1. CASE \E timeout \in Timeouts : ReceiveSleep(t, timeout)
    BY Zenon, <2>1, ReceiveSleepServed
  <2>2. CASE \/ \E timeout : ReceiveAtOnce(t, timeout)
             \/ \E n \in 1..Size : TryReceive(t, n)
             \/ Drain(t)
    BY Zenon, <2>2, FromQueueServed
  <2>3. CASE \/ ReceiveSignaled(t) \/ ReceiveStopped(t) \/ ReceiveTimeout(t)
             \/ ReceiveRescheduled(t) \/ ReceiveExpired(t)
    BY Zenon, <2>3, ReceiveLoopServed
  <2> QED BY Zenon, <1>2, <2>1, <2>2, <2>3 DEF Receive
<1>3. ASSUME NEW t \in Threads, Send(t) PROVE ServedInv' /\ (QueueInv => QueueInv')
  BY Zenon, <1>3, SendSaveServed, SendDirectServed, OthersServed DEF Send
<1>4. ASSUME NEW t \in Threads, Halt(t) \/ RepeatFails(t) PROVE ServedInv' /\ (QueueInv => QueueInv')
  BY Zenon, <1>4, OthersServed
<1>5. ASSUME NEW t \in Threads, NEW force \in BOOLEAN, QueueDestroy(t, force)
      PROVE  ServedInv' /\ (QueueInv => QueueInv')
  BY Zenon, <1>5, DestroyServed
<1>6. CASE Stop
  <2>1. /\ UNCHANGED <<pq, st, got, canceled, arg, events, taken, calls, accepted, pc, sending>>
    BY <1>6 DEF Stop, queueVars, recvVars, sendVars, threadVars
  <2>2. (WaitInv => WaitInv') /\ FutureSleepers' = FutureSleepers /\ (QueueInv => QueueInv')
    BY Zenon, <2>1, SameWaits
  <2> QED BY <2>1, <2>2 DEF ServedInv, TypeInv, EmptyInv
<1>7. CASE Reload
  BY Zenon, <1>7, ReloadServed
<1> QED BY Zenon, <1>1, <1>2, <1>3, <1>4, <1>5, <1>6, <1>7 DEF Next

\* A queue that has just been created satisfies the invariants.
LEMMA InitServed == Init => ServedInv /\ EventInv
<1> SUFFICES ASSUME Init PROVE ServedInv /\ EventInv
  OBVIOUS
<1> USE DEF Init, ThreadsInit
<1>1. TypeInv
  BY QueueAssumption DEF TypeInv, Status, Places
<1>2. \A t : ~Queued(t)
  BY DEF Queued, InQueue
<1>3. WaitInv
  BY <1>2 DEF WaitInv, Loop
<1>4. EmptyInv
  BY DEF EmptyInv
<1>5. QueueInv
  BY <1>2 DEF QueueInv
<1>6. KeptInv
  BY DEF KeptInv, QueueOnce, HandOnce, TakenOnce, QueueSent, HandSent, NotLost
<1>7. SendInv
  BY DEF SendInv, SendsAgain
<1> QED BY <1>1, <1>3, <1>4, <1>5, <1>6, <1>7 DEF ServedInv, EventInv

\* sys_event_queue_receive: no event waits in the queue while a receiver sleeps on
\* it, or will after a reload, and a receiver that the sender or sys_event_queue_destroy
\* unlinked is awake and has its answer.  It holds whenever a savestate is requested.
THEOREM ReceiversAreServed == Spec => []ReceiversServed
<1>1. ServedInv => ReceiversServed
  BY DEF ServedInv, WaitInv, EmptyInv, ReceiversServed, Answered, Loop
<1>2. Init => ServedInv
  BY InitServed
<1>3. ServedInv /\ [Next]_vars => ServedInv'
  BY NextServed
<1> QED BY <1>1, <1>2, <1>3, PTL DEF Spec

------------------------------------------------------------------------------
\* Where the events are

\* No event moves.
LEMMA KeptSame ==
    ASSUME KeptInv, UNCHANGED <<events, got, taken, accepted>>
    PROVE  KeptInv'
BY Zenon DEF KeptInv, QueueOnce, HandOnce, TakenOnce, QueueSent, HandSent, NotLost

\* The first n events are taken from the queue.
LEMMA KeptTake ==
    ASSUME TypeInv, KeptInv, NEW n \in 0..Len(events), Take(First(n)),
           events' \in Seq(Calls), Len(events') = Len(events) - n,
           \A i \in 1..Len(events) - n : events'[i] = events[i + n],
           UNCHANGED <<got, accepted>>
    PROVE  KeptInv'
<1> USE DEF KeptInv
<1> DEFINE S == First(n)
<1>0. \A e : e \in S <=> \E i \in 1..n : events[i] = e
  BY DEF First
<1> HIDE DEF S
<1>1. /\ Len(events) \in Nat /\ n \in Nat /\ DOMAIN events = 1..Len(events)
      /\ DOMAIN events' = 1..Len(events) - n
      /\ \A i \in DOMAIN events : events[i] \in Calls
  BY DEF TypeInv
<1>2. \A e \in Calls : taken'[e] = IF e \in S THEN taken[e] + 1 ELSE taken[e]
  BY Taking DEF S
<1>3. ASSUME NEW i \in DOMAIN events'
      PROVE  i + n \in DOMAIN events /\ events'[i] = events[i + n] /\ i + n \notin 1..n
  BY <1>1
<1>4. \A i \in DOMAIN events : events[i] \in S <=> i \in 1..n
  <2>1. 1..n \subseteq DOMAIN events
    BY <1>1
  <2>2. ASSUME NEW i \in DOMAIN events, events[i] \in S PROVE i \in 1..n
    <3>1. PICK j \in 1..n : events[j] = events[i]
      BY Zenon, <1>0, <2>2
    <3>2. j = i
      BY <2>1, <3>1 DEF QueueOnce
    <3> QED BY <3>2
  <2> QED BY Zenon, <1>0, <2>2
<1>5. ASSUME NEW e \in S PROVE e \in Calls /\ e \in accepted /\ taken[e] = 0 /\ taken'[e] = 1
                               /\ \A t \in Threads : got[t] # e
  <2>1. PICK i \in 1..n : events[i] = e
    BY Zenon, <1>0
  <2>2. i \in DOMAIN events
    BY <1>1
  <2>3. e \in Calls /\ e \in accepted /\ taken[e] = 0 /\ \A t \in Threads : got[t] # e
    BY Zenon, <1>1, <2>1, <2>2 DEF QueueSent
  <2> QED BY <1>2, <2>3
<1>6. \A e \in Calls \ S : taken'[e] = taken[e]
  BY <1>2
<1>7. QueueOnce'
  <2>1. ASSUME NEW i \in DOMAIN events', NEW j \in DOMAIN events', events'[i] = events'[j]
        PROVE  i = j
    <3>1. i + n = j + n
      BY <1>3, <2>1 DEF QueueOnce
    <3> QED BY <1>1, <3>1
  <2> QED BY Zenon, <2>1 DEF QueueOnce
<1>8. TakenOnce'
  <2>1. ASSUME NEW e \in Calls PROVE taken'[e] \in {0, 1} /\ (taken'[e] = 1 => e \in accepted')
    <3>1. CASE e \in S
      BY <1>5, <3>1
    <3>2. CASE e \notin S
      BY Zenon, <1>6, <3>2 DEF TakenOnce
    <3> QED BY <3>1, <3>2
  <2> QED BY Zenon, <2>1 DEF TakenOnce
<1>9. ASSUME NEW i \in DOMAIN events'
      PROVE  /\ events'[i] \in accepted' /\ taken'[events'[i]] = 0
             /\ \A t \in Threads : got'[t] # events'[i]
  <2>1. events[i + n] \in Calls \ S
    BY <1>1, <1>3, <1>4
  <2> QED BY <1>3, <1>6, <2>1 DEF QueueSent
<1>10. ASSUME NEW t \in Threads, got'[t] # 0 PROVE got'[t] \in accepted' /\ taken'[got'[t]] = 0
  <2>1. got[t] \notin S
    BY Zenon, <1>5
  <2>2. got[t] \in Calls
    BY <1>10 DEF TypeInv, Calls
  <2> QED BY Zenon, <1>6, <1>10, <2>1, <2>2 DEF HandSent
<1>11. ASSUME NEW e \in accepted'
       PROVE  \/ taken'[e] = 1
              \/ \E i \in DOMAIN events' : events'[i] = e
              \/ \E t \in Threads : got'[t] = e
  <2>1. e \in Calls
    BY DEF TypeInv
  <2>2. CASE e \in S
    BY <1>5, <2>2
  <2>3. CASE taken[e] = 1 /\ e \notin S
    BY <1>6, <2>1, <2>3
  <2>4. ASSUME NEW i \in DOMAIN events, events[i] = e, e \notin S
        PROVE  \E j \in DOMAIN events' : events'[j] = e
    <3>1. i - n \in DOMAIN events' /\ (i - n) + n = i
      BY <1>1, <1>4, <2>4
    <3> QED BY <1>3, <2>4, <3>1
  <2> QED BY Zenon, <2>2, <2>3, <2>4 DEF NotLost
<1>12. HandOnce'
  BY Zenon DEF HandOnce
<1>13. QueueSent' /\ HandSent' /\ NotLost'
  BY Zenon, <1>9, <1>10, <1>11 DEF QueueSent, HandSent, NotLost
<1> QED BY <1>7, <1>8, <1>12, <1>13

\* A receive returns with the event in its registers, or without one.
LEMMA KeptReturn ==
    ASSUME ServedInv, QueueInv, KeptInv, NEW t \in Threads, NEW x,
           pc[t] \in Loop, ~Queued(t), Returned(t, x), UNCHANGED <<events, accepted>>
    PROVE  KeptInv'
<1> USE DEF KeptInv
<1>1. /\ got' \in [Threads -> 0..MaxSends] /\ got'[t] = 0 /\ \A u \in Threads \ {t} : got'[u] = got[u]
      /\ got \in [Threads -> 0..MaxSends]
  BY QueueAssumption DEF ServedInv, TypeInv, Returned
<1>2. CASE canceled[t]
  <2>1. got[t] = 0 /\ taken' = taken
    BY <1>2 DEF QueueInv, Returned
  <2>2. got' = got
    BY <1>1, <2>1
  <2> QED BY Zenon, <2>1, <2>2, KeptSame
<1>3. CASE ~canceled[t]
  <2> DEFINE g == got[t]
  <2>1. g \in Calls /\ Take({g})
    <3>1. g # 0 /\ Take({g})
      BY <1>3 DEF Returned, ServedInv, WaitInv
    <3> QED BY <1>1, <3>1 DEF Calls
  <2>2. g \in accepted /\ taken[g] = 0 /\ g # 0
    <3>1. g # 0
      BY <2>1 DEF Calls
    <3> QED BY Zenon, <3>1 DEF HandSent
  <2>3. taken'[g] = 1 /\ \A e \in Calls \ {g} : taken'[e] = taken[e]
    <3>1. \A e \in Calls : taken'[e] = IF e \in {g} THEN taken[e] + 1 ELSE taken[e]
      BY Zenon, <2>1, Taking DEF ServedInv
    <3> HIDE DEF g
    <3> QED BY <2>1, <2>2, <3>1
  <2>4. \A u \in Threads : u # t => got[u] # g
    BY Zenon, <2>2 DEF HandOnce
  <2>5. \A i \in DOMAIN events : events[i] \in Calls \ {g}
    <3>1. \A i \in DOMAIN events : events[i] \in Calls
      BY DEF ServedInv, TypeInv
    <3> QED BY Zenon, <3>1 DEF QueueSent
  <2>6. \A u \in Threads : got'[u] # 0 => u # t /\ got'[u] = got[u] /\ got[u] \in Calls \ {g}
    BY <1>1, <2>4 DEF Calls
  <2>7. accepted \subseteq Calls
    BY DEF ServedInv, TypeInv
  <2>8. \A e \in accepted : e # g => \A u \in Threads : got[u] = e => got'[u] = e
    BY Zenon, <1>1
  <2> HIDE DEF g
  <2>9. TakenOnce'
    <3>1. taken'[g] \in {0, 1} /\ g \in accepted'
      BY <2>2, <2>3
    <3> QED BY Zenon, <2>3, <3>1 DEF TakenOnce
  <2>10. HandOnce'
    BY Zenon, <2>6 DEF HandOnce
  <2>11. QueueSent'
    <3>1. \A i \in DOMAIN events : events[i] # 0
      BY <2>5 DEF Calls
    <3> QED BY <2>3, <2>5, <2>6, <3>1 DEF QueueSent
  <2>12. HandSent'
    BY Zenon, <2>3, <2>6 DEF HandSent
  <2>13. ASSUME NEW e \in accepted'
         PROVE  \/ taken'[e] = 1
                \/ \E i \in DOMAIN events' : events'[i] = e
                \/ \E u \in Threads : got'[u] = e
    <3>1. CASE e = g
      BY <2>3, <3>1
    <3>2. CASE e # g
      BY Zenon, <2>3, <2>7, <2>8, <3>2 DEF NotLost
    <3> QED BY <3>1, <3>2
  <2>14. QueueOnce' /\ NotLost'
    BY Zenon, <2>13 DEF QueueOnce, NotLost
  <2> QED BY <2>9, <2>10, <2>11, <2>12, <2>14
<1> QED BY <1>2, <1>3

\* An event that no call has sent is nowhere.
LEMMA NewEvent ==
    ASSUME TypeInv, KeptInv, NEW e \in Calls, e \notin accepted
    PROVE  /\ taken[e] = 0 /\ e # 0
           /\ \A i \in DOMAIN events : events[i] # e
           /\ \A t \in Threads : got[t] # e
<1>1. taken[e] = 0 /\ e # 0
  BY DEF KeptInv, TakenOnce, Calls
<1> QED BY Zenon, <1>1 DEF KeptInv, QueueSent, HandSent

\* It is appended to the queue.
LEMMA KeptAppend ==
    ASSUME TypeInv, KeptInv, NEW e \in Calls, e \notin accepted,
           events' = Append(events, e), accepted' = accepted \cup {e}, UNCHANGED <<got, taken>>
    PROVE  KeptInv'
<1> USE DEF KeptInv
<1> DEFINE n == Len(events) + 1
<1>1. /\ DOMAIN events' = DOMAIN events \cup {n} /\ n \notin DOMAIN events
      /\ events'[n] = e /\ \A i \in DOMAIN events : events'[i] = events[i]
  BY DEF TypeInv
<1> HIDE DEF n
<1>2. /\ taken[e] = 0 /\ e # 0 /\ \A i \in DOMAIN events : events[i] # e
      /\ \A t \in Threads : got[t] # e
  BY Zenon, NewEvent
<1>3. QueueOnce'
  BY <1>1, <1>2 DEF QueueOnce
<1>4. QueueSent'
  BY <1>1, <1>2 DEF QueueSent
<1>5. NotLost'
  BY <1>1 DEF NotLost
<1>6. HandOnce' /\ TakenOnce' /\ HandSent'
  BY Zenon DEF HandOnce, TakenOnce, HandSent
<1> QED BY <1>3, <1>4, <1>5, <1>6

\* It is stored in the registers of a receiver that has no event.
LEMMA KeptHand ==
    ASSUME TypeInv, KeptInv, NEW e \in Calls, e \notin accepted, NEW u \in Threads, got[u] = 0,
           got' = [got EXCEPT ![u] = e], accepted' = accepted \cup {e}, UNCHANGED <<events, taken>>
    PROVE  KeptInv'
<1> USE DEF KeptInv
<1>1. got'[u] = e /\ \A t \in Threads \ {u} : got'[t] = got[t]
  BY DEF TypeInv
<1>2. /\ taken[e] = 0 /\ e # 0 /\ \A i \in DOMAIN events : events[i] # e
      /\ \A t \in Threads : got[t] # e
  BY Zenon, NewEvent
<1>3. HandOnce'
  BY <1>1, <1>2 DEF HandOnce
<1>4. QueueSent'
  BY <1>1, <1>2 DEF QueueSent
<1>5. HandSent'
  BY <1>1, <1>2 DEF HandSent
<1>6. ASSUME NEW x \in accepted'
      PROVE  \/ taken'[x] = 1
             \/ \E i \in DOMAIN events' : events'[i] = x
             \/ \E t \in Threads : got'[t] = x
  <2>1. CASE x = e
    BY <1>1, <2>1
  <2>2. CASE x # e
    <3>1. ASSUME NEW t \in Threads, got[t] = x PROVE got'[t] = x
      <4>1. got[t] # 0
        BY <2>2, <3>1 DEF TypeInv, Calls
      <4> QED BY Zenon, <1>1, <3>1, <4>1
    <3> QED BY Zenon, <2>2, <3>1 DEF NotLost
  <2> QED BY <2>1, <2>2
<1>7. NotLost' /\ QueueOnce' /\ TakenOnce'
  BY Zenon, <1>6 DEF NotLost, QueueOnce, TakenOnce
<1> QED BY <1>3, <1>4, <1>5, <1>7

------------------------------------------------------------------------------
\* Which calls have sent their event

\* No call sends, and none that will be repeated begins.
LEMMA SendSame ==
    ASSUME SendInv, UNCHANGED <<calls, accepted>>,
           \A t \in Threads : SendsAgain(t)' => SendsAgain(t) /\ sending'[t] = sending[t]
    PROVE  SendInv'
BY Zenon DEF SendInv

\* One thread moves to a place where it has no call to repeat.
LEMMA SendQuiet ==
    ASSUME TypeInv, SendInv, NEW t \in Threads, NEW x, x \notin {"again_p", "redo_p"}, Goto(t, x),
           UNCHANGED sendVars
    PROVE  SendInv'
<1>1. pc'[t] = x /\ \A u \in Threads \ {t} : pc'[u] = pc[u]
  BY DEF TypeInv, Goto
<1>2. \A u \in Threads : SendsAgain(u)' => SendsAgain(u)
  BY Zenon, <1>1 DEF SendsAgain
<1> QED BY Zenon, <1>2, SendSame DEF sendVars

\* A call of sys_event_port_send, repeated or not, has an event of its own.
LEMMA SendCalled ==
    ASSUME TypeInv, SendInv, NEW t \in Threads, NEW e \in Calls, SendCall(t, e)
    PROVE  /\ e \notin accepted /\ e <= calls' /\ calls <= calls'
           /\ calls \in Nat /\ calls' \in Nat /\ e \in Nat
           /\ \A u \in Threads \ {t} : SendsAgain(u) => sending[u] # e
<1>1. calls \in Nat /\ e \in Nat
  BY DEF TypeInv, Calls
<1>2. CASE pc[t] = "user" /\ e = calls + 1 /\ calls' = e
  <2>1. \A x \in accepted : x \in Nat /\ x <= calls
    BY DEF SendInv, TypeInv, Calls
  <2>2. \A u \in Threads : SendsAgain(u) => sending[u] \in Nat /\ sending[u] <= calls
    BY DEF SendInv, TypeInv, Calls
  <2> QED BY <1>1, <1>2, <2>1, <2>2
<1>3. CASE pc[t] = "redo_p" /\ e = sending[t] /\ calls' = calls
  <2>1. SendsAgain(t)
    BY <1>3 DEF SendsAgain
  <2>2. /\ e \notin accepted /\ e <= calls'
        /\ \A u \in Threads \ {t} : SendsAgain(u) => sending[u] # e
    BY Zenon, <1>3, <2>1 DEF SendInv
  <2>3. calls <= calls' /\ calls' \in Nat
    BY <1>1, <1>3
  <2> QED BY Zenon, <1>1, <2>2, <2>3
<1> QED BY <1>2, <1>3 DEF SendCall

\* The call ends; only one that will be repeated has not sent its event.
LEMMA SendEnds ==
    ASSUME TypeInv, SendInv, NEW t \in Threads, NEW e \in Calls, SendCall(t, e),
           NEW x \in {"user", "notified", "again_p"}, Goto(t, x),
           accepted' = accepted \/ accepted' = accepted \cup {e},
           x = "again_p" => accepted' = accepted /\ sending'[t] = e,
           \A u \in Threads \ {t} : sending'[u] = sending[u]
    PROVE  SendInv'
<1>1. /\ e \notin accepted /\ e <= calls' /\ calls <= calls'
      /\ calls \in Nat /\ calls' \in Nat /\ e \in Nat
      /\ \A u \in Threads \ {t} : SendsAgain(u) => sending[u] # e
  BY Zenon, SendCalled
<1>2. pc'[t] = x /\ \A u \in Threads \ {t} : pc'[u] = pc[u]
  BY DEF TypeInv, Goto
<1>3. SendsAgain(t)' => accepted' = accepted /\ sending'[t] = e
  BY <1>2 DEF SendsAgain
<1>4. \A u \in Threads \ {t} : SendsAgain(u)' => SendsAgain(u) /\ sending'[u] = sending[u]
  BY Zenon, <1>2 DEF SendsAgain
<1>5. \A y \in accepted' : y <= calls'
  <2>1. \A y \in accepted : y \in Nat /\ y <= calls
    BY DEF SendInv, TypeInv, Calls
  <2> QED BY <1>1, <2>1
<1>6. ASSUME NEW u \in Threads, SendsAgain(u)'
      PROVE  sending'[u] \in Calls \ accepted' /\ sending'[u] <= calls'
  <2>1. CASE u = t
    BY <1>1, <1>3, <1>6, <2>1
  <2>2. CASE u # t
    <3>1. sending'[u] \in Calls \ accepted /\ sending'[u] <= calls /\ sending'[u] # e
      BY Zenon, <1>1, <1>4, <1>6, <2>2 DEF SendInv
    <3>2. sending'[u] <= calls'
      BY <1>1, <3>1 DEF Calls
    <3>3. sending'[u] \in Calls \ accepted'
      BY <3>1
    <3> QED BY <3>2, <3>3
  <2> QED BY <2>1, <2>2
<1>7. ASSUME NEW u \in Threads, NEW v \in Threads, SendsAgain(u)', SendsAgain(v)', sending'[u] = sending'[v]
      PROVE  u = v
  BY Zenon, <1>1, <1>3, <1>4, <1>7 DEF SendInv
<1> QED BY Zenon, <1>5, <1>6, <1>7 DEF SendInv

------------------------------------------------------------------------------
\* The steps, once more, for the events

\* sys_event_queue_receive, tryreceive and drain neither lose nor copy an event.
LEMMA ReceiveKept ==
    ASSUME ServedInv, QueueInv, KeptInv, SendInv, PlainStops, NEW t \in Threads, Receive(t)
    PROVE  KeptInv' /\ SendInv'
<1> USE DEF ServedInv
<1>1. CASE \/ \E timeout : ReceiveAtOnce(t, timeout)
           \/ \E n \in 1..Size : TryReceive(t, n)
           \/ Drain(t)
  <2>1. PICK n \in 0..Len(events) :
              /\ Take(First(n))
              /\ events' \in Seq(Calls) /\ Len(events') = Len(events) - n
              /\ \A i \in 1..Len(events) - n : events'[i] = events[i + n]
    BY Zenon, <1>1, FromQueue
  <2>2. UNCHANGED <<got, sending, calls, accepted>> /\ (pc' = pc \/ Goto(t, "user"))
    BY <1>1 DEF ReceiveAtOnce, TryReceive, Drain, recvVars, sendVars
  <2>3. KeptInv'
    BY Zenon, <2>1, <2>2, KeptTake
  <2>4. CASE Goto(t, "user")
    BY <2>2, <2>3, <2>4, SendQuiet DEF sendVars
  <2>5. CASE pc' = pc
    BY <2>2, <2>3, <2>5, SendSame DEF SendsAgain
  <2> QED BY <2>2, <2>4, <2>5
<1>2. ASSUME NEW x \in Loop \cup {"again_r", "user"}, Goto(t, x),
             UNCHANGED <<events, got, taken, sendVars>>
      PROVE  KeptInv' /\ SendInv'
  <2>1. x \notin {"again_p", "redo_p"}
    BY DEF Loop
  <2>2. SendInv'
    BY Zenon, <1>2, <2>1, SendQuiet
  <2> QED BY Zenon, <1>2, <2>2, KeptSame DEF sendVars
<1>3. ASSUME pc[t] \in Loop, ~Queued(t), NEW x \in {"user", "halted"}, Returned(t, x),
             UNCHANGED <<events, sendVars>>
      PROVE  KeptInv' /\ SendInv'
  <2>1. x \notin {"again_p", "redo_p"} /\ Goto(t, x)
    BY <1>3 DEF Returned
  <2>2. SendInv'
    BY Zenon, <1>3, <2>1, SendQuiet
  <2>3. KeptInv'
    BY Zenon, <1>3, KeptReturn DEF ServedInv, sendVars
  <2> QED BY <2>2, <2>3
<1>4. {"waiting", "resched", "expired"} = Loop
  BY DEF Loop
<1> USE DEF queueVars, recvVars, threadVars
<1>5. CASE \E timeout \in Timeouts : ReceiveSleep(t, timeout)
  <2>1. Goto(t, "waiting") /\ UNCHANGED <<events, got, taken, sendVars>>
    BY <1>5 DEF ReceiveSleep
  <2> QED BY Zenon, <1>2, <1>4, <2>1
<1>6. CASE ReceiveSignaled(t)
  <2>1. /\ pc[t] = "waiting" /\ st[t] = "ready" /\ Returned(t, "user") /\ UNCHANGED <<events, sendVars>>
    BY <1>6 DEF ReceiveSignaled, Resume
  <2>2. ~Queued(t)
    BY <2>1 DEF QueueInv
  <2> QED BY Zenon, <1>3, <1>4, <2>1, <2>2
<1>7. CASE ReceiveStopped(t)
  <2>1. /\ pc[t] = "waiting" /\ UNCHANGED <<events, sendVars>>
        /\ \/ Goto(t, "again_r") /\ UNCHANGED <<got, taken>>
           \/ ~Queued(t) /\ Returned(t, "halted")
    BY <1>7 DEF ReceiveStopped
  <2> QED BY Zenon, <1>2, <1>3, <1>4, <2>1
<1>8. CASE ReceiveTimeout(t) \/ ReceiveRescheduled(t)
  <2>1. /\ UNCHANGED <<events, got, taken, sendVars>>
        /\ Goto(t, "resched") \/ Goto(t, "expired") \/ Goto(t, "waiting")
    BY <1>8 DEF ReceiveTimeout, ReceiveRescheduled
  <2> QED BY Zenon, <1>2, <1>4, <2>1
<1>9. CASE ReceiveExpired(t)
  <2>1. /\ pc[t] = "expired" /\ UNCHANGED <<events, sendVars>>
        /\ \/ Goto(t, "user") /\ UNCHANGED <<got, taken>>
           \/ ~Queued(t) /\ Returned(t, "user")
    BY <1>9 DEF ReceiveExpired
  <2> QED BY Zenon, <1>2, <1>3, <1>4, <2>1
<1> QED BY Zenon, <1>1, <1>5, <1>6, <1>7, <1>8, <1>9 DEF Receive

\* Neither does sys_event_port_send, with a receiver or without one.
LEMMA SendKept ==
    ASSUME ServedInv, QueueInv, KeptInv, SendInv, NEW t \in Threads, NEW e \in Calls,
           SendSave(t, e) \/ SendDirect(t, e)
    PROVE  KeptInv' /\ SendInv'
<1> USE DEF ServedInv
<1>1. SendCall(t, e) /\ e \notin accepted
  BY SendCalled DEF SendSave, SendDirect
<1>2. CASE SendSave(t, e)
  <2>1. /\ \/ events' = Append(events, e) /\ accepted' = accepted \cup {e}
           \/ UNCHANGED <<events, accepted>>
        /\ Goto(t, "user") /\ UNCHANGED <<got, taken>>
    BY <1>2 DEF SendSave, recvVars
  <2>2. \A u \in Threads \ {t} : sending'[u] = sending[u]
    BY <1>2 DEF SendSave, TypeInv
  <2>3. SendInv'
    <3>1. accepted' = accepted \/ accepted' = accepted \cup {e}
      BY <2>1
    <3> QED BY <1>1, <2>1, <2>2, <3>1, SendEnds
  <2>4. KeptInv'
    BY Zenon, <1>1, <2>1, KeptAppend, KeptSame
  <2> QED BY <2>3, <2>4
<1>3. CASE SendDirect(t, e)
  <2> DEFINE i == Schedule(pq)
             u == pq[i]
  <2>1. u \in Threads /\ Queued(u)
    <3>1. pq \in Seq(Threads) /\ pq # <<>>
      BY <1>3 DEF SendDirect, NoReceiver, TypeInv
    <3>2. i \in 1..Len(pq)
      BY <3>1, ScheduleInDomain, QueueAssumption
    <3> HIDE DEF i
    <3> QED BY <3>1, <3>2 DEF Queued, InQueue
  <2>2. UNCHANGED <<events, taken>> /\ \A v \in Threads \ {t} : sending'[v] = sending[v]
    BY <1>3 DEF SendDirect, TypeInv
  <2>3. CASE Repeating(u)
    <3>1. Goto(t, "again_p") /\ UNCHANGED <<got, accepted>>
      BY <1>3, <2>3 DEF SendDirect
    <3>2. sending'[t] = e
      <4>1. sending' = [sending EXCEPT ![t] = IF pc'[t] = "user" THEN 0 ELSE e]
        BY <1>3 DEF SendDirect
      <4>2. pc'[t] = "again_p"
        BY <3>1 DEF Goto, TypeInv
      <4> QED BY <4>1, <4>2 DEF TypeInv
    <3>3. SendInv'
      BY Zenon, <1>1, <2>2, <3>1, <3>2, SendEnds
    <3> QED BY Zenon, <2>2, <3>1, <3>3, KeptSame
  <2>4. CASE ~Repeating(u)
    <3>1. /\ got' = [got EXCEPT ![u] = e] /\ accepted' = accepted \cup {e}
          /\ Goto(t, IF Prio[u] < Prio[t] THEN "notified" ELSE "user")
      BY <1>3, <2>4 DEF SendDirect
    <3> HIDE DEF u
    <3>2. PICK x \in {"notified", "user"} : Goto(t, x)
      BY <3>1
    <3>3. x \in {"user", "notified", "again_p"} /\ x # "again_p"
      OBVIOUS
    <3>4. SendInv'
      BY Zenon, <1>1, <2>2, <3>1, <3>2, <3>3, SendEnds
    <3>5. got[u] = 0
      BY <2>1 DEF QueueInv
    <3> QED BY Zenon, <1>1, <2>1, <2>2, <3>1, <3>4, <3>5, KeptHand
  <2> QED BY <2>3, <2>4
<1> QED BY <1>2, <1>3

\* Every step keeps the events, while savestates are plain.
LEMMA NextKept ==
    ASSUME ServedInv, EventInv, PlainStops, [Next]_vars
    PROVE  KeptInv' /\ SendInv'
<1> USE DEF ServedInv, EventInv
<1>1. CASE \E t \in Threads : Receive(t)
  BY Zenon, <1>1, ReceiveKept
<1>2. CASE \E t \in Threads, e \in Calls : SendSave(t, e) \/ SendDirect(t, e)
  BY Zenon, <1>2, SendKept
<1>3. ASSUME NEW t \in Threads, SendWaited(t) PROVE KeptInv' /\ SendInv'
  <2>1. ~stop
    BY <1>3 DEF SendWaited, PlainStops
  <2>2. /\ pc' = [pc EXCEPT ![t] = "user"] /\ sending' = [sending EXCEPT ![t] = 0]
        /\ UNCHANGED <<events, got, taken, calls, accepted>>
    BY <1>3, <2>1 DEF SendWaited, Goto, queueVars, recvVars, TypeInv
  <2>3. \A u \in Threads : SendsAgain(u)' => SendsAgain(u) /\ sending'[u] = sending[u]
    BY <2>2 DEF TypeInv, SendsAgain
  <2> QED BY Zenon, <2>2, <2>3, KeptSame, SendSame
<1>4. ASSUME NEW t \in Threads, \/ Halt(t) \/ RepeatFails(t)
                                \/ \E force \in BOOLEAN : QueueDestroy(t, force)
      PROVE  KeptInv' /\ SendInv'
  <2>1. /\ Goto(t, "user") \/ Goto(t, "halted") \/ Goto(t, "again_d")
        /\ UNCHANGED <<events, got, taken, accepted, sendVars>>
    BY <1>4 DEF Halt, RepeatFails, QueueDestroy, queueVars, recvVars, sendVars
  <2>2. SendInv'
    BY <2>1, SendQuiet
  <2> QED BY Zenon, <2>1, <2>2, KeptSame
<1>5. CASE \/ \E t \in Threads : PortConnect(t) \/ PortDisconnect(t) \/ PortDestroy(t)
           \/ Stop \/ UNCHANGED vars
  <2>1. UNCHANGED <<pc, events, got, taken, accepted, calls, sending>>
    BY <1>5 DEF PortConnect, PortDisconnect, PortDestroy, Stop, vars, queueVars, recvVars, sendVars
  <2>2. \A u \in Threads : SendsAgain(u)' => SendsAgain(u) /\ sending'[u] = sending[u]
    BY <2>1 DEF SendsAgain
  <2> QED BY Zenon, <2>1, <2>2, KeptSame, SendSame
<1>6. CASE Reload
  <2>1. /\ pc' = [t \in Threads |-> CASE pc[t] \in {"again_r", "redo_r"} -> "redo_r"
                                     [] pc[t] \in {"again_p", "redo_p"} -> "redo_p"
                                     [] pc[t] \in {"again_d", "redo_d"} -> "redo_d"
                                     [] OTHER -> "user"]
        /\ UNCHANGED <<events, got, taken, accepted, calls, sending>>
    BY <1>6 DEF Reload, recvVars, sendVars
  <2>2. \A u \in Threads : SendsAgain(u)' => SendsAgain(u) /\ sending'[u] = sending[u]
    BY <2>1 DEF SendsAgain
  <2> QED BY Zenon, <2>1, <2>2, KeptSame, SendSame
<1> QED BY Zenon, <1>1, <1>2, <1>3, <1>4, <1>5, <1>6 DEF Next, Send

\* The empty set has no element.
LEMMA NoElement == Cardinality({}) = 0
<1> DEFINE f == [T \in SUBSET {} |-> 0]
           P(g) == g = [T \in SUBSET {} |-> IF T = {} THEN 0 ELSE 1 + g[T \ {CHOOSE x : x \in T}]]
<1>1. \A T \in SUBSET {} : T = {}
  OBVIOUS
<1>2. P(f)
  BY Zenon, <1>1
<1>3. P(CHOOSE g : P(g))
  BY Zenon, <1>2
<1>4. (CHOOSE g : P(g))[{}] = 0
  BY Zenon, <1>3
<1> QED BY <1>4 DEF Cardinality

\* A singleton has one.
LEMMA OneElement == ASSUME NEW a PROVE Cardinality({a}) = 1
<1> DEFINE f == [T \in SUBSET {a} |-> IF T = {} THEN 0 ELSE 1]
           P(g) == g = [T \in SUBSET {a} |-> IF T = {} THEN 0 ELSE 1 + g[T \ {CHOOSE x : x \in T}]]
<1>1. \A T \in SUBSET {a} : T = {} \/ T = {a}
  OBVIOUS
<1>2. {a} \ {CHOOSE x : x \in {a}} = {}
  BY Zenon
<1>3. P(f)
  <2>1. \A T \in SUBSET {a} : f[T] = IF T = {} THEN 0 ELSE 1 + f[T \ {CHOOSE x : x \in T}]
    BY <1>1, <1>2
  <2> QED BY Zenon, <2>1
<1>4. P(CHOOSE g : P(g))
  BY Zenon, <1>3
<1>5. \A g : P(g) => g[{a}] = 1 + g[{}] /\ g[{}] = 0
  BY <1>2
<1>6. (CHOOSE g : P(g))[{a}] = 1 + 0
  BY Zenon, <1>4, <1>5
<1> QED BY <1>6 DEF Cardinality

\* The invariant says where every event is.
LEMMA EventPlaces ==
    ASSUME ServedInv, EventInv
    PROVE  EventsKept
<1> USE DEF ServedInv, EventInv
<1> SUFFICES ASSUME NEW e \in Calls PROVE Copies(e) = IF e \in accepted THEN 1 ELSE 0
  BY DEF EventsKept
<1> DEFINE I == {i \in DOMAIN events : events[i] = e}
           T == {t \in Threads : got[t] = e}
<1>1. {t \in Answered : got[t] = e /\ ~canceled[t]} = T
  <2>1. e # 0
    BY DEF Calls
  <2>2. \A t \in Threads : got[t] = e => pc[t] \in Loop /\ ~Queued(t) /\ ~canceled[t]
    BY <2>1 DEF QueueInv
  <2> QED BY <2>2 DEF Answered, Loop
<1>2. Copies(e) = Cardinality(I) + Cardinality(T) + taken[e]
  BY <1>1 DEF Copies
<1>3. Cardinality({}) = 0 /\ \A x : Cardinality({x}) = 1
  BY NoElement, OneElement
<1>4. taken[e] \in {0, 1}
  BY DEF KeptInv, TakenOnce
<1>5. \A i \in I : I = {i} /\ T = {} /\ taken[e] = 0 /\ e \in accepted
  BY DEF KeptInv, QueueOnce, QueueSent
<1>6. \A t \in T : T = {t} /\ I = {} /\ taken[e] = 0 /\ e \in accepted
  <2>1. e # 0
    BY DEF Calls
  <2> QED BY <2>1 DEF KeptInv, HandOnce, HandSent, QueueSent
<1>7. taken[e] = 1 => e \in accepted /\ I = {} /\ T = {}
  BY <1>5, <1>6 DEF KeptInv, TakenOnce
<1>8. e \in accepted => taken[e] = 1 \/ I # {} \/ T # {}
  BY DEF KeptInv, NotLost
<1> HIDE DEF I, T
<1>9. CASE I # {}
  <2>1. PICK i \in I : TRUE
    BY <1>9
  <2>2. Cardinality(I) = 1 /\ Cardinality(T) = 0 /\ taken[e] = 0 /\ e \in accepted
    BY Zenon, <1>3, <1>5, <2>1
  <2> QED BY <1>2, <2>2
<1>10. CASE T # {}
  <2>1. PICK t \in T : TRUE
    BY <1>10
  <2>2. Cardinality(T) = 1 /\ Cardinality(I) = 0 /\ taken[e] = 0 /\ e \in accepted
    BY Zenon, <1>3, <1>6, <2>1
  <2> QED BY <1>2, <2>2
<1>11. CASE I = {} /\ T = {}
  BY <1>2, <1>3, <1>4, <1>7, <1>8, <1>11
<1> QED BY <1>9, <1>10, <1>11

\* sys_event_port_send and sys_event_queue_receive: an event that was accepted is in
\* exactly one place until one receiver has taken it, as long as a savestate neither
\* interrupts a timed receive nor a sender that waits to be requeued.
THEOREM EventsAreKept == Spec /\ []PlainStops => []EventsKept
<1>1. ServedInv /\ EventInv => EventsKept
  BY EventPlaces
<1>2. Init => ServedInv /\ EventInv
  BY InitServed
<1>3. ServedInv /\ EventInv /\ PlainStops /\ [Next]_vars => ServedInv' /\ EventInv'
  BY NextServed, NextKept DEF EventInv
<1> QED BY <1>1, <1>2, <1>3, PTL DEF Spec
=============================================================================
