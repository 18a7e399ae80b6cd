--------------------------- MODULE Lv2SemaProofs ----------------------------
(***************************************************************************)
(* Proofs about sys_semaphore.cpp for any number of threads, any maximum,  *)
(* any counts and timeouts, both protocols, with and without savestates.   *)
(***************************************************************************)
EXTENDS Lv2Sema, Lv2WaitQueueProofs, FiniteSetTheorems

SemaInv == TypeOK /\ QueueInv /\ WakeupInv

\* Every place the actions go to is one of the type.
LEMMA PlacesHold ==
    \A p \in {"user", "halted", "w_cas", "w_lock", "w_sleep", "waiting", "resched",
              "w_expired", "w_restore", "again_w", "redo_w",
              "p_cas", "p_lock", "p_wake", "again_p", "redo_p"} : p \in Places
BY DEF Places

\* The invariant holds of a semaphore that sys_semaphore_create has made.
LEMMA InitInv == Init => SemaInv
<1> SUFFICES ASSUME Init PROVE TypeOK /\ QueueInv /\ WakeupInv
  BY DEF SemaInv
<1> USE SemaAssumption DEF Init, ThreadsInit
<1>1. TypeOK
  <2>1. ThreadsTypeOK
    BY DEF ThreadsTypeOK, Status
  <2>2. pc \in [Threads -> Places]
    BY PlacesHold
  <2>3. sq \in Seq(Threads)
    OBVIOUS
  <2>4. val \in Int /\ val <= MaxVal /\ balance \in Int
    OBVIOUS
  <2>6. mutex \in Threads \cup {None} /\ exists \in BOOLEAN /\ stop \in BOOLEAN
    BY Zenon
  <2>5. /\ seen \in [Threads -> Int] /\ arg \in [Threads -> Nat]
        /\ left \in [Threads -> Nat] /\ g_to_awake \in [Threads -> SUBSET Threads]
    OBVIOUS
  <2> QED BY <2>1, <2>2, <2>3, <2>4, <2>5, <2>6 DEF TypeOK
<1>2. QueueInv
  <2>1. Deficit(val) = 0 /\ Len(sq) = 0
    BY DEF Deficit
  <2> QED BY <2>1 DEF QueueInv, WaitersMatchValue, InLambda
<1>3. WakeupInv
  BY DEF WakeupInv, NoLostWakeup
<1> QED BY <1>1, <1>2, <1>3

-----------------------------------------------------------------------------
\* sys_semaphore_wait

\* Loading val decides which way the call goes and changes nothing else.
LEMMA WaitCallInv ==
    ASSUME SemaInv, NEW t \in Threads, NEW timeout \in Timeouts, WaitCall(t, timeout)
    PROVE  SemaInv'
<1> USE SemaAssumption DEF SemaInv, Goto
<1>1. /\ pc[t] \in {"user", "redo_w"} /\ exists /\ arg' = [arg EXCEPT ![t] = timeout]
      /\ UNCHANGED <<val, sq, mutex, exists, stop, left, g_to_awake, balance, st, cancel>>
  BY DEF WaitCall, semaVars, threadVars
<1>2. CASE val > 0 /\ pc' = [pc EXCEPT ![t] = "w_cas"] /\ seen' = [seen EXCEPT ![t] = val]
  <2>1. TypeOK'
    BY <1>1, <1>2, PlacesHold DEF TypeOK, ThreadsTypeOK
  <2>2. QueueInv'
    BY <1>1, <1>2 DEF TypeOK, QueueInv, WaitersMatchValue, InLambda
  <2>3. WakeupInv'
    BY Zenon, <1>1, <1>2 DEF TypeOK, WakeupInv, NoLostWakeup
  <2> QED BY <2>1, <2>2, <2>3
<1>3. CASE pc' = [pc EXCEPT ![t] = "w_lock"] /\ seen' = [seen EXCEPT ![t] = 0]
  <2>1. TypeOK'
    BY <1>1, <1>3, PlacesHold DEF TypeOK, ThreadsTypeOK
  <2>2. QueueInv'
    BY <1>1, <1>3 DEF TypeOK, QueueInv, WaitersMatchValue, InLambda
  <2>3. WakeupInv'
    BY <1>1, <1>3 DEF TypeOK, WakeupInv, NoLostWakeup
  <2> QED BY <2>1, <2>2, <2>3
<1> QED BY Zenon, <1>2, <1>3 DEF WaitCall

\* The compare-and-swap succeeds only while val is positive, where nobody is
\* queued; when it fails nothing changes.
LEMMA WaitCasInv ==
    ASSUME SemaInv, NEW t \in Threads, WaitCas(t)
    PROVE  SemaInv'
<1> USE SemaAssumption DEF SemaInv, Goto, Return, ReturnAcquired
<1>1. /\ pc[t] = "w_cas" /\ seen' = [seen EXCEPT ![t] = 0]
      /\ UNCHANGED <<sq, mutex, exists, stop, left, g_to_awake, st, cancel>>
  BY DEF WaitCas, threadVars
<1>2. CASE val = seen[t] /\ val' = val - 1 /\ ReturnAcquired(t)
  <2>1. TypeOK'
    BY <1>1, <1>2, PlacesHold DEF TypeOK, ThreadsTypeOK
  <2>2. val > 0 /\ val' >= 0 /\ Deficit(val') = Deficit(val)
    BY <1>1, <1>2 DEF TypeOK, QueueInv, Deficit
  <2>3. QueueInv'
    BY Zenon, <1>1, <1>2, <2>2 DEF TypeOK, QueueInv, WaitersMatchValue, InLambda
  <2>4. WakeupInv'
    BY Zenon, <1>1, <1>2 DEF TypeOK, WakeupInv, NoLostWakeup
  <2> QED BY <2>1, <2>3, <2>4
<1>3. CASE Goto(t, "w_lock") /\ UNCHANGED <<val, arg, balance>>
  <2>1. TypeOK'
    BY <1>1, <1>3, PlacesHold DEF TypeOK, ThreadsTypeOK
  <2>2. QueueInv'
    BY <1>1, <1>3 DEF TypeOK, QueueInv, WaitersMatchValue, InLambda
  <2>3. WakeupInv'
    BY Zenon, <1>1, <1>3 DEF TypeOK, WakeupInv, NoLostWakeup
  <2> QED BY <2>1, <2>2, <2>3
<1> QED BY <1>2, <1>3 DEF WaitCas

\* Under the mutex the decrement either takes a token or announces a waiter.
LEMMA WaitLockInv ==
    ASSUME SemaInv, NEW t \in Threads, WaitLock(t)
    PROVE  SemaInv'
<1> USE SemaAssumption DEF SemaInv, Goto, Return, ReturnAcquired
<1>1. /\ pc[t] = "w_lock" /\ mutex = None /\ val' = val - 1
      /\ UNCHANGED <<sq, exists, stop, seen, left, g_to_awake, st, cancel>>
  BY DEF WaitLock, threadVars
<1>2. CASE val <= 0 /\ mutex' = t /\ Goto(t, "w_sleep") /\ UNCHANGED <<arg, balance>>
  <2>1. TypeOK'
    BY <1>1, <1>2, PlacesHold DEF TypeOK, ThreadsTypeOK
  <2>2. Len(sq) + 1 = Deficit(val')
    BY <1>1, <1>2 DEF TypeOK, QueueInv, WaitersMatchValue, Deficit
  <2>3. QueueInv'
    BY <1>1, <1>2, <2>2 DEF TypeOK, QueueInv, WaitersMatchValue, InLambda
  <2>4. WakeupInv'
    BY <1>1, <1>2 DEF TypeOK, WakeupInv, NoLostWakeup
  <2> QED BY <2>1, <2>3, <2>4
<1>3. CASE val > 0 /\ ReturnAcquired(t) /\ UNCHANGED mutex
  <2>1. TypeOK'
    BY <1>1, <1>3, PlacesHold DEF TypeOK, ThreadsTypeOK
  <2>2. val' >= 0 /\ Deficit(val') = Deficit(val)
    BY <1>1, <1>3 DEF TypeOK, Deficit
  <2>3. QueueInv'
    BY <1>1, <1>3, <2>2 DEF TypeOK, QueueInv, WaitersMatchValue, InLambda
  <2>4. WakeupInv'
    BY <1>1, <1>3 DEF TypeOK, WakeupInv, NoLostWakeup
  <2> QED BY <2>1, <2>3, <2>4
<1> QED BY <1>2, <1>3 DEF WaitLock

\* The waiter enters the queue that val already counts it in, asleep.
LEMMA WaitSleepInv ==
    ASSUME SemaInv, NEW t \in Threads, WaitSleep(t)
    PROVE  SemaInv'
<1> USE SemaAssumption DEF SemaInv
<1>1. /\ pc[t] = "w_sleep" /\ mutex' = None /\ pc' = [pc EXCEPT ![t] = "waiting"]
      /\ st' = [st EXCEPT ![t] = "sleep"] /\ cancel' = [cancel EXCEPT ![t] = 0]
      /\ UNCHANGED <<val, exists, stop, seen, arg, left, g_to_awake, balance>>
  BY DEF WaitSleep, Sleep, Asleep, Goto, localVars
<1>2. /\ sq' \in Seq(Threads) /\ Len(sq') = Len(sq) + 1
      /\ \A u : InQueue(sq', u) <=> u = t \/ InQueue(sq, u)
  BY Zenon, EmplaceProperties DEF WaitSleep, TypeOK
<1>3. TypeOK'
  <2>1. st' \in [Threads -> Status] /\ cancel' \in [Threads -> 0..2]
    BY <1>1 DEF TypeOK, ThreadsTypeOK, Status
  <2> QED BY Zenon, <1>1, <1>2, <2>1, PlacesHold DEF TypeOK, ThreadsTypeOK
<1>4. QueueInv'
  BY Zenon, <1>1, <1>2 DEF TypeOK, QueueInv, WaitersMatchValue, Deficit, InLambda
<1>5. WakeupInv'
  <2>1. g_to_awake[t] = {} /\ mutex = t
    BY <1>1 DEF WakeupInv, QueueInv
  <2> QED BY Zenon, <1>1, <1>2, <2>1 DEF TypeOK, ThreadsTypeOK, WakeupInv, NoLostWakeup
<1> QED BY <1>3, <1>4, <1>5

\* A thread that was signaled returns; the queue and val stay.
LEMMA WaitSignaledInv ==
    ASSUME SemaInv, NEW t \in Threads, WaitSignaled(t)
    PROVE  SemaInv'
<1> USE SemaAssumption DEF SemaInv
<1>1. /\ pc[t] = "waiting" /\ pc' = [pc EXCEPT ![t] = "user"]
      /\ st' = [st EXCEPT ![t] = "onproc"] /\ arg' = [arg EXCEPT ![t] = 0]
      /\ balance' = balance - 1
      /\ UNCHANGED <<val, sq, mutex, exists, stop, seen, left, g_to_awake, cancel>>
  BY DEF WaitSignaled, Resume, ReturnAcquired, Return, Goto, semaVars
<1>2. TypeOK'
  <2>1. st' \in [Threads -> Status]
    BY <1>1 DEF TypeOK, ThreadsTypeOK, Status
  <2> QED BY <1>1, <2>1, PlacesHold DEF TypeOK, ThreadsTypeOK
<1>3. QueueInv'
  BY Zenon, <1>1 DEF TypeOK, QueueInv, WaitersMatchValue, InLambda
<1>4. WakeupInv'
  BY <1>1 DEF TypeOK, ThreadsTypeOK, WakeupInv, NoLostWakeup
<1> QED BY <1>2, <1>3, <1>4

\* A stopped thread either returns or keeps its place to repeat the call.
LEMMA WaitStoppedInv ==
    ASSUME SemaInv, NEW t \in Threads, WaitStopped(t)
    PROVE  SemaInv'
<1> USE SemaAssumption DEF SemaInv
<1>1. /\ pc[t] = "waiting"
      /\ UNCHANGED <<val, sq, mutex, exists, stop, seen, left, g_to_awake, st, cancel>>
  BY DEF WaitStopped, semaVars, threadVars
<1>2. CASE pc' = [pc EXCEPT ![t] = "again_w"] /\ UNCHANGED <<arg, balance>>
  <2>1. TypeOK'
    BY <1>1, <1>2, PlacesHold DEF TypeOK, ThreadsTypeOK
  <2>2. QueueInv'
    BY <1>1, <1>2 DEF TypeOK, QueueInv, WaitersMatchValue, InLambda
  <2>3. WakeupInv'
    BY <1>1, <1>2 DEF TypeOK, WakeupInv, NoLostWakeup
  <2> QED BY <2>1, <2>2, <2>3
<1>3. CASE /\ pc' = [pc EXCEPT ![t] = "halted"] /\ balance' = balance - 1
           /\ arg' = [arg EXCEPT ![t] = 0]
  <2>1. TypeOK'
    BY <1>1, <1>3, PlacesHold DEF TypeOK, ThreadsTypeOK
  <2>2. QueueInv'
    BY <1>1, <1>3 DEF TypeOK, QueueInv, WaitersMatchValue, InLambda
  <2>3. WakeupInv'
    BY <1>1, <1>3 DEF TypeOK, WakeupInv, NoLostWakeup
  <2> QED BY <2>1, <2>2, <2>3
<1> QED BY <1>2, <1>3 DEF WaitStopped, Goto

\* The timeout makes the thread awake itself and wait to be scheduled.
LEMMA WaitTimeoutInv ==
    ASSUME SemaInv, NEW t \in Threads, WaitTimeout(t)
    PROVE  SemaInv'
<1> USE SemaAssumption DEF SemaInv
<1>1. /\ pc[t] = "waiting" /\ pc' = [pc EXCEPT ![t] = "resched"]
      /\ UNCHANGED <<val, sq, mutex, exists, stop, seen, arg, left, g_to_awake, balance, cancel>>
  BY DEF WaitTimeout, SelfAwake, Goto, semaVars, localVars
<1>2. /\ st' \in [Threads -> Status] /\ st'[t] # "sleep"
      /\ \A u \in Threads \ {t} : st'[u] = st[u]
  BY DEF WaitTimeout, SelfAwake, TypeOK, ThreadsTypeOK, Status
<1>3. TypeOK'
  BY Zenon, <1>1, <1>2, PlacesHold DEF TypeOK, ThreadsTypeOK
<1>4. QueueInv'
  BY Zenon, <1>1 DEF TypeOK, QueueInv, WaitersMatchValue, InLambda
<1>5. WakeupInv'
  BY Zenon, <1>1, <1>2 DEF TypeOK, WakeupInv, NoLostWakeup
<1> QED BY <1>3, <1>4, <1>5

\* check_state() returns: the thread was scheduled, or was stopped.
LEMMA WaitRescheduledInv ==
    ASSUME SemaInv, NEW t \in Threads, WaitRescheduled(t)
    PROVE  SemaInv'
<1> USE SemaAssumption DEF SemaInv
<1>1. /\ pc[t] = "resched"
      /\ UNCHANGED <<val, sq, mutex, exists, stop, seen, arg, left, g_to_awake, balance, cancel>>
  BY DEF WaitRescheduled, Resume, semaVars, localVars, threadVars
<1>2. st' = [st EXCEPT ![t] = "onproc"] \/ st' = st
  BY DEF WaitRescheduled, Resume, threadVars
<1>3. /\ st' \in [Threads -> Status] /\ st'[t] # "sleep"
      /\ \A u \in Threads \ {t} : st'[u] = st[u]
  <2>1. st[t] # "sleep" /\ st \in [Threads -> Status]
    BY <1>1 DEF WakeupInv, TypeOK, ThreadsTypeOK
  <2>2. CASE st' = st
    BY <2>1, <2>2
  <2>3. CASE st' = [st EXCEPT ![t] = "onproc"]
    BY <2>1, <2>3 DEF Status
  <2> QED BY <1>2, <2>2, <2>3
<1>4. PICK p \in {"w_expired", "waiting"} : pc' = [pc EXCEPT ![t] = p]
  BY DEF WaitRescheduled, Goto
<1>5. TypeOK'
  BY <1>1, <1>3, <1>4, PlacesHold DEF TypeOK, ThreadsTypeOK
<1>6. QueueInv'
  BY Zenon, <1>1, <1>4 DEF TypeOK, QueueInv, WaitersMatchValue, InLambda
<1>7. WakeupInv'
  BY Zenon, <1>1, <1>3, <1>4 DEF TypeOK, WakeupInv, NoLostWakeup
<1> QED BY <1>5, <1>6, <1>7

\* A wait that expired leaves the queue, or finds that a post was faster.
LEMMA WaitExpiredInv ==
    ASSUME SemaInv, NEW t \in Threads, WaitExpired(t)
    PROVE  SemaInv'
<1> USE SemaAssumption DEF SemaInv
<1>1. /\ pc[t] = "w_expired" /\ mutex = None
      /\ UNCHANGED <<val, exists, stop, seen, left, g_to_awake, st, cancel>>
  BY DEF WaitExpired, threadVars
<1>2. CASE /\ InQueue(sq, t) /\ sq' = Unqueue(sq, t) /\ mutex' = t
           /\ pc' = [pc EXCEPT ![t] = "w_restore"] /\ UNCHANGED <<arg, balance>>
  <2>1. /\ sq' \in Seq(Threads) /\ Len(sq') = Len(sq) - 1
        /\ \A u : InQueue(sq, u) /\ u # t => InQueue(sq', u)
    BY Zenon, <1>2, UnqueueIndex, UnlinkProperties, UnlinkMembers DEF TypeOK, Unqueue
  <2>2. TypeOK'
    BY Zenon, <1>1, <1>2, <2>1, PlacesHold DEF TypeOK, ThreadsTypeOK
  <2>3. Len(sq') + 1 = Deficit(val) /\ val < 0
    <3>1. Len(sq) \in Nat /\ Len(sq') \in Nat /\ Len(sq) = Deficit(val)
      BY <1>1, <2>1 DEF TypeOK, QueueInv, WaitersMatchValue
    <3> QED BY <3>1, <2>1 DEF TypeOK, Deficit
  <2>4. QueueInv'
    BY Zenon, <1>1, <1>2, <2>3 DEF TypeOK, QueueInv, WaitersMatchValue, InLambda
  <2>5. WakeupInv'
    BY Zenon, <1>1, <1>2, <2>1 DEF TypeOK, WakeupInv, NoLostWakeup
  <2> QED BY <2>2, <2>4, <2>5
<1>3. CASE /\ pc' = [pc EXCEPT ![t] = "user"] /\ arg' = [arg EXCEPT ![t] = 0]
           /\ balance' = balance - 1 /\ UNCHANGED <<sq, mutex>>
  <2>1. TypeOK'
    BY <1>1, <1>3, PlacesHold DEF TypeOK, ThreadsTypeOK
  <2>2. QueueInv'
    BY <1>1, <1>3 DEF TypeOK, QueueInv, WaitersMatchValue, InLambda
  <2>3. WakeupInv'
    BY Zenon, <1>1, <1>3 DEF TypeOK, WakeupInv, NoLostWakeup
  <2> QED BY <2>1, <2>2, <2>3
<1> QED BY <1>2, <1>3 DEF WaitExpired, ReturnAcquired, Return, Goto

\* The wait that left the queue gives val back.
LEMMA WaitRestoreInv ==
    ASSUME SemaInv, NEW t \in Threads, WaitRestore(t)
    PROVE  SemaInv'
<1> USE SemaAssumption DEF SemaInv
<1>1. /\ pc[t] = "w_restore" /\ val' = Restored(val) /\ mutex' = None
      /\ pc' = [pc EXCEPT ![t] = "user"] /\ arg' = [arg EXCEPT ![t] = 0]
      /\ UNCHANGED <<sq, exists, stop, seen, left, g_to_awake, balance, st, cancel>>
  BY DEF WaitRestore, Return, Goto, threadVars
<1>2. /\ mutex = t /\ val' = val + 1 /\ val < 0 /\ Len(sq) = Deficit(val')
  <2>1. Len(sq) + 1 = Deficit(val) /\ Len(sq) \in Nat /\ mutex = t
    BY <1>1 DEF TypeOK, QueueInv
  <2> QED BY <1>1, <2>1 DEF TypeOK, Restored, Deficit
<1>3. TypeOK'
  BY <1>1, <1>2, PlacesHold DEF TypeOK, ThreadsTypeOK
<1>4. QueueInv'
  BY <1>1, <1>2 DEF TypeOK, QueueInv, WaitersMatchValue, InLambda
<1>5. WakeupInv'
  BY Zenon, <1>1, <1>2 DEF TypeOK, WakeupInv, NoLostWakeup
<1> QED BY <1>3, <1>4, <1>5

-----------------------------------------------------------------------------
\* sys_semaphore_trywait, sys_semaphore_post, sys_semaphore_destroy

\* try_dec takes a token only where nobody is queued.
LEMMA TryWaitInv ==
    ASSUME SemaInv, NEW t \in Threads, TryWait(t)
    PROVE  SemaInv'
<1> USE SemaAssumption DEF SemaInv
<1>1. /\ val > 0 /\ val' = val - 1 /\ balance' = balance - 1
      /\ UNCHANGED <<sq, mutex, exists, stop, pc, seen, arg, left, g_to_awake, st, cancel>>
  BY DEF TryWait, localVars, threadVars
<1>2. TypeOK'
  BY <1>1 DEF TypeOK, ThreadsTypeOK
<1>3. val' >= 0 /\ Deficit(val') = Deficit(val)
  BY <1>1 DEF TypeOK, Deficit
<1>4. QueueInv'
  BY <1>1, <1>3 DEF TypeOK, QueueInv, WaitersMatchValue, InLambda
<1>5. WakeupInv'
  BY <1>1 DEF WakeupInv, NoLostWakeup
<1> QED BY <1>2, <1>4, <1>5

\* Loading val decides which way the call goes and changes nothing else.
LEMMA PostCallInv ==
    ASSUME SemaInv, NEW t \in Threads, NEW n \in Counts, PostCall(t, n)
    PROVE  SemaInv'
<1> USE SemaAssumption DEF SemaInv
<1>1. /\ pc[t] \in {"user", "redo_p"} /\ exists /\ arg' = [arg EXCEPT ![t] = n]
      /\ UNCHANGED <<val, sq, mutex, exists, stop, left, g_to_awake, balance, st, cancel>>
  BY DEF PostCall, semaVars, threadVars
<1>2. CASE /\ val >= 0 /\ Fits(n) /\ pc' = [pc EXCEPT ![t] = "p_cas"]
           /\ seen' = [seen EXCEPT ![t] = val]
  <2>1. TypeOK'
    BY <1>1, <1>2, PlacesHold DEF TypeOK, ThreadsTypeOK
  <2>2. QueueInv'
    BY <1>1, <1>2 DEF TypeOK, QueueInv, WaitersMatchValue, InLambda, Fits
  <2>3. WakeupInv'
    BY Zenon, <1>1, <1>2 DEF TypeOK, WakeupInv, NoLostWakeup
  <2> QED BY <2>1, <2>2, <2>3
<1>3. CASE pc' = [pc EXCEPT ![t] = "p_lock"] /\ seen' = [seen EXCEPT ![t] = 0]
  <2>1. TypeOK'
    BY <1>1, <1>3, PlacesHold DEF TypeOK, ThreadsTypeOK
  <2>2. QueueInv'
    BY <1>1, <1>3 DEF TypeOK, QueueInv, WaitersMatchValue, InLambda
  <2>3. WakeupInv'
    BY Zenon, <1>1, <1>3 DEF TypeOK, WakeupInv, NoLostWakeup
  <2> QED BY Zenon, <2>1, <2>2, <2>3
<1> QED BY Zenon, <1>2, <1>3 DEF PostCall, Goto

\* The compare-and-swap succeeds only on the val that was tested against max.
LEMMA PostCasInv ==
    ASSUME SemaInv, NEW t \in Threads, PostCas(t)
    PROVE  SemaInv'
<1> USE SemaAssumption DEF SemaInv
<1>1. /\ pc[t] = "p_cas" /\ seen' = [seen EXCEPT ![t] = 0]
      /\ UNCHANGED <<sq, mutex, exists, stop, left, g_to_awake, st, cancel>>
  BY DEF PostCas, threadVars
<1>2. CASE /\ val = seen[t] /\ val' = val + arg[t] /\ balance' = balance + arg[t]
           /\ pc' = [pc EXCEPT ![t] = "user"] /\ arg' = [arg EXCEPT ![t] = 0]
  <2>1. /\ val >= 0 /\ val' >= 0 /\ val' <= MaxVal /\ val' \in Int /\ balance' \in Int
        /\ Deficit(val') = Deficit(val)
    <3>1. val \in Int /\ balance \in Int /\ arg[t] \in Nat
      BY DEF TypeOK
    <3>2. seen[t] >= 0 /\ seen[t] + arg[t] <= MaxVal
      BY <1>1 DEF QueueInv
    <3> HIDE DEF SemaInv
    <3>3. val >= 0 /\ val' = val + arg[t] /\ val + arg[t] <= MaxVal
      BY <1>2, <3>2
    <3>4. val' >= 0 /\ val' \in Int /\ balance' \in Int
      BY <1>2, <3>1, <3>3
    <3>5. Deficit(val) = 0 /\ Deficit(val') = 0
      BY <3>1, <3>3, <3>4 DEF Deficit
    <3> QED BY <3>3, <3>4, <3>5
  <2>2. TypeOK'
    <3>1. seen' \in [Threads -> Int] /\ arg' \in [Threads -> Nat]
      BY SMTT(20), <1>1, <1>2 DEF TypeOK
    <3> QED BY Zenon, <1>1, <1>2, <2>1, <3>1, PlacesHold DEF TypeOK, ThreadsTypeOK
  <2>3. QueueInv'
    BY Zenon, <1>1, <1>2, <2>1 DEF TypeOK, QueueInv, WaitersMatchValue, InLambda
  <2>4. WakeupInv'
    BY Zenon, <1>1, <1>2 DEF TypeOK, WakeupInv, NoLostWakeup
  <2> QED BY <2>2, <2>3, <2>4
<1>3. CASE pc' = [pc EXCEPT ![t] = "p_lock"] /\ UNCHANGED <<val, arg, balance>>
  <2>1. TypeOK'
    BY <1>1, <1>3, PlacesHold DEF TypeOK, ThreadsTypeOK
  <2>2. QueueInv'
    BY Zenon, <1>1, <1>3 DEF TypeOK, QueueInv, WaitersMatchValue, InLambda
  <2>3. WakeupInv'
    BY Zenon, <1>1, <1>3 DEF TypeOK, WakeupInv, NoLostWakeup
  <2> QED BY <2>1, <2>2, <2>3
<1> QED BY <1>2, <1>3 DEF PostCas, ReturnPosted, Return, Goto

\* to_awake is what makes val and the queue agree again once it is spent.
LEMMA PostLockInv ==
    ASSUME SemaInv, NEW t \in Threads, PostLock(t)
    PROVE  SemaInv'
<1> USE SemaAssumption DEF SemaInv
<1>1. /\ pc[t] = "p_lock" /\ mutex = None
      /\ UNCHANGED <<sq, exists, stop, seen, g_to_awake, balance, st, cancel>>
  BY Zenon DEF PostLock, threadVars
<1>2. CASE pc' = [pc EXCEPT ![t] = "again_p"] /\ UNCHANGED <<val, mutex, left, arg>>
  <2>1. TypeOK'
    BY Zenon, <1>1, <1>2, PlacesHold DEF TypeOK, ThreadsTypeOK
  <2>2. QueueInv'
    BY <1>1, <1>2 DEF TypeOK, QueueInv, WaitersMatchValue, InLambda
  <2>3. WakeupInv'
    BY Zenon, <1>1, <1>2 DEF TypeOK, WakeupInv, NoLostWakeup
  <2> QED BY <2>1, <2>2, <2>3
<1>3. CASE /\ pc' = [pc EXCEPT ![t] = "user"] /\ arg' = [arg EXCEPT ![t] = 0]
           /\ UNCHANGED <<val, mutex, left>>
  <2>1. TypeOK'
    BY <1>1, <1>3, PlacesHold DEF TypeOK, ThreadsTypeOK
  <2>2. QueueInv'
    BY Zenon, <1>1, <1>3 DEF TypeOK, QueueInv, WaitersMatchValue, InLambda
  <2>3. WakeupInv'
    BY Zenon, <1>1, <1>3 DEF TypeOK, WakeupInv, NoLostWakeup
  <2> QED BY <2>1, <2>2, <2>3
<1>4. CASE /\ Fits(arg[t]) /\ val' = val + arg[t] /\ mutex' = t
           /\ left' = [left EXCEPT ![t] = ToAwake(val, arg[t])]
           /\ pc' = [pc EXCEPT ![t] = "p_wake"] /\ UNCHANGED arg
  <2>1. /\ val' \in Int /\ val' <= MaxVal /\ (val >= 0 => val' >= 0)
        /\ ToAwake(val, arg[t]) \in Nat
        /\ Len(sq) = Deficit(val') + ToAwake(val, arg[t])
    <3>1. val \in Int /\ arg[t] \in Nat /\ Len(sq) = Deficit(val)
      BY <1>1 DEF TypeOK, QueueInv, WaitersMatchValue
    <3>2. MaxVal \in Nat
      OBVIOUS
    <3>3. CASE val >= 0
      BY <3>1, <3>2, <3>3, <1>4 DEF Fits, ToAwake, Deficit
    <3>4. CASE val < 0 /\ arg[t] < -val
      BY <3>1, <3>2, <3>4, <1>4 DEF Fits, ToAwake, Deficit
    <3>5. CASE val < 0 /\ arg[t] >= -val
      BY <3>1, <3>2, <3>5, <1>4 DEF Fits, ToAwake, Deficit
    <3> QED BY <3>1, <3>3, <3>4, <3>5
  <2>2. TypeOK'
    BY <1>1, <1>4, <2>1, PlacesHold DEF TypeOK, ThreadsTypeOK
  <2>3. QueueInv'
    BY Zenon, <1>1, <1>4, <2>1 DEF TypeOK, QueueInv, WaitersMatchValue, InLambda
  <2>4. WakeupInv'
    BY Zenon, <1>1, <1>4 DEF TypeOK, WakeupInv, NoLostWakeup
  <2> QED BY <2>2, <2>3, <2>4
<1> QED BY Zenon, <1>2, <1>3, <1>4 DEF PostLock, Return, Goto

\* Each round of the loop moves one waiter from the queue to g_to_awake.
LEMMA PostScheduleInv ==
    ASSUME SemaInv, NEW t \in Threads, PostSchedule(t)
    PROVE  SemaInv'
<1> USE SemaAssumption DEF SemaInv
<1> DEFINE i == Schedule(sq)
<1>1. /\ pc[t] = "p_wake" /\ left[t] > 0 /\ sq # <<>> /\ sq' = Unlink(sq, i)
      /\ g_to_awake' = [g_to_awake EXCEPT ![t] = @ \cup {sq[i]}]
      /\ left' = [left EXCEPT ![t] = @ - 1]
      /\ UNCHANGED <<val, mutex, exists, stop, pc, seen, arg, balance, st, cancel>>
  BY DEF PostSchedule, threadVars
<1>2. i \in 1..Len(sq)
  BY Zenon, <1>1, ScheduleInDomain DEF TypeOK
<1> HIDE DEF i
<1>3. /\ sq' \in Seq(Threads) /\ Len(sq') = Len(sq) - 1 /\ sq[i] \in Threads
      /\ \A u : InQueue(sq, u) /\ u # sq[i] => InQueue(sq', u)
  <2>1. sq \in Seq(Threads)
    BY DEF TypeOK
  <2>2. Unlink(sq, i) \in Seq(Threads) /\ Len(Unlink(sq, i)) = Len(sq) - 1
    BY <1>2, <2>1, UnlinkProperties
  <2>3. \A u : InQueue(sq, u) /\ u # sq[i] => InQueue(Unlink(sq, i), u)
    BY <1>2, <2>1, UnlinkMembers
  <2>4. sq[i] \in Threads
    BY <1>2, <2>1
  <2> QED BY <1>1, <2>2, <2>3, <2>4
<1>4. mutex = t
  BY <1>1 DEF QueueInv
<1>5. TypeOK'
  <2>1. left' \in [Threads -> Nat]
    <3>1. left \in [Threads -> Nat]
      BY DEF TypeOK
    <3>2. left[t] > 0 /\ left' = [left EXCEPT ![t] = @ - 1]
      BY <1>1
    <3>3. left[t] \in Nat
      BY <3>1
    <3>4. left[t] - 1 \in Nat
      BY <3>2, <3>3
    <3> QED BY <3>1, <3>2, <3>4
  <2>2. g_to_awake' \in [Threads -> SUBSET Threads]
    BY Zenon, <1>1, <1>3 DEF TypeOK
  <2> QED BY Zenon, <1>1, <1>3, <2>1, <2>2 DEF TypeOK, ThreadsTypeOK
<1>6. QueueInv'
  <2>1. Len(sq') = Deficit(val) + left'[t] /\ Len(sq) \in Nat
    <3>1. Len(sq) = Deficit(val) + left[t] /\ left'[t] = left[t] - 1 /\ left[t] \in Nat
      BY <1>1 DEF TypeOK, QueueInv
    <3>2. Deficit(val) \in Nat /\ Len(sq) \in Nat
      BY DEF TypeOK, Deficit
    <3> QED BY <3>1, <3>2, <1>3
  <2> QED BY Zenon, <1>1, <1>4, <2>1 DEF TypeOK, QueueInv, WaitersMatchValue, InLambda
<1>7. WakeupInv'
  BY Zenon, <1>1, <1>3, <1>4 DEF TypeOK, WakeupInv, NoLostWakeup
<1> QED BY <1>5, <1>6, <1>7

\* awake_all() reaches every thread that was scheduled before the unlock.
LEMMA PostAwakeAllInv ==
    ASSUME SemaInv, NEW t \in Threads, PostAwakeAll(t)
    PROVE  SemaInv'
<1> USE SemaAssumption DEF SemaInv
<1>1. /\ pc[t] = "p_wake" /\ left[t] = 0 /\ mutex' = None
      /\ g_to_awake' = [g_to_awake EXCEPT ![t] = {}]
      /\ pc' = [pc EXCEPT ![t] = "user"] /\ arg' = [arg EXCEPT ![t] = 0]
      /\ balance' = balance + arg[t]
      /\ UNCHANGED <<val, sq, exists, stop, seen, left>>
  BY DEF PostAwakeAll, ReturnPosted, Return, Goto
<1>2. st' \in [Threads -> Status] /\ cancel' \in [Threads -> 0..2]
  BY DEF PostAwakeAll, Awake, TypeOK, ThreadsTypeOK, Status
<1>3. \A u \in Threads : st'[u] = "sleep" => st[u] = "sleep" /\ u \notin g_to_awake[t]
  BY DEF PostAwakeAll, Awake, TypeOK, ThreadsTypeOK
<1>4. mutex = t /\ Len(sq) = Deficit(val)
  <2>1. mutex = t /\ Len(sq) = Deficit(val) + left[t] /\ Deficit(val) \in Nat
    BY <1>1 DEF TypeOK, QueueInv, Deficit
  <2> QED BY <1>1, <2>1
<1>5. TypeOK'
  <2>1. balance' \in Int
    BY <1>1 DEF TypeOK
  <2> QED BY Zenon, <1>1, <1>2, <2>1, PlacesHold DEF TypeOK, ThreadsTypeOK
<1>6. QueueInv'
  BY <1>1, <1>4 DEF TypeOK, QueueInv, WaitersMatchValue, InLambda
<1>7. WakeupInv'
  BY Zenon, <1>1, <1>3, <1>4 DEF TypeOK, WakeupInv, NoLostWakeup
<1> QED BY Zenon, <1>5, <1>6, <1>7

\* sys_semaphore_destroy, the savestate's stop and the halting of a thread
\* leave the queue, val and the waiters alone.
LEMMA OtherInv ==
    ASSUME SemaInv,
           \/ \E t \in Threads : Destroy(t) \/ Halt(t)
           \/ Stop
           \/ UNCHANGED vars
    PROVE  SemaInv'
<1> USE SemaAssumption DEF SemaInv
<1>1. ASSUME NEW t \in Threads, Destroy(t) PROVE SemaInv'
  <2>1. /\ val >= 0 /\ exists' = FALSE /\ \A u \in Threads : pc[u] \notin InLambda
        /\ UNCHANGED <<val, sq, mutex, stop, pc, seen, arg, left, g_to_awake, balance, st, cancel>>
    BY <1>1 DEF Destroy, Destroyable, localVars, threadVars
  <2>2. TypeOK'
    BY Zenon, <2>1 DEF TypeOK, ThreadsTypeOK
  <2>3. QueueInv'
    BY Zenon, <2>1 DEF QueueInv, WaitersMatchValue
  <2>4. WakeupInv'
    BY Zenon, <2>1 DEF WakeupInv, NoLostWakeup
  <2> QED BY <2>2, <2>3, <2>4
<1>2. ASSUME NEW t \in Threads, Halt(t) PROVE SemaInv'
  <2>1. /\ pc[t] = "user" /\ pc' = [pc EXCEPT ![t] = "halted"]
        /\ UNCHANGED <<val, sq, mutex, exists, stop, seen, arg, left, g_to_awake, balance, st, cancel>>
    BY Zenon, <1>2 DEF Halt, Goto, semaVars, localVars, threadVars
  <2>2. TypeOK'
    BY Zenon, <2>1, PlacesHold DEF TypeOK, ThreadsTypeOK
  <2>3. QueueInv'
    BY Zenon, <2>1 DEF TypeOK, QueueInv, WaitersMatchValue, InLambda
  <2>4. WakeupInv'
    BY Zenon, <2>1 DEF TypeOK, WakeupInv, NoLostWakeup
  <2> QED BY <2>2, <2>3, <2>4
<1>3. ASSUME Stop \/ UNCHANGED vars PROVE SemaInv'
  <2>1. /\ stop' \in BOOLEAN
        /\ UNCHANGED <<val, sq, mutex, exists, pc, seen, arg, left, g_to_awake, balance, st, cancel>>
    BY Zenon, <1>3 DEF Stop, vars, semaVars, localVars, threadVars, TypeOK
  <2>2. TypeOK'
    BY Zenon, <2>1 DEF TypeOK, ThreadsTypeOK
  <2>3. QueueInv'
    BY Zenon, <2>1 DEF QueueInv, WaitersMatchValue
  <2>4. WakeupInv'
    BY Zenon, <2>1 DEF WakeupInv, NoLostWakeup
  <2> QED BY <2>2, <2>3, <2>4
<1> QED BY <1>1, <1>2, <1>3

\* What save() writes is consistent with the empty queue of a loaded object.
LEMMA ReloadInv ==
    ASSUME SemaInv, Reload
    PROVE  SemaInv'
<1> USE SemaAssumption DEF SemaInv
<1>1. /\ sq' = <<>> /\ val' = SavedVal(val) /\ stop' = FALSE
      /\ UNCHANGED <<mutex, exists, seen, arg, left, g_to_awake, balance, cancel>>
  BY DEF Reload, localVars
<1>2. \A t \in Threads : pc[t] \in {"halted", "again_w", "again_p", "redo_w", "redo_p"}
  BY DEF Reload
<1>3. /\ pc' \in [Threads -> Places]
      /\ \A t \in Threads : pc'[t] \in {"user", "redo_w", "redo_p"}
  BY PlacesHold DEF Reload
<1>4. st' \in [Threads -> Status]
  BY DEF Reload, Status
<1>5. mutex = None
  BY Zenon, <1>2 DEF TypeOK, QueueInv
<1>6. val' \in Int /\ val' >= 0 /\ val' <= MaxVal /\ Deficit(val') = 0 /\ Len(sq') = 0
  BY <1>1 DEF TypeOK, SavedVal, Deficit
<1>7. TypeOK'
  <2>1. sq' \in Seq(Threads)
    BY <1>1
  <2> QED BY Zenon, <1>1, <1>3, <1>4, <1>6, <2>1 DEF TypeOK, ThreadsTypeOK
<1>8. QueueInv'
  BY Zenon, <1>1, <1>3, <1>5, <1>6 DEF QueueInv, WaitersMatchValue, InLambda
<1>9. WakeupInv'
  BY Zenon, <1>1, <1>2, <1>3 DEF WakeupInv, NoLostWakeup
<1> QED BY <1>7, <1>8, <1>9

-----------------------------------------------------------------------------
\* The inductive invariant holds of every behaviour.
THEOREM SemaInvariant == Spec => []SemaInv
<1>1. ASSUME SemaInv, [Next]_vars PROVE SemaInv'
  BY <1>1, WaitCallInv, WaitCasInv, WaitLockInv, WaitSleepInv, WaitSignaledInv,
     WaitStoppedInv, WaitTimeoutInv, WaitRescheduledInv, WaitExpiredInv, WaitRestoreInv,
     TryWaitInv, PostCallInv, PostCasInv, PostLockInv, PostScheduleInv, PostAwakeAllInv,
     OtherInv, ReloadInv
  DEF Next, Wait, Post
<1> QED BY InitInv, <1>1, PTL DEF Spec

\* The types are kept; in particular val never exceeds lv2_sema::max, although
\* the fast path of sys_semaphore_post adds to it without the mutex.
THEOREM TypeCorrect == Spec => []TypeOK
BY SemaInvariant, PTL DEF SemaInv

\* Whenever sema.mutex is free the queue is exactly as long as val says, for
\* every interleaving of the lock-free and the locked paths of
\* sys_semaphore_wait and sys_semaphore_post, timeouts and savestates.
THEOREM WaitersMatch == Spec => []WaitersMatchValue
<1>1. SemaInv => WaitersMatchValue
  BY DEF SemaInv, QueueInv
<1> QED BY <1>1, SemaInvariant, PTL

\* Neither ensure() of sys_semaphore.cpp can fire.
THEOREM EnsuresNeverFire == Spec => []EnsuresHold
<1>1. SemaInv => EnsuresHold
  <2> SUFFICES ASSUME SemaInv, NEW t \in Threads
               PROVE  /\ pc[t] = "p_wake" /\ left[t] > 0 => sq # <<>>
                      /\ pc[t] = "w_restore" => val < 0
    BY DEF EnsuresHold
  <2>1. Deficit(val) \in Nat /\ (Deficit(val) > 0 => val < 0) /\ Len(sq) \in Nat /\ left[t] \in Nat
    BY DEF SemaInv, TypeOK, Deficit
  <2>2. ASSUME pc[t] = "p_wake", left[t] > 0 PROVE sq # <<>>
    <3>1. Len(sq) > 0
      BY <2>1, <2>2 DEF SemaInv, QueueInv
    <3> QED BY <3>1
  <2>3. ASSUME pc[t] = "w_restore" PROVE val < 0
    BY <2>1, <2>3 DEF SemaInv, QueueInv
  <2> QED BY <2>2, <2>3
<1> QED BY <1>1, SemaInvariant, PTL

\* No wake-up is lost between schedule() and awake_all(): a sleeping waiter is
\* queued, or the post that holds the mutex is about to awake it.
THEOREM WakeupsKept == Spec => []NoLostWakeup
<1>1. SemaInv => NoLostWakeup
  BY DEF SemaInv, WakeupInv
<1> QED BY <1>1, SemaInvariant, PTL

\* No thread is left behind in the queue of a destroyed semaphore.
THEOREM DestroyedDrained == Spec => []DestroyedIsDrained
<1>1. SemaInv => DestroyedIsDrained
  <2> SUFFICES ASSUME SemaInv, ~exists, mutex = None PROVE sq = <<>>
    BY DEF DestroyedIsDrained
  <2>1. Len(sq) = 0
    BY DEF SemaInv, TypeOK, QueueInv, WaitersMatchValue, Deficit
  <2> QED BY <2>1 DEF SemaInv, TypeOK
<1> QED BY <1>1, SemaInvariant, PTL

-----------------------------------------------------------------------------
\* The tokens

\* A queued waiter has not returned and sleeps until it gives up, a waiter that
\* will repeat its call keeps its place, and post schedules nobody that repeats.
QueuedOnce == \A i, j \in DOMAIN sq : sq[i] = sq[j] => i = j

QueuedPlace ==
    \A t \in Threads : InQueue(sq, t) => pc[t] \in {"waiting", "resched", "w_expired", "again_w"}

QueuedAsleep == \A t \in Threads : InQueue(sq, t) /\ pc[t] = "waiting" => st[t] = "sleep"

RepeatQueued == \A t \in Threads : pc[t] = "again_w" => InQueue(sq, t)

RepeatSpared == \A t, u \in Threads : pc[t] = "p_wake" => pc[u] # "again_w"

ScheduledLeft == \A t, u \in Threads : u \in g_to_awake[t] => ~InQueue(sq, u)

LapsedTimed == \A t \in Threads : pc[t] \in {"resched", "w_expired"} => arg[t] # 0

WaiterInv ==
    /\ QueuedOnce /\ QueuedPlace /\ QueuedAsleep
    /\ RepeatQueued /\ RepeatSpared
    /\ ScheduledLeft /\ LapsedTimed

TokenInv == WaiterInv /\ TokensConserved

\* The places of a wait that has decremented val.
WaitPlaces == {"w_sleep", "waiting", "resched", "w_expired", "w_restore", "again_w"}

\* What the token count says of numbers.
LEMMA TokenCounts ==
    ASSUME SemaInv, TokenInv
    PROVE  /\ val \in Int /\ balance \in Int /\ Pending \in Nat
           /\ Cardinality(Registered) \in Nat
           /\ val = balance + Pending - Cardinality(Registered)
<1>1. Pending \in Nat
  <2>1. mutex \in Threads \cup {None} /\ \A u \in Threads : arg[u] \in Nat
    BY Zenon DEF SemaInv, TypeOK
  <2> QED BY <2>1 DEF Pending
<1>2. IsFiniteSet(Registered)
  BY Zenon, SemaAssumption, FS_Subset DEF Registered
<1>3. Cardinality(Registered) \in Nat
  BY Zenon, <1>2, FS_CardinalityType
<1> QED BY Zenon, <1>1, <1>3 DEF SemaInv, TypeOK, TokenInv, TokensConserved

\* A step of one thread changes the number of registered waits by that thread.
LEMMA CountMove ==
    ASSUME SemaInv, NEW t \in Threads, NEW p, pc' = [pc EXCEPT ![t] = p]
    PROVE  /\ Cardinality(Registered) \in Nat /\ Cardinality(Registered') \in Nat
           /\ pc[t] \in WaitPlaces /\ p \in WaitPlaces =>
                Cardinality(Registered') = Cardinality(Registered)
           /\ pc[t] \notin WaitPlaces /\ p \notin WaitPlaces =>
                Cardinality(Registered') = Cardinality(Registered)
           /\ pc[t] \notin WaitPlaces /\ p \in WaitPlaces =>
                Cardinality(Registered') = Cardinality(Registered) + 1
           /\ pc[t] \in WaitPlaces /\ p \notin WaitPlaces =>
                Cardinality(Registered') = Cardinality(Registered) - 1
<1>1. /\ Registered = {u \in Threads : pc[u] \in WaitPlaces}
      /\ Registered' = {u \in Threads : pc'[u] \in WaitPlaces}
  BY Zenon DEF Registered, WaitPlaces
<1>2. pc'[t] = p /\ \A u \in Threads \ {t} : pc'[u] = pc[u]
  BY Zenon DEF SemaInv, TypeOK
<1>3. IsFiniteSet(Registered) /\ IsFiniteSet(Registered')
  BY Zenon, <1>1, SemaAssumption, FS_Subset
<1>4. Cardinality(Registered) \in Nat /\ Cardinality(Registered') \in Nat
  BY Zenon, <1>3, FS_CardinalityType
<1>5. ASSUME pc[t] \in WaitPlaces <=> p \in WaitPlaces PROVE Registered' = Registered
  BY Zenon, <1>1, <1>2, <1>5
<1>6. ASSUME pc[t] \notin WaitPlaces, p \in WaitPlaces
      PROVE  Registered' = Registered \cup {t} /\ t \notin Registered
  BY Zenon, <1>1, <1>2, <1>6
<1>7. ASSUME pc[t] \in WaitPlaces, p \notin WaitPlaces
      PROVE  Registered' = Registered \ {t} /\ t \in Registered
  BY Zenon, <1>1, <1>2, <1>7
<1> QED BY Zenon, <1>3, <1>4, <1>5, <1>6, <1>7, FS_AddElement, FS_RemoveElement

\* A step of a thread that applies no post leaves the pending post alone, also
\* where it locks or unlocks sema.mutex.
LEMMA PendingMove ==
    ASSUME SemaInv, NEW t \in Threads, NEW p, pc' = [pc EXCEPT ![t] = p],
           pc[t] # "p_wake", p # "p_wake",
           \A u \in Threads \ {t} : arg'[u] = arg[u],
           \/ mutex' = mutex
           \/ mutex = None /\ mutex' = t
           \/ mutex = t /\ mutex' = None
    PROVE  Pending' = Pending /\ Pending \in Nat
<1>1. pc'[t] = p /\ \A u \in Threads \ {t} : pc'[u] = pc[u]
  BY Zenon DEF SemaInv, TypeOK
<1>2. /\ mutex \in Threads \cup {None} /\ mutex' \in Threads \cup {None}
      /\ \A u \in Threads : arg[u] \in Nat
  BY Zenon DEF SemaInv, TypeOK
<1> QED BY <1>1, <1>2 DEF Pending

\* A step of one thread that leaves the queue as it is.
LEMMA WaiterMove ==
    ASSUME SemaInv, WaiterInv, NEW t \in Threads, NEW p, pc' = [pc EXCEPT ![t] = p],
           sq' = sq, g_to_awake' = g_to_awake,
           \A u \in Threads \ {t} : st'[u] = st[u] /\ arg'[u] = arg[u],
           InQueue(sq, t) => p \in {"waiting", "resched", "w_expired", "again_w"},
           InQueue(sq, t) /\ p = "waiting" => st'[t] = "sleep",
           p = "again_w" => InQueue(sq, t) /\ mutex = None,
           p = "p_wake" => ~Repeating,
           p \in {"resched", "w_expired"} => arg'[t] # 0
    PROVE  WaiterInv'
<1>1. pc'[t] = p /\ \A u \in Threads \ {t} : pc'[u] = pc[u]
  BY Zenon DEF SemaInv, TypeOK
<1>2. QueuedOnce' /\ ScheduledLeft'
  BY Zenon DEF WaiterInv, QueuedOnce, ScheduledLeft
<1>3. QueuedPlace' /\ QueuedAsleep' /\ RepeatQueued'
  BY Zenon, <1>1 DEF WaiterInv, QueuedPlace, QueuedAsleep, RepeatQueued
<1>4. LapsedTimed'
  BY Zenon, <1>1 DEF WaiterInv, LapsedTimed
<1>5. RepeatSpared'
  <2> SUFFICES ASSUME NEW v \in Threads, NEW u \in Threads, pc'[v] = "p_wake", pc'[u] = "again_w"
               PROVE  FALSE
    BY Zenon DEF RepeatSpared
  <2>1. v # u
    BY Zenon
  <2>2. CASE u = t
    <3>1. mutex = None /\ pc[v] = "p_wake"
      BY Zenon, <1>1, <2>1, <2>2
    <3> QED BY Zenon, <3>1, SemaAssumption DEF SemaInv, QueueInv
  <2>3. CASE v = t
    <3>1. ~Repeating /\ pc[u] = "again_w"
      BY Zenon, <1>1, <2>1, <2>3
    <3> QED BY Zenon, <3>1 DEF WaiterInv, RepeatQueued, Repeating, InQueue
  <2>4. CASE u # t /\ v # t
    BY Zenon, <1>1, <2>4 DEF WaiterInv, RepeatSpared
  <2> QED BY Zenon, <2>2, <2>3, <2>4
<1> QED BY Zenon, <1>2, <1>3, <1>4, <1>5 DEF WaiterInv

\* A semaphore that sys_semaphore_create has made.
LEMMA InitTokens == Init => TokenInv
<1> SUFFICES ASSUME Init PROVE WaiterInv /\ TokensConserved
  BY DEF TokenInv
<1> USE DEF Init
<1>1. DOMAIN sq = {} /\ \A t : ~InQueue(sq, t)
  BY DEF InQueue
<1>2. WaiterInv
  BY Zenon, <1>1 DEF WaiterInv, QueuedOnce, QueuedPlace, QueuedAsleep, RepeatQueued,
     RepeatSpared, ScheduledLeft, LapsedTimed
<1>3. Registered = {} /\ Pending = 0
  BY Zenon DEF Registered, Pending
<1>4. Cardinality(Registered) = 0
  BY Zenon, <1>3, FS_EmptySet
<1>5. TokensConserved
  BY <1>3, <1>4, SemaAssumption DEF TokensConserved
<1> QED BY <1>2, <1>5

\* The steps of a wait that has not decremented val, of a post that has not added
\* its count, and of a thread that halts: what val gains the clients were given.
LEMMA OutsideTokens ==
    ASSUME SemaInv, TokenInv, NEW t \in Threads,
           \/ \E timeout \in Timeouts : WaitCall(t, timeout)
           \/ \E n \in Counts : PostCall(t, n)
           \/ WaitCas(t) \/ PostCas(t) \/ Halt(t)
    PROVE  TokenInv'
<1>1. PICK p \in {"user", "halted", "w_cas", "w_lock", "p_cas", "p_lock"} :
         pc' = [pc EXCEPT ![t] = p]
  BY Zenon DEF WaitCall, PostCall, WaitCas, PostCas, Halt, ReturnAcquired, ReturnPosted, Return, Goto
<1>2. pc[t] \in {"user", "redo_w", "redo_p", "w_cas", "p_cas"}
  BY Zenon DEF WaitCall, PostCall, WaitCas, PostCas, Halt
<1>3. UNCHANGED <<sq, mutex, g_to_awake, st, cancel>>
  BY Zenon DEF WaitCall, PostCall, WaitCas, PostCas, Halt, semaVars, localVars, threadVars
<1>4. \A u \in Threads \ {t} : arg'[u] = arg[u]
  BY Zenon DEF SemaInv, TypeOK, WaitCall, PostCall, WaitCas, PostCas, Halt,
     ReturnAcquired, ReturnPosted, Return, localVars
<1>5. val' - balance' = val - balance /\ val' \in Int /\ balance' \in Int
  <2>1. val \in Int /\ balance \in Int /\ arg[t] \in Nat
    BY Zenon DEF SemaInv, TypeOK
  <2>2. \/ UNCHANGED <<val, balance>>
        \/ val' = val - 1 /\ balance' = balance - 1
        \/ val' = val + arg[t] /\ balance' = balance + arg[t]
    BY Zenon DEF WaitCall, PostCall, WaitCas, PostCas, Halt, ReturnAcquired, ReturnPosted,
       semaVars
  <2> QED BY <2>1, <2>2
<1>6. WaiterInv'
  <2>1. ~InQueue(sq, t)
    BY Zenon, <1>2 DEF TokenInv, WaiterInv, QueuedPlace
  <2> QED BY Zenon, <1>1, <1>3, <1>4, <2>1, WaiterMove DEF TokenInv
<1>7. TokensConserved'
  <2>1. Pending' = Pending /\ Pending \in Nat
    BY Zenon, <1>1, <1>2, <1>3, <1>4, PendingMove
  <2>2. pc[t] \notin WaitPlaces /\ p \notin WaitPlaces
    BY <1>1, <1>2 DEF WaitPlaces
  <2>3. Cardinality(Registered') = Cardinality(Registered) /\ Cardinality(Registered) \in Nat
    BY Zenon, <1>1, <2>2, CountMove
  <2> QED BY <1>5, <2>1, <2>3, TokenCounts DEF TokensConserved
<1> QED BY Zenon, <1>6, <1>7 DEF TokenInv

\* The decrement under the mutex takes a token, or registers the wait.
LEMMA WaitLockTokens ==
    ASSUME SemaInv, TokenInv, NEW t \in Threads, WaitLock(t)
    PROVE  TokenInv'
<1>1. /\ pc[t] = "w_lock" /\ mutex = None /\ val' = val - 1
      /\ UNCHANGED <<sq, g_to_awake, st>>
  BY Zenon DEF WaitLock, threadVars
<1>2. PICK p \in {"user", "w_sleep"} : pc' = [pc EXCEPT ![t] = p]
  BY Zenon DEF WaitLock, ReturnAcquired, Return, Goto
<1>3. \A u \in Threads \ {t} : arg'[u] = arg[u]
  BY Zenon DEF SemaInv, TypeOK, WaitLock, ReturnAcquired, Return
<1>4. /\ p = "user" => balance' = balance - 1
      /\ p = "w_sleep" => balance' = balance
      /\ mutex' = mutex \/ mutex' = t
  <2>1. pc'[t] = p
    BY Zenon, <1>2 DEF SemaInv, TypeOK
  <2>2. \/ pc'[t] = "w_sleep" /\ balance' = balance /\ mutex' = t
        \/ pc'[t] = "user" /\ balance' = balance - 1 /\ mutex' = mutex
    BY Zenon DEF SemaInv, TypeOK, WaitLock, ReturnAcquired, Return, Goto
  <2> QED BY <2>1, <2>2
<1>5. WaiterInv'
  <2>1. ~InQueue(sq, t)
    BY Zenon, <1>1 DEF TokenInv, WaiterInv, QueuedPlace
  <2> QED BY Zenon, <1>1, <1>2, <1>3, <2>1, WaiterMove DEF TokenInv
<1>6. TokensConserved'
  <2>1. Pending' = Pending /\ Pending \in Nat
    BY Zenon, <1>1, <1>2, <1>3, <1>4, PendingMove
  <2>2. pc[t] \notin WaitPlaces /\ (p \in WaitPlaces <=> p = "w_sleep")
    BY <1>1, <1>2 DEF WaitPlaces
  <2>3. /\ Cardinality(Registered) \in Nat
        /\ p = "user" => Cardinality(Registered') = Cardinality(Registered)
        /\ p = "w_sleep" => Cardinality(Registered') = Cardinality(Registered) + 1
    BY Zenon, <1>2, <2>2, CountMove
  <2> QED BY <1>1, <1>2, <1>4, <2>1, <2>3, TokenCounts DEF TokensConserved
<1> QED BY Zenon, <1>5, <1>6 DEF TokenInv

\* A wait that ends takes the token it has registered for: a post took it out of
\* the queue, or it was not queued any more when it was stopped or had expired.
LEMMA WaitEndTokens ==
    ASSUME SemaInv, TokenInv, NEW t \in Threads, ~InQueue(sq, t),
           pc[t] \in {"waiting", "w_expired"},
           NEW p \in {"user", "halted"}, pc' = [pc EXCEPT ![t] = p],
           balance' = balance - 1, arg' = [arg EXCEPT ![t] = 0],
           UNCHANGED <<val, sq, mutex, g_to_awake>>,
           \A u \in Threads \ {t} : st'[u] = st[u]
    PROVE  TokenInv'
<1>1. \A u \in Threads \ {t} : arg'[u] = arg[u]
  BY Zenon DEF SemaInv, TypeOK
<1>2. WaiterInv'
  BY Zenon, <1>1, WaiterMove DEF TokenInv
<1>3. TokensConserved'
  <2>1. Pending' = Pending /\ Pending \in Nat
    BY Zenon, <1>1, PendingMove
  <2>2. pc[t] \in WaitPlaces /\ p \notin WaitPlaces
    BY DEF WaitPlaces
  <2>3. Cardinality(Registered') = Cardinality(Registered) - 1 /\ Cardinality(Registered) \in Nat
    BY Zenon, <2>2, CountMove
  <2> QED BY <2>1, <2>3, TokenCounts DEF TokensConserved
<1> QED BY Zenon, <1>2, <1>3 DEF TokenInv

\* A step inside the wait that leaves the queue and the clients' tokens alone.
LEMMA WaitOnTokens ==
    ASSUME SemaInv, TokenInv, NEW t \in Threads,
           pc[t] \in {"waiting", "resched"},
           NEW p \in {"again_w", "resched", "w_expired"}, pc' = [pc EXCEPT ![t] = p],
           p = "again_w" => InQueue(sq, t) /\ mutex = None,
           p \in {"resched", "w_expired"} => arg[t] # 0,
           UNCHANGED <<val, sq, mutex, g_to_awake, arg, balance>>,
           \A u \in Threads \ {t} : st'[u] = st[u]
    PROVE  TokenInv'
<1>1. \A u \in Threads \ {t} : arg'[u] = arg[u]
  BY Zenon
<1>2. WaiterInv'
  BY Zenon, <1>1, WaiterMove DEF TokenInv
<1>3. TokensConserved'
  <2>1. Pending' = Pending /\ Pending \in Nat
    BY Zenon, <1>1, PendingMove
  <2>2. pc[t] \in WaitPlaces /\ p \in WaitPlaces
    BY DEF WaitPlaces
  <2>3. Cardinality(Registered') = Cardinality(Registered)
    BY Zenon, <2>2, CountMove
  <2> QED BY <2>1, <2>3 DEF TokenInv, TokensConserved
<1> QED BY Zenon, <1>2, <1>3 DEF TokenInv

\* The registered waiter enters the queue, once and asleep.
LEMMA WaitSleepTokens ==
    ASSUME SemaInv, TokenInv, NEW t \in Threads, WaitSleep(t)
    PROVE  TokenInv'
<1>1. /\ pc[t] = "w_sleep" /\ mutex' = None /\ pc' = [pc EXCEPT ![t] = "waiting"]
      /\ st' = [st EXCEPT ![t] = "sleep"] /\ sq' = Emplace(sq, t)
      /\ UNCHANGED <<val, arg, g_to_awake, balance>>
  BY Zenon DEF WaitSleep, Sleep, Asleep, Goto, localVars
<1>2. mutex = t /\ ~InQueue(sq, t)
  BY Zenon, <1>1 DEF SemaInv, QueueInv, TokenInv, WaiterInv, QueuedPlace
<1>3. \A u : InQueue(sq', u) <=> u = t \/ InQueue(sq, u)
  BY Zenon, <1>1, EmplaceProperties DEF SemaInv, TypeOK
<1>4. /\ pc'[t] = "waiting" /\ st'[t] = "sleep"
      /\ \A u \in Threads \ {t} : pc'[u] = pc[u] /\ st'[u] = st[u]
  BY Zenon, <1>1 DEF SemaInv, TypeOK, ThreadsTypeOK
<1>5. WaiterInv'
  <2>1. QueuedOnce'
    <3>1. sq \in Seq(Threads) /\ \A i, j \in DOMAIN sq : sq[i] = sq[j] => i = j
      BY Zenon DEF SemaInv, TypeOK, TokenInv, WaiterInv, QueuedOnce
    <3>2. \A i, j \in DOMAIN Emplace(sq, t) : Emplace(sq, t)[i] = Emplace(sq, t)[j] => i = j
      BY Zenon, <1>2, <3>1, EmplaceOnce
    <3> QED BY Zenon, <1>1, <3>2 DEF QueuedOnce
  <2>2. QueuedPlace' /\ QueuedAsleep' /\ RepeatQueued'
    BY <1>3, <1>4 DEF TokenInv, WaiterInv, QueuedPlace, QueuedAsleep, RepeatQueued
  <2>3. RepeatSpared' /\ LapsedTimed'
    BY <1>1, <1>4 DEF TokenInv, WaiterInv, RepeatSpared, LapsedTimed
  <2>4. ScheduledLeft'
    <3>1. ASSUME NEW u \in Threads, NEW v, v \in g_to_awake[u] PROVE FALSE
      <4>1. pc[u] = "p_wake" /\ mutex = u
        BY Zenon, <3>1 DEF SemaInv, WakeupInv, QueueInv
      <4> QED BY Zenon, <4>1, <1>1, <1>2
    <3> QED BY Zenon, <1>1, <3>1 DEF ScheduledLeft
  <2> QED BY Zenon, <2>1, <2>2, <2>3, <2>4 DEF WaiterInv
<1>6. TokensConserved'
  <2>1. Pending' = Pending
    BY Zenon, <1>1, <1>2, PendingMove
  <2>2. Cardinality(Registered') = Cardinality(Registered)
    BY <1>1, CountMove DEF WaitPlaces
  <2> QED BY <1>1, <2>1, <2>2 DEF TokenInv, TokensConserved
<1> QED BY Zenon, <1>5, <1>6 DEF TokenInv

\* The loop of sys_semaphore_wait: a thread that finds itself signaled is not
\* queued any more.  Without a timed wait to stop, a wait that has expired is
\* always rescheduled first, and does not take its own awake() for a post.
LEMMA WaitLoopTokens ==
    ASSUME SemaInv, TokenInv, UntimedStops, NEW t \in Threads,
           WaitSignaled(t) \/ WaitStopped(t) \/ WaitTimeout(t) \/ WaitRescheduled(t)
    PROVE  TokenInv'
<1>1. CASE WaitSignaled(t)
  <2>1. /\ pc[t] = "waiting" /\ pc' = [pc EXCEPT ![t] = "user"] /\ st[t] = "ready"
        /\ st' = [st EXCEPT ![t] = "onproc"] /\ arg' = [arg EXCEPT ![t] = 0]
        /\ balance' = balance - 1 /\ UNCHANGED <<val, sq, mutex, g_to_awake>>
    BY Zenon, <1>1 DEF WaitSignaled, Resume, ReturnAcquired, Return, Goto, semaVars
  <2>2. ~InQueue(sq, t)
    BY <2>1 DEF TokenInv, WaiterInv, QueuedAsleep
  <2>3. \A u \in Threads \ {t} : st'[u] = st[u]
    BY Zenon, <2>1 DEF SemaInv, TypeOK, ThreadsTypeOK
  <2> QED BY Zenon, <2>1, <2>2, <2>3, WaitEndTokens
<1>2. CASE WaitStopped(t)
  <2>1. /\ pc[t] = "waiting" /\ mutex = None
        /\ UNCHANGED <<val, sq, mutex, g_to_awake, st>>
    BY Zenon, <1>2 DEF WaitStopped, semaVars, threadVars
  <2>2. CASE InQueue(sq, t) /\ pc' = [pc EXCEPT ![t] = "again_w"] /\ UNCHANGED <<arg, balance>>
    BY Zenon, <2>1, <2>2, WaitOnTokens
  <2>3. CASE /\ ~InQueue(sq, t) /\ pc' = [pc EXCEPT ![t] = "halted"]
             /\ arg' = [arg EXCEPT ![t] = 0] /\ balance' = balance - 1
    BY Zenon, <2>1, <2>3, WaitEndTokens
  <2> QED BY Zenon, <1>2, <2>2, <2>3 DEF WaitStopped, Goto
<1>3. CASE WaitTimeout(t)
  <2>1. /\ pc[t] = "waiting" /\ arg[t] # 0 /\ pc' = [pc EXCEPT ![t] = "resched"]
        /\ UNCHANGED <<val, sq, mutex, g_to_awake, arg, balance>>
    BY Zenon, <1>3 DEF WaitTimeout, Goto, semaVars, localVars
  <2>2. \A u \in Threads \ {t} : st'[u] = st[u]
    BY Zenon, <1>3 DEF WaitTimeout, SelfAwake, SemaInv, TypeOK, ThreadsTypeOK
  <2> QED BY Zenon, <2>1, <2>2, WaitOnTokens
<1>4. CASE WaitRescheduled(t)
  <2>1. pc[t] = "resched" /\ arg[t] # 0
    BY Zenon, <1>4 DEF WaitRescheduled, TokenInv, WaiterInv, LapsedTimed
  <2>2. ~stop
    BY <2>1 DEF UntimedStops, Registered
  <2>3. /\ pc' = [pc EXCEPT ![t] = "w_expired"] /\ st' = [st EXCEPT ![t] = "onproc"]
        /\ UNCHANGED <<val, sq, mutex, g_to_awake, arg, balance>>
    BY Zenon, <1>4, <2>2 DEF WaitRescheduled, Resume, Goto, semaVars, localVars
  <2>4. \A u \in Threads \ {t} : st'[u] = st[u]
    BY Zenon, <2>3 DEF SemaInv, TypeOK, ThreadsTypeOK
  <2> QED BY Zenon, <2>1, <2>3, <2>4, WaitOnTokens
<1> QED BY Zenon, <1>1, <1>2, <1>3, <1>4

\* A wait that expired leaves the queue and keeps the mutex until val is restored,
\* or returns with the token that a post gave it.
LEMMA WaitExpiredTokens ==
    ASSUME SemaInv, TokenInv, NEW t \in Threads, WaitExpired(t)
    PROVE  TokenInv'
<1>1. /\ pc[t] = "w_expired" /\ mutex = None
      /\ UNCHANGED <<val, g_to_awake, st>>
  BY Zenon DEF WaitExpired, threadVars
<1>2. CASE /\ InQueue(sq, t) /\ sq' = Unqueue(sq, t) /\ mutex' = t
           /\ pc' = [pc EXCEPT ![t] = "w_restore"] /\ UNCHANGED <<arg, balance>>
  <2>1. /\ ~InQueue(sq', t)
        /\ \A u : u # t => (InQueue(sq', u) <=> InQueue(sq, u))
        /\ QueuedOnce'
    <3>1. sq \in Seq(Threads) /\ QueuedOnce
      BY Zenon DEF SemaInv, TypeOK, TokenInv, WaiterInv
    <3>2. PICK i \in 1..Len(sq) : sq[i] = t /\ sq' = Unlink(sq, i)
      BY Zenon, <1>2, <3>1, UnqueueIndex DEF Unqueue
    <3>3. \A u : u # t => (InQueue(sq', u) <=> InQueue(sq, u))
      BY Zenon, <3>1, <3>2, UnlinkMembers
    <3>4. ~InQueue(sq', t) /\ QueuedOnce'
      <4>1. /\ ~InQueue(Unlink(sq, i), sq[i])
            /\ \A j, k \in DOMAIN Unlink(sq, i) : Unlink(sq, i)[j] = Unlink(sq, i)[k] => j = k
        BY Zenon, <3>1, <3>2, UnlinkOnce DEF QueuedOnce
      <4> QED BY Zenon, <3>2, <4>1 DEF QueuedOnce
    <3> QED BY <3>3, <3>4
  <2>2. pc'[t] = "w_restore" /\ \A u \in Threads \ {t} : pc'[u] = pc[u]
    BY Zenon, <1>2 DEF SemaInv, TypeOK
  <2>3. WaiterInv'
    <3>1. QueuedPlace' /\ QueuedAsleep' /\ RepeatQueued'
      BY <1>1, <2>1, <2>2 DEF TokenInv, WaiterInv, QueuedPlace, QueuedAsleep, RepeatQueued
    <3>2. RepeatSpared' /\ LapsedTimed'
      BY <1>2, <2>2 DEF TokenInv, WaiterInv, RepeatSpared, LapsedTimed
    <3>3. ScheduledLeft'
      BY Zenon, <1>1, <2>1 DEF TokenInv, WaiterInv, ScheduledLeft
    <3> QED BY Zenon, <2>1, <3>1, <3>2, <3>3 DEF WaiterInv
  <2>4. TokensConserved'
    <3>1. Pending' = Pending
      BY Zenon, <1>1, <1>2, PendingMove
    <3>2. Cardinality(Registered') = Cardinality(Registered)
      BY <1>1, <1>2, CountMove DEF WaitPlaces
    <3> QED BY <1>1, <1>2, <3>1, <3>2 DEF TokenInv, TokensConserved
  <2> QED BY Zenon, <2>3, <2>4 DEF TokenInv
<1>3. CASE /\ ~InQueue(sq, t) /\ pc' = [pc EXCEPT ![t] = "user"]
           /\ arg' = [arg EXCEPT ![t] = 0] /\ balance' = balance - 1
           /\ UNCHANGED <<sq, mutex>>
  BY Zenon, <1>1, <1>3, WaitEndTokens
<1> QED BY Zenon, <1>2, <1>3 DEF WaitExpired, ReturnAcquired, Return, Goto

\* ETIMEDOUT: the wait is not registered any more, and val says so.
LEMMA WaitRestoreTokens ==
    ASSUME SemaInv, TokenInv, NEW t \in Threads, WaitRestore(t)
    PROVE  TokenInv'
<1>1. /\ pc[t] = "w_restore" /\ val' = Restored(val) /\ mutex' = None
      /\ pc' = [pc EXCEPT ![t] = "user"] /\ arg' = [arg EXCEPT ![t] = 0]
      /\ UNCHANGED <<sq, g_to_awake, balance, st>>
  BY Zenon DEF WaitRestore, Return, Goto, threadVars
<1>2. mutex = t /\ val' = val + 1
  <2>1. Len(sq) + 1 = Deficit(val) /\ Len(sq) \in Nat /\ mutex = t
    BY <1>1 DEF SemaInv, TypeOK, QueueInv
  <2> QED BY <1>1, <2>1 DEF SemaInv, TypeOK, Restored, Deficit
<1>3. \A u \in Threads \ {t} : arg'[u] = arg[u]
  BY Zenon, <1>1 DEF SemaInv, TypeOK
<1>4. WaiterInv'
  <2>1. ~InQueue(sq, t)
    BY Zenon, <1>1 DEF TokenInv, WaiterInv, QueuedPlace
  <2> QED BY Zenon, <1>1, <1>3, <2>1, WaiterMove DEF TokenInv
<1>5. TokensConserved'
  <2>1. Pending' = Pending /\ Pending \in Nat
    BY Zenon, <1>1, <1>2, <1>3, PendingMove
  <2>2. pc[t] \in WaitPlaces /\ "user" \notin WaitPlaces
    BY <1>1 DEF WaitPlaces
  <2>3. Cardinality(Registered') = Cardinality(Registered) - 1
    BY Zenon, <1>1, <2>2, CountMove
  <2> QED BY <1>1, <1>2, <2>1, <2>3, TokenCounts DEF TokensConserved
<1> QED BY Zenon, <1>4, <1>5 DEF TokenInv

\* Under the mutex post adds its count, which is pending until it returns.
LEMMA PostLockTokens ==
    ASSUME SemaInv, TokenInv, NEW t \in Threads, PostLock(t)
    PROVE  TokenInv'
<1>1. /\ pc[t] = "p_lock" /\ mutex = None
      /\ UNCHANGED <<sq, g_to_awake, balance, st>>
  BY Zenon DEF PostLock, threadVars
<1>2. ~InQueue(sq, t)
  BY Zenon, <1>1 DEF TokenInv, WaiterInv, QueuedPlace
<1>3. ASSUME NEW p \in {"again_p", "user"}, pc' = [pc EXCEPT ![t] = p],
             \A u \in Threads \ {t} : arg'[u] = arg[u], UNCHANGED <<val, mutex>>
      PROVE  TokenInv'
  <2>1. WaiterInv'
    BY Zenon, <1>1, <1>2, <1>3, WaiterMove DEF TokenInv
  <2>2. Pending' = Pending
    BY Zenon, <1>1, <1>3, PendingMove
  <2>3. Cardinality(Registered') = Cardinality(Registered)
    BY Zenon, <1>1, <1>3, CountMove DEF WaitPlaces
  <2>4. TokensConserved'
    BY <1>1, <1>3, <2>2, <2>3 DEF TokenInv, TokensConserved
  <2> QED BY Zenon, <2>1, <2>4 DEF TokenInv
<1>4. CASE pc' = [pc EXCEPT ![t] = "again_p"] /\ UNCHANGED <<val, mutex, arg>>
  BY <1>3, <1>4
<1>5. CASE /\ pc' = [pc EXCEPT ![t] = "user"] /\ arg' = [arg EXCEPT ![t] = 0]
           /\ UNCHANGED <<val, mutex>>
  <2>1. \A u \in Threads \ {t} : arg'[u] = arg[u]
    BY Zenon, <1>5 DEF SemaInv, TypeOK
  <2> QED BY <1>3, <1>5, <2>1
<1>6. CASE /\ ~Repeating /\ val' = val + arg[t] /\ mutex' = t
           /\ pc' = [pc EXCEPT ![t] = "p_wake"] /\ UNCHANGED arg
  <2>1. WaiterInv'
    BY Zenon, <1>1, <1>2, <1>6, WaiterMove DEF TokenInv
  <2>2. Pending = 0 /\ Pending' = arg[t] /\ arg[t] \in Nat
    <3>1. pc'[t] = "p_wake" /\ arg[t] \in Nat /\ t # None
      BY Zenon, <1>6, SemaAssumption DEF SemaInv, TypeOK
    <3> QED BY Zenon, <1>1, <1>6, <3>1 DEF Pending
  <2>3. pc[t] \notin WaitPlaces /\ "p_wake" \notin WaitPlaces
    BY <1>1 DEF WaitPlaces
  <2>4. Cardinality(Registered') = Cardinality(Registered)
    BY Zenon, <1>6, <2>3, CountMove
  <2>5. TokensConserved'
    BY <1>1, <1>6, <2>2, <2>4, TokenCounts DEF TokensConserved
  <2> QED BY Zenon, <2>1, <2>5 DEF TokenInv
<1> QED BY Zenon, <1>4, <1>5, <1>6 DEF PostLock, Return, Goto

\* schedule() takes a waiter out that does not repeat its call.
LEMMA PostScheduleTokens ==
    ASSUME SemaInv, TokenInv, NEW t \in Threads, PostSchedule(t)
    PROVE  TokenInv'
<1>1. /\ pc[t] = "p_wake" /\ sq # <<>>
      /\ UNCHANGED <<val, mutex, pc, arg, balance, st>>
  BY Zenon DEF PostSchedule, threadVars
<1>2. sq \in Seq(Threads)
  BY Zenon DEF SemaInv, TypeOK
<1>3. PICK i \in 1..Len(sq) :
         sq' = Unlink(sq, i) /\ g_to_awake' = [g_to_awake EXCEPT ![t] = @ \cup {sq[i]}]
  <2>1. Schedule(sq) \in 1..Len(sq)
    BY Zenon, <1>1, <1>2, SemaAssumption, ScheduleInDomain
  <2> QED BY Zenon, <2>1 DEF PostSchedule
<1>4. PICK u \in Threads : u = sq[i]
  BY <1>2, <1>3
<1>5. /\ ~InQueue(sq', u) /\ QueuedOnce'
      /\ \A v : v # u => (InQueue(sq', v) <=> InQueue(sq, v))
  <2>1. ~InQueue(sq', u) /\ QueuedOnce'
    <3>1. QueuedOnce
      BY Zenon DEF TokenInv, WaiterInv
    <3>2. /\ ~InQueue(Unlink(sq, i), sq[i])
          /\ \A j, k \in DOMAIN Unlink(sq, i) : Unlink(sq, i)[j] = Unlink(sq, i)[k] => j = k
      BY Zenon, <1>2, <3>1, UnlinkOnce DEF QueuedOnce
    <3> QED BY Zenon, <1>3, <1>4, <3>2 DEF QueuedOnce
  <2>2. \A v : v # u => (InQueue(sq', v) <=> InQueue(sq, v))
    BY Zenon, <1>2, <1>3, <1>4, UnlinkMembers
  <2> QED BY <2>1, <2>2
<1>6. \A v \in Threads : g_to_awake'[v] \subseteq g_to_awake[v] \cup {u}
  BY <1>3, <1>4 DEF SemaInv, TypeOK
<1>7. \A v \in Threads : pc[v] # "again_w"
  BY Zenon, <1>1 DEF TokenInv, WaiterInv, RepeatSpared
<1>8. \A v \in Threads : InQueue(sq', v) => InQueue(sq, v)
  BY Zenon, <1>5
<1>9. WaiterInv'
  <2>1. QueuedPlace' /\ QueuedAsleep' /\ RepeatQueued' /\ RepeatSpared' /\ LapsedTimed'
    BY Zenon, <1>1, <1>7, <1>8 DEF TokenInv, WaiterInv, QueuedPlace, QueuedAsleep, RepeatQueued,
       RepeatSpared, LapsedTimed
  <2>2. ScheduledLeft'
    BY Zenon, <1>5, <1>6, <1>8 DEF TokenInv, WaiterInv, ScheduledLeft
  <2> QED BY Zenon, <1>5, <2>1, <2>2 DEF WaiterInv
<1>10. TokensConserved'
  BY Zenon, <1>1 DEF TokenInv, TokensConserved, Pending, Registered
<1> QED BY Zenon, <1>9, <1>10 DEF TokenInv

\* awake_all() wakes nobody that is queued; the post returns and its count is the
\* clients'.
LEMMA PostAwakeAllTokens ==
    ASSUME SemaInv, TokenInv, NEW t \in Threads, PostAwakeAll(t)
    PROVE  TokenInv'
<1>1. /\ pc[t] = "p_wake" /\ mutex' = None
      /\ g_to_awake' = [g_to_awake EXCEPT ![t] = {}]
      /\ pc' = [pc EXCEPT ![t] = "user"] /\ arg' = [arg EXCEPT ![t] = 0]
      /\ balance' = balance + arg[t] /\ UNCHANGED <<val, sq>>
  BY Zenon DEF PostAwakeAll, ReturnPosted, Return, Goto
<1>2. \A u \in Threads : u \notin g_to_awake[t] => st'[u] = st[u]
  BY Zenon DEF PostAwakeAll, Awake, SemaInv, TypeOK, ThreadsTypeOK
<1>3. /\ pc'[t] = "user" /\ \A u \in Threads \ {t} : pc'[u] = pc[u] /\ arg'[u] = arg[u]
      /\ \A u, v \in Threads : v \in g_to_awake'[u] => v \in g_to_awake[u]
  BY <1>1 DEF SemaInv, TypeOK
<1>4. ~InQueue(sq, t)
  BY Zenon, <1>1 DEF TokenInv, WaiterInv, QueuedPlace
<1>5. WaiterInv'
  <2>1. QueuedOnce' /\ ScheduledLeft'
    BY Zenon, <1>1, <1>3 DEF TokenInv, WaiterInv, QueuedOnce, ScheduledLeft
  <2>2. QueuedPlace' /\ RepeatQueued' /\ RepeatSpared' /\ LapsedTimed'
    BY Zenon, <1>1, <1>3, <1>4 DEF TokenInv, WaiterInv, QueuedPlace, RepeatQueued, RepeatSpared,
       LapsedTimed
  <2>3. QueuedAsleep'
    BY Zenon, <1>1, <1>2, <1>3 DEF TokenInv, WaiterInv, QueuedAsleep, ScheduledLeft
  <2> QED BY Zenon, <2>1, <2>2, <2>3 DEF WaiterInv
<1>6. TokensConserved'
  <2>1. Pending = arg[t] /\ Pending' = 0 /\ arg[t] \in Nat
    <3>1. mutex = t /\ t # None /\ arg[t] \in Nat
      BY Zenon, <1>1, SemaAssumption DEF SemaInv, TypeOK, QueueInv
    <3> QED BY Zenon, <1>1, <3>1 DEF Pending
  <2>2. pc[t] \notin WaitPlaces /\ "user" \notin WaitPlaces
    BY <1>1 DEF WaitPlaces
  <2>3. Cardinality(Registered') = Cardinality(Registered)
    BY Zenon, <1>1, <2>2, CountMove
  <2> QED BY <1>1, <2>1, <2>3, TokenCounts DEF TokensConserved
<1> QED BY Zenon, <1>5, <1>6 DEF TokenInv

\* trywait takes a token; destroy and the request of a savestate take none.
LEMMA OtherTokens ==
    ASSUME SemaInv, TokenInv,
           \/ \E t \in Threads : TryWait(t) \/ Destroy(t)
           \/ Stop
           \/ UNCHANGED vars
    PROVE  TokenInv'
<1>1. UNCHANGED <<sq, mutex, pc, arg, g_to_awake, st>>
  BY Zenon DEF TryWait, Destroy, Stop, vars, semaVars, localVars, threadVars
<1>2. \/ UNCHANGED <<val, balance>>
      \/ val' = val - 1 /\ balance' = balance - 1
  BY Zenon DEF TryWait, Destroy, Stop, vars, semaVars
<1>3. WaiterInv'
  BY Zenon, <1>1 DEF TokenInv, WaiterInv, QueuedOnce, QueuedPlace, QueuedAsleep, RepeatQueued,
     RepeatSpared, ScheduledLeft, LapsedTimed
<1>4. Pending' = Pending /\ Registered' = Registered
  BY Zenon, <1>1 DEF Pending, Registered
<1>5. TokensConserved'
  BY <1>2, <1>4, TokenCounts DEF TokensConserved
<1> QED BY Zenon, <1>3, <1>5 DEF TokenInv

\* The waiters that repeat their calls are the queued ones, so that the val that
\* save() writes, max(val, 0), is what the clients were given.
LEMMA ReloadTokens ==
    ASSUME SemaInv, TokenInv, Reload
    PROVE  TokenInv'
<1>1. /\ sq' = <<>> /\ val' = SavedVal(val)
      /\ UNCHANGED <<mutex, arg, g_to_awake, balance>>
  BY Zenon DEF Reload, localVars
<1>2. \A t \in Threads : pc[t] \in {"halted", "again_w", "again_p", "redo_w", "redo_p"}
  BY Zenon DEF Reload
<1>3. \A t \in Threads : pc'[t] \in {"user", "redo_w", "redo_p"}
  BY DEF Reload
<1>4. mutex = None
  BY Zenon, <1>2 DEF SemaInv, TypeOK, QueueInv
<1>5. DOMAIN sq' = {} /\ \A t : ~InQueue(sq', t)
  BY <1>1 DEF InQueue
<1>6. WaiterInv'
  BY Zenon, <1>3, <1>5 DEF WaiterInv, QueuedOnce, QueuedPlace, QueuedAsleep, RepeatQueued,
     RepeatSpared, ScheduledLeft, LapsedTimed
<1>7. Cardinality(Registered) = Len(sq)
  <2>1. sq \in [1..Len(sq) -> Threads] /\ Len(sq) \in Nat /\ DOMAIN sq = 1..Len(sq)
    BY DEF SemaInv, TypeOK
  <2>2. \A t \in Threads : t \in Registered <=> InQueue(sq, t)
    BY Zenon, <1>2 DEF TokenInv, WaiterInv, QueuedPlace, RepeatQueued, Registered
  <2>3. \A i \in 1..Len(sq) : sq[i] \in Registered
    BY Zenon, <2>1, <2>2 DEF InQueue
  <2>4. \A t \in Registered : \E i \in 1..Len(sq) : sq[i] = t
    BY Zenon, <2>1, <2>2 DEF InQueue, Registered
  <2>5. \A i, j \in 1..Len(sq) : sq[i] = sq[j] => i = j
    BY Zenon, <2>1 DEF TokenInv, WaiterInv, QueuedOnce
  <2>6. sq \in [1..Len(sq) -> Registered]
    BY <2>1, <2>3
  <2>7. sq \in Bijection(1..Len(sq), Registered)
    BY Zenon, <2>1, <2>4, <2>5, <2>6 DEF Bijection, Injection, Surjection, IsInjective
  <2> QED BY Zenon, <2>1, <2>7, FS_CountingElements DEF ExistsBijection
<1>8. Registered' = {} /\ Pending = 0 /\ Pending' = 0
  BY Zenon, <1>1, <1>3, <1>4 DEF Registered, Pending
<1>9. Cardinality(Registered') = 0
  BY Zenon, <1>8, FS_EmptySet
<1>10. Len(sq) = Deficit(val) /\ val \in Int /\ balance \in Int
  BY Zenon, <1>4 DEF SemaInv, TypeOK, QueueInv, WaitersMatchValue
<1>11. val = balance - Deficit(val)
  BY <1>7, <1>8, <1>10 DEF TokenInv, TokensConserved, Deficit
<1>12. TokensConserved'
  BY <1>1, <1>8, <1>9, <1>10, <1>11 DEF TokensConserved, SavedVal, Deficit
<1> QED BY Zenon, <1>6, <1>12 DEF TokenInv

\* Tokens are conserved in every behaviour in which a savestate does not stop a
\* timed wait: whatever the interleaving of the lock-free paths, the queue, the
\* timeouts, the savestates and the reloads, val is what the clients were given
\* less what they took, up to the calls that are still in progress.
THEOREM TokensAreConserved == Spec /\ []UntimedStops => []TokensConserved
<1>1. ASSUME SemaInv, TokenInv, UntimedStops, [Next]_vars PROVE TokenInv'
  BY Zenon, <1>1, OutsideTokens, WaitLockTokens, WaitEndTokens, WaitSleepTokens, WaitLoopTokens,
     WaitExpiredTokens, WaitRestoreTokens, PostLockTokens, PostScheduleTokens,
     PostAwakeAllTokens, OtherTokens, ReloadTokens
  DEF Next, Wait, Post
<1>2. TokenInv => TokensConserved
  BY DEF TokenInv
<1> QED BY InitTokens, SemaInvariant, <1>1, <1>2, PTL DEF Spec

=============================================================================
