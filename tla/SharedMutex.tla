----------------------------- MODULE SharedMutex -----------------------------
(***************************************************************************)
(* shared_mutex (Utilities/mutex.h, mutex.cpp), the host lock that every   *)
(* lv2 object is guarded by: one atomic word that counts                   *)
(*                                                                         *)
(*   c_one for the writer and for every waiting thread, 1 for every        *)
(*   reader, and c_sig for a signal: the lock is passed on.                *)
(*                                                                         *)
(* Each step is one atomic operation on the word that succeeds.  Loads and *)
(* failed compare-and-swaps before it (the spinning) change nothing; a     *)
(* thread may stop spinning at any time.  wait() blocks only if the word   *)
(* is what the failed test saw, so that test and wait() are one step.      *)
(* A wait that returns without a notification repeats the test and does    *)
(* not add a behaviour.                                                    *)
(***************************************************************************)
EXTENDS Integers, FiniteSets

CONSTANTS Threads,
          c_one,   \* 1 << 14
          c_sig    \* 1 << 30

\* Fewer readers than c_one - 1, and room for every thread below c_sig.
ASSUME SharedMutexAssumption ==
    /\ IsFiniteSet(Threads)
    /\ c_one \in Nat /\ c_sig \in Nat
    /\ Cardinality(Threads) + 1 < c_one
    /\ c_one * (Cardinality(Threads) + 1) <= c_sig

VARIABLES m_value,
          pc,       \* where each thread is
          op,       \* what it waits for: "w" lock, "r" lock_shared, "u" lock_unlock
          max,      \* _max of lock_unlock
          since     \* history: who held the lock when its lock_unlock began

vars == <<m_value, pc, op, max, since>>

\* "w" and "r" hold the lock for the caller; "down" and "lu" inside lock_shared and
\* lock_unlock.
Places == {"idle", "w", "r", "down", "lu", "lu_spin", "wait", "parked", "signal", "notify"}

SharedTypeOK ==
    /\ m_value \in 0..(2 * c_sig - 1)
    /\ pc \in [Threads -> Places]
    /\ op \in [Threads -> {"w", "r", "u"}]

Init ==
    /\ m_value = 0
    /\ pc = [t \in Threads |-> "idle"]
    /\ op = [t \in Threads |-> "w"]
    /\ max = [t \in Threads |-> 0]
    /\ since = [t \in Threads |-> {}]

-----------------------------------------------------------------------------
Goto(t, to) == pc' = [pc EXCEPT ![t] = to]

\* The end of a critical section.
Left(t) == since' = [u \in Threads |-> since[u] \ {t}]

\* Where a thread goes on that has got a slot of c_one and the lock with it.
Granted(o) == CASE o = "w" -> "w" [] o = "r" -> "down" [] o = "u" -> "lu"

\* fetch_add(c_one): the lock was free, or wait for it.
Add(t, o) ==
    /\ m_value' = m_value + c_one
    /\ op' = [op EXCEPT ![t] = o]
    /\ Goto(t, IF m_value = 0 THEN Granted(o) ELSE "wait")

\* Mutant: the signal is stolen but left set.
Lock_Mutant(t) ==
    /\ pc[t] = "idle"
    /\ \/ /\ m_value >= c_sig
          /\ m_value' = m_value + c_one
          /\ Goto(t, "w")
          /\ UNCHANGED op
       \/ Add(t, "w")
    /\ UNCHANGED <<max, since>>

\* lock, and imp_lock: steal the notification bit, or queue.
Lock(t) ==
    /\ pc[t] = "idle"
    /\ \/ /\ m_value >= c_sig
          /\ m_value' = m_value - c_sig + c_one
          /\ Goto(t, "w")
          /\ UNCHANGED op
       \/ Add(t, "w")
    /\ UNCHANGED <<max, since>>

\* lock_shared, and imp_lock_shared.
LockShared(t) ==
    /\ pc[t] = "idle"
    /\ \/ /\ m_value < c_one - 1
          /\ m_value' = m_value + 1
          /\ Goto(t, "r")
          /\ UNCHANGED op
       \/ /\ m_value >= c_sig
          /\ m_value' = m_value - c_sig + 1
          /\ Goto(t, "r")
          /\ UNCHANGED op
       \/ Add(t, "r")
    /\ UNCHANGED <<max, since>>

\* Mutant: the reader is not counted.
Downgrade_Mutant(t) ==
    /\ pc[t] \in {"down", "w"}
    /\ m_value' = m_value - c_one
    /\ Goto(t, "r")
    /\ UNCHANGED <<op, max, since>>

\* lock_downgrade, also the end of imp_lock_shared.
Downgrade(t) ==
    /\ pc[t] \in {"down", "w"}
    /\ m_value' = m_value - (c_one - 1)
    /\ Goto(t, "r")
    /\ UNCHANGED <<op, max, since>>

\* lock_upgrade: the only reader becomes the writer, another one gives up its
\* critical section and waits.
Upgrade(t) ==
    /\ pc[t] = "r"
    /\ m_value' = m_value + (c_one - 1)
    /\ op' = [op EXCEPT ![t] = "w"]
    /\ \/ m_value % c_one = 1 /\ Goto(t, "w") /\ UNCHANGED since
       \/ m_value % c_one # 1 /\ Goto(t, "wait") /\ Left(t)
    /\ UNCHANGED max

-----------------------------------------------------------------------------
\* imp_wait: take the signal, or block.
Take(t) ==
    /\ pc[t] = "wait"
    /\ m_value >= c_sig
    /\ m_value' = m_value - c_sig
    /\ Goto(t, Granted(op[t]))
    /\ UNCHANGED <<op, max, since>>

Park(t) ==
    /\ pc[t] = "wait"
    /\ m_value < c_sig
    /\ Goto(t, "parked")
    /\ UNCHANGED <<m_value, op, max, since>>

\* imp_signal: the signal, then notify_one().
Signal(t) ==
    /\ pc[t] = "signal"
    /\ m_value' = m_value + c_sig
    /\ Goto(t, "notify")
    /\ UNCHANGED <<op, max, since>>

Parked == {t \in Threads : pc[t] = "parked"}

Notify(t) ==
    /\ pc[t] = "notify"
    /\ \/ \E u \in Parked : pc' = [pc EXCEPT ![t] = "idle", ![u] = "wait"]
       \/ Parked = {} /\ Goto(t, "idle")
    /\ UNCHANGED <<m_value, op, max, since>>

\* Mutant: the last reader signals only when a single thread waits.
UnlockShared_Mutant(t) ==
    /\ pc[t] = "r"
    /\ m_value' = m_value - 1
    /\ Goto(t, IF m_value - 1 = c_one THEN "signal" ELSE "idle")
    /\ Left(t)
    /\ UNCHANGED <<op, max>>

\* unlock_shared, imp_unlock_shared: the last reader signals a waiting thread.
UnlockShared(t) ==
    /\ pc[t] = "r"
    /\ m_value' = m_value - 1
    /\ Goto(t, IF m_value >= c_one /\ (m_value - 1) % c_one = 0 THEN "signal" ELSE "idle")
    /\ Left(t)
    /\ UNCHANGED <<op, max>>

\* unlock, imp_unlock: signal unless the word is 0.
Unlock(t) ==
    /\ pc[t] \in {"w", "lu"}
    /\ m_value' = m_value - c_one
    /\ Goto(t, IF m_value # c_one THEN "signal" ELSE "idle")
    /\ Left(t)
    /\ UNCHANGED <<op, max>>

-----------------------------------------------------------------------------
Holding(t) == pc[t] \in {"w", "r", "down", "lu"}

\* lock_unlock finds the lock taken.
LockUnlock(t) ==
    /\ pc[t] = "idle"
    /\ m_value # 0
    /\ max' = [max EXCEPT ![t] = 1]
    /\ since' = [since EXCEPT ![t] = {u \in Threads : Holding(u)}]
    /\ Goto(t, "lu_spin")
    /\ UNCHANGED <<m_value, op>>

\* Mutant: the number of waiters need not have decreased.
Lockable_Mutant(t) ==
    /\ m_value % c_one = 0
    /\ m_value \div c_one <= max[t] \/ m_value >= c_sig

\* "Return if have cought a state where" the lock is free, the number of waiters
\* has decreased, or the signal is set.
Lockable(t) ==
    /\ m_value % c_one = 0
    /\ m_value \div c_one < max[t] \/ m_value >= c_sig

\* imp_lock_unlock: one look at the word, and lock and unlock after the last.
LockUnlockSpin(t) ==
    /\ pc[t] = "lu_spin"
    /\ \/ Lockable(t) /\ Goto(t, "idle") /\ UNCHANGED <<m_value, op>>
       \/ ~Lockable(t) /\ UNCHANGED <<m_value, op, pc>>
       \/ Add(t, "u")
    /\ max' = [max EXCEPT ![t] = IF pc'[t] = "lu_spin" THEN m_value \div c_one ELSE 0]
    /\ UNCHANGED since

-----------------------------------------------------------------------------
MutexStep(t) ==
    \/ Lock(t) \/ LockShared(t) \/ Downgrade(t) \/ Upgrade(t)
    \/ Take(t) \/ Park(t) \/ Signal(t) \/ Notify(t)
    \/ UnlockShared(t) \/ Unlock(t)
    \/ LockUnlock(t) \/ LockUnlockSpin(t)

Next == \E t \in Threads : MutexStep(t)

Spec == Init /\ [][Next]_vars

-----------------------------------------------------------------------------
\* Properties

At(places) == {t \in Threads : pc[t] \in places}

Writers == At({"w", "lu", "down"})
Readers == At({"r"})
Waiters == At({"wait", "parked"})

\* A writer holds the lock alone.
Exclusion ==
    /\ Cardinality(Writers) <= 1
    /\ Writers # {} => Readers = {}

\* The word counts the threads exactly, whatever was stolen, upgraded or
\* downgraded: none of the "underflow" and "overflow" checks can fail.
WordCounts ==
    m_value % c_sig = c_one * Cardinality(Writers \cup Waiters) + Cardinality(Readers)

\* If threads wait and nobody holds the lock, then it is being passed on: once, by
\* the signal or by a thread about to set it; and a blocked thread will be notified
\* if no other one is there to take the signal.
PassedOn ==
    LET signals == m_value \div c_sig + Cardinality(At({"signal"})) IN
    /\ signals <= 1
    /\ signals = 1 <=> (Waiters # {} /\ Writers = {} /\ Readers = {})
    /\ m_value >= c_sig => At({"wait", "notify"}) # {}

\* What lock_unlock is used for: when it returns, every critical section that it met
\* is over, also when it only looked at the number of waiters.
LockUnlockWaits == \A t \in Threads : pc[t] = "idle" => since[t] = {}

=============================================================================
