--------------------------- MODULE HostLockProofs ---------------------------
(***************************************************************************)
(* Proofs about shared_mutex, for any set of threads that fits the word,   *)
(* and about cond_variable, for any limits of its counts.                  *)
(***************************************************************************)
EXTENDS CondVariable, FiniteSetTheorems, TLAPS

SlotPlaces == {"w", "lu", "down", "wait", "parked"}

On(f, P) == {t \in Threads : f[t] \in P}

\* The threads that the word counts with c_one, and those that it counts with 1.
W == Cardinality(On(pc, SlotPlaces))
R == Cardinality(On(pc, {"r"}))

Signalled == m_value >= c_sig

\* The word, and who may be where: the lock is held by one writer or by readers, or
\* passed on by one thread about to signal or by the signal, and never more than one
\* of these; if threads wait then it is one of these.
WordInv == m_value = c_one * W + R + (IF Signalled THEN c_sig ELSE 0)

PhaseInv ==
    /\ Signalled => \A u \in Threads : pc[u] \notin {"w", "lu", "down", "r", "signal"}
    /\ \A t, u \in Threads :
        /\ pc[t] \in {"w", "lu", "down", "signal"} /\ t # u
            => pc[u] \notin {"w", "lu", "down", "r", "signal"}
    /\ Signalled \/ (\E t \in Threads : pc[t] = "signal")
        => \E t \in Threads : pc[t] \in {"wait", "parked"}
    /\ (\E t \in Threads : pc[t] \in {"wait", "parked"})
        => Signalled \/ \E t \in Threads : pc[t] \in {"w", "lu", "down", "r", "signal"}
    /\ Signalled => \E t \in Threads : pc[t] \in {"wait", "notify"}

SharedInv == SharedTypeOK /\ WordInv /\ PhaseInv

-----------------------------------------------------------------------------
\* Arithmetic

\* Quotient and remainder of a number given by them.
LEMMA DivMod ==
    ASSUME NEW c \in Nat \ {0}, NEW a \in Nat, NEW b \in 0..(c - 1)
    PROVE  (c * a + b) % c = b /\ (c * a + b) \div c = a
<1> DEFINE x == c * a + b
           q == x \div c
           r == x % c
<1>1. x \in Nat
  OBVIOUS
<1>2. q \in Nat /\ r \in 0..(c - 1) /\ x = c * q + r
  BY <1>1
<1> HIDE DEF q, r
<1>3. c * (a - q) = r - b
  BY <1>2
<1>4. CASE a - q >= 1
  <2>1. c * (a - q) >= c
    BY <1>2, <1>4
  <2> QED BY <2>1, <1>3, <1>2
<1>5. CASE a - q <= -1
  <2>1. c * (a - q) <= -c
    BY <1>2, <1>5
  <2> QED BY <2>1, <1>3, <1>2
<1>6. CASE a = q
  BY <1>3, <1>6, <1>2 DEF q, r
<1> QED BY <1>4, <1>5, <1>6, <1>2

\* What the threads add to the word stays below the signal.
LEMMA LowBound ==
    ASSUME NEW w \in Nat, NEW r \in Nat, w + r <= Cardinality(Threads)
    PROVE  /\ c_one \in Nat /\ c_sig \in Nat /\ c_one > 1
           /\ c_one * w + r \in Nat
           /\ c_one * w + r + c_one <= c_sig
           /\ r < c_one - 1
           /\ w = 0 => c_one * w = 0
           /\ w >= 1 => c_one * w >= c_one
           /\ c_one * (w + 1) = c_one * w + c_one
           /\ c_one * (w - 1) = c_one * w - c_one
           /\ (c_one * w + r) % c_one = r
<1> DEFINE n == Cardinality(Threads)
<1>1. n \in Nat
  BY SharedMutexAssumption, FS_CardinalityType
<1> HIDE DEF n
<1>2. /\ c_one \in Nat /\ c_sig \in Nat /\ n + 1 < c_one /\ c_one * (n + 1) <= c_sig
  BY SharedMutexAssumption DEF n
<1>3. w + r <= n /\ w \in 0..n /\ r < c_one - 1
  BY <1>1, <1>2 DEF n
<1>4. c_one * w + r <= c_one * n
  <2>1. c_one * (w + r) <= c_one * n
    BY <1>1, <1>2, <1>3
  <2>2. c_one * (w + r) = c_one * w + c_one * r
    BY <1>2
  <2>3. r <= c_one * r
    BY <1>1, <1>2
  <2> QED BY <2>1, <2>2, <2>3, <1>1, <1>2
<1>5. c_one * (n + 1) = c_one * n + c_one
  BY <1>1, <1>2
<1>6. (c_one * w + r) % c_one = r
  <2>1. c_one \in Nat \ {0} /\ r \in 0..(c_one - 1)
    BY <1>1, <1>2, <1>3
  <2> QED BY <2>1, DivMod
<1>7. w >= 1 => c_one * w >= c_one
  BY <1>2
<1> QED BY <1>1, <1>2, <1>3, <1>4, <1>5, <1>6, <1>7

-----------------------------------------------------------------------------
\* Counting

\* The threads at some places are counted by a natural number.
LEMMA OnFinite ==
    ASSUME NEW f, NEW P
    PROVE  /\ IsFiniteSet(On(f, P)) /\ Cardinality(On(f, P)) \in Nat
           /\ Cardinality(On(f, P)) = 0 <=> \A t \in Threads : f[t] \notin P
<1>1. On(f, P) \in SUBSET Threads
  BY DEF On
<1>2. On(f, P) = {} <=> \A t \in Threads : f[t] \notin P
  BY DEF On
<1> QED BY <1>1, <1>2, FS_Subset, FS_CardinalityType, FS_EmptySet, SharedMutexAssumption

\* One thread moves.
LEMMA OnMove ==
    ASSUME NEW P, NEW t \in Threads, NEW x, NEW f, NEW g,
           g[t] = x, \A u \in Threads \ {t} : g[u] = f[u]
    PROVE  /\ (x \in P <=> f[t] \in P) => Cardinality(On(g, P)) = Cardinality(On(f, P))
           /\ x \in P /\ f[t] \notin P => Cardinality(On(g, P)) = Cardinality(On(f, P)) + 1
           /\ x \notin P /\ f[t] \in P => Cardinality(On(g, P)) = Cardinality(On(f, P)) - 1
<1> DEFINE A == On(f, P)
           B == On(g, P)
<1>1. IsFiniteSet(A)
  BY OnFinite
<1>2. t \in A <=> f[t] \in P
  BY DEF On
<1>3. x \in P => B = A \cup {t}
  BY DEF On
<1>4. x \notin P => B = A \ {t}
  BY DEF On
<1> HIDE DEF A, B
<1>5. /\ Cardinality(A \cup {t}) = IF t \in A THEN Cardinality(A) ELSE Cardinality(A) + 1
      /\ Cardinality(A \ {t}) = IF t \in A THEN Cardinality(A) - 1 ELSE Cardinality(A)
  BY Zenon, <1>1, FS_AddElement, FS_RemoveElement
<1>6. /\ (x \in P <=> t \in A) => Cardinality(B) = Cardinality(A)
      /\ x \in P /\ t \notin A => Cardinality(B) = Cardinality(A) + 1
      /\ x \notin P /\ t \in A => Cardinality(B) = Cardinality(A) - 1
  BY <1>3, <1>4, <1>5
<1> QED BY <1>2, <1>6 DEF A, B

\* Slots and readers are different threads, so the word has room for them.
LEMMA OnBound ==
    ASSUME NEW f
    PROVE  /\ Cardinality(On(f, SlotPlaces)) \in Nat /\ Cardinality(On(f, {"r"})) \in Nat
           /\ Cardinality(On(f, SlotPlaces)) + Cardinality(On(f, {"r"})) <= Cardinality(Threads)
<1> DEFINE A == On(f, SlotPlaces)
           B == On(f, {"r"})
<1>1. /\ IsFiniteSet(A) /\ IsFiniteSet(B) /\ Cardinality(A) \in Nat /\ Cardinality(B) \in Nat
  BY OnFinite
<1>2. A \cap B = {} /\ A \cup B \in SUBSET Threads
  BY DEF On, SlotPlaces
<1> HIDE DEF A, B
<1>3. Cardinality(A \cup B) = Cardinality(A) + Cardinality(B)
  <2>1. Cardinality(A \cup B) = Cardinality(A) + Cardinality(B) - Cardinality(A \cap B)
    BY <1>1, FS_Union
  <2>2. Cardinality(A \cap B) = 0
    BY <1>2, FS_EmptySet
  <2> QED BY <1>1, <2>1, <2>2
<1>4. Cardinality(A \cup B) <= Cardinality(Threads)
  BY <1>2, FS_Subset, SharedMutexAssumption
<1> QED BY <1>1, <1>3, <1>4 DEF A, B

\* What the word tells of the threads.
LEMMA Reading ==
    ASSUME SharedInv
    PROVE  /\ W \in Nat /\ R \in Nat /\ W + R <= Cardinality(Threads)
           /\ m_value \in Nat
           /\ R = 0 <=> \A t \in Threads : pc[t] # "r"
           /\ W = 0 <=> \A t \in Threads : pc[t] \notin SlotPlaces
           /\ m_value < c_one => ~Signalled /\ W = 0
           /\ m_value = 0 => R = 0
           /\ m_value # 0 => Signalled \/ \E t \in Threads : pc[t] \in SlotPlaces \cup {"r"}
           /\ ~Signalled => m_value = c_one * W + R /\ m_value % c_one = R
           /\ Signalled => R = 0 /\ W > 0 /\ m_value = c_one * W + R + c_sig
<1>1. W \in Nat /\ R \in Nat /\ W + R <= Cardinality(Threads)
  BY OnBound DEF W, R
<1>2. /\ R = 0 <=> \A t \in Threads : pc[t] # "r"
      /\ W = 0 <=> \A t \in Threads : pc[t] \notin SlotPlaces
  BY OnFinite DEF W, R
<1>3. Signalled => R = 0 /\ W > 0
  BY <1>1, <1>2 DEF SharedInv, PhaseInv, SlotPlaces
<1>4. m_value = c_one * W + R + (IF Signalled THEN c_sig ELSE 0)
  BY DEF SharedInv, WordInv
<1> HIDE DEF W, R
<1>5. /\ c_one \in Nat /\ c_sig \in Nat /\ c_one > 1
      /\ c_one * W + R \in Nat /\ c_one * W + R + c_one <= c_sig
      /\ (c_one * W + R) % c_one = R
      /\ W >= 1 => c_one * W >= c_one
      /\ W = 0 => c_one * W = 0
  BY Zenon, <1>1, LowBound
<1>6. m_value \in Nat
  BY <1>4, <1>5
<1>7. m_value < c_one => ~Signalled /\ W = 0
  BY <1>1, <1>4, <1>5, <1>6 DEF Signalled
<1>8. m_value = 0 => R = 0
  BY <1>1, <1>4, <1>5, <1>7
<1>9. m_value # 0 => Signalled \/ W # 0 \/ R # 0
  BY <1>4, <1>5
<1>10. m_value # 0 => Signalled \/ \E t \in Threads : pc[t] \in SlotPlaces \cup {"r"}
  BY <1>2, <1>9
<1> QED BY <1>1, <1>2, <1>3, <1>4, <1>5, <1>6, <1>7, <1>8, <1>10

\* The counts after one thread has moved, and the room that they have in the word.
LEMMA Moving ==
    ASSUME SharedInv, NEW t \in Threads, NEW x, Goto(t, x)
    PROVE  /\ (x \in SlotPlaces <=> pc[t] \in SlotPlaces) => W' = W
           /\ x \in SlotPlaces /\ pc[t] \notin SlotPlaces => W' = W + 1
           /\ x \notin SlotPlaces /\ pc[t] \in SlotPlaces => W' = W - 1
           /\ (x = "r" <=> pc[t] = "r") => R' = R
           /\ x = "r" /\ pc[t] # "r" => R' = R + 1
           /\ x # "r" /\ pc[t] = "r" => R' = R - 1
           /\ W' \in Nat /\ R' \in Nat
           /\ c_one * W' + R' \in Nat /\ c_one * W' + R' + c_one <= c_sig
           /\ c_one * (W + 1) = c_one * W + c_one
           /\ c_one * (W - 1) = c_one * W - c_one
           /\ R' = 0 <=> \A u \in Threads : pc'[u] # "r"
           /\ W' = 0 <=> \A u \in Threads : pc'[u] \notin SlotPlaces
<1>1. pc'[t] = x /\ \A u \in Threads \ {t} : pc'[u] = pc[u]
  BY DEF SharedInv, SharedTypeOK, Goto
<1> DEFINE Counts(P) ==
              /\ (x \in P <=> pc[t] \in P) => Cardinality(On(pc', P)) = Cardinality(On(pc, P))
              /\ x \in P /\ pc[t] \notin P => Cardinality(On(pc', P)) = Cardinality(On(pc, P)) + 1
              /\ x \notin P /\ pc[t] \in P => Cardinality(On(pc', P)) = Cardinality(On(pc, P)) - 1
<1>c. ASSUME NEW P PROVE Counts(P)
  BY <1>1, OnMove
<1>2. /\ (x \in SlotPlaces <=> pc[t] \in SlotPlaces) => W' = W
      /\ x \in SlotPlaces /\ pc[t] \notin SlotPlaces => W' = W + 1
      /\ x \notin SlotPlaces /\ pc[t] \in SlotPlaces => W' = W - 1
  BY <1>c DEF W
<1>3. /\ (x \in {"r"} <=> pc[t] \in {"r"}) => R' = R
      /\ x \in {"r"} /\ pc[t] \notin {"r"} => R' = R + 1
      /\ x \notin {"r"} /\ pc[t] \in {"r"} => R' = R - 1
  BY <1>c DEF R
<1>4. W' \in Nat /\ R' \in Nat /\ W' + R' <= Cardinality(Threads)
  BY OnBound DEF W, R
<1>5. /\ R' = 0 <=> \A u \in Threads : pc'[u] # "r"
      /\ W' = 0 <=> \A u \in Threads : pc'[u] \notin SlotPlaces
  BY OnFinite DEF W, R
<1>6. W \in Nat /\ R \in Nat /\ W + R <= Cardinality(Threads)
  BY OnBound DEF W, R
<1> HIDE DEF W, R
<1>7. c_one * W' + R' \in Nat /\ c_one * W' + R' + c_one <= c_sig
  BY <1>4, LowBound
<1>8. c_one * (W + 1) = c_one * W + c_one /\ c_one * (W - 1) = c_one * W - c_one
  BY Zenon, <1>6, LowBound
<1> QED BY <1>2, <1>3, <1>4, <1>5, <1>7, <1>8

\* A step that moves one thread and leaves in the word the new counts and, if sig, the
\* signal.
LEMMA Settled ==
    ASSUME SharedInv, NEW t \in Threads, NEW x \in Places, Goto(t, x),
           op' \in [Threads -> {"w", "r", "u"}],
           NEW sig \in BOOLEAN, m_value' = c_one * W' + R' + (IF sig THEN c_sig ELSE 0)
    PROVE  SharedTypeOK' /\ WordInv' /\ (Signalled' <=> sig)
<1>1. /\ c_one * W' + R' \in Nat /\ c_one * W' + R' + c_one <= c_sig
      /\ c_one \in Nat /\ c_sig \in Nat /\ c_one > 1
  BY Moving, SharedMutexAssumption, FS_CardinalityType
<1>2. m_value' \in 0..(2 * c_sig - 1) /\ (m_value' >= c_sig <=> sig)
  BY <1>1
<1>3. pc' \in [Threads -> Places]
  BY DEF SharedInv, SharedTypeOK, Goto
<1> QED BY <1>2, <1>3 DEF SharedTypeOK, WordInv, Signalled

-----------------------------------------------------------------------------
\* The steps

\* fetch_add(c_one), from a place that the word does not count.
LEMMA AddInv ==
    ASSUME SharedInv, NEW t \in Threads, NEW o \in {"w", "r", "u"},
           pc[t] \in {"idle", "lu_spin"}, Add(t, o)
    PROVE  SharedInv'
<1> DEFINE x == IF m_value = 0 THEN Granted(o) ELSE "wait"
<1>1. Goto(t, x) /\ m_value' = m_value + c_one /\ op' \in [Threads -> {"w", "r", "u"}]
  BY DEF Add, SharedInv, SharedTypeOK
<1>2. x \in SlotPlaces /\ x \in Places /\ (m_value = 0 => x \in {"w", "lu", "down"})
  BY DEF SlotPlaces, Places, Granted
<1>3. pc[t] \notin SlotPlaces /\ pc[t] # "r" /\ x # "r"
  BY DEF SlotPlaces, Granted
<1>4. x # "wait" <=> m_value = 0
  BY DEF Granted
<1> HIDE DEF x
<1>5. W' = W + 1 /\ R' = R /\ c_one * (W + 1) = c_one * W + c_one
  BY <1>1, <1>2, <1>3, Moving
<1>6. /\ W \in Nat /\ R \in Nat /\ c_one \in Nat /\ c_sig \in Nat
      /\ m_value = c_one * W + R + (IF Signalled THEN c_sig ELSE 0)
  BY Reading, SharedMutexAssumption DEF SharedInv, WordInv
<1>7. m_value' = c_one * W' + R' + (IF Signalled THEN c_sig ELSE 0)
  BY <1>1, <1>5, <1>6
<1>8. SharedTypeOK' /\ WordInv' /\ (Signalled' <=> Signalled)
  <2>1. Signalled \in BOOLEAN
    BY DEF Signalled
  <2> QED BY <1>1, <1>2, <1>7, <2>1, Settled
<1>9. m_value = 0 => ~Signalled /\ \A u \in Threads : pc[u] \notin SlotPlaces /\ pc[u] # "r"
  BY Reading, <1>6, SharedMutexAssumption, FS_CardinalityType
<1>10. /\ pc' = [pc EXCEPT ![t] = x] /\ pc \in [Threads -> Places]
  BY <1>1 DEF Goto, SharedInv, SharedTypeOK
<1>11. PhaseInv'
  <2>1. CASE m_value = 0
    BY <2>1, <1>2, <1>8, <1>9, <1>10 DEF SharedInv, PhaseInv, SlotPlaces
  <2>2. CASE m_value # 0
    <3>1. Signalled \/ \E u \in Threads : pc[u] \in {"w", "lu", "down", "r", "signal"}
      BY <2>2, Reading DEF SharedInv, PhaseInv, SlotPlaces
    <3>2. x = "wait"
      BY <2>2, <1>4
    <3> QED BY <3>1, <3>2, <1>8, <1>10 DEF SharedInv, PhaseInv
  <2> QED BY <2>1, <2>2
<1> QED BY <1>8, <1>11 DEF SharedInv

\* What every proof of a step starts from.
LEMMA Basics ==
    ASSUME SharedInv
    PROVE  /\ W \in Nat /\ R \in Nat /\ c_one \in Nat /\ c_sig \in Nat /\ c_one > 1
           /\ m_value = c_one * W + R + (IF Signalled THEN c_sig ELSE 0)
           /\ pc \in [Threads -> Places] /\ op \in [Threads -> {"w", "r", "u"}]
           /\ Signalled <=> m_value >= c_sig
           /\ m_value \in Nat
BY Reading, SharedMutexAssumption, FS_CardinalityType
   DEF SharedInv, SharedTypeOK, WordInv, Signalled

\* The number of slots falls by one at most, and only when the thread gives one up.
LEMMA SlotsKept ==
    ASSUME SharedInv, NEW t \in Threads, NEW x, Goto(t, x)
    PROVE  /\ W' \in Nat /\ W' >= W - 1
           /\ pc[t] \notin SlotPlaces \/ x \in SlotPlaces => W' >= W
<1>1. W \in Nat
  BY Basics
<1>2. /\ (x \in SlotPlaces <=> pc[t] \in SlotPlaces) => W' = W
      /\ x \in SlotPlaces /\ pc[t] \notin SlotPlaces => W' = W + 1
      /\ x \notin SlotPlaces /\ pc[t] \in SlotPlaces => W' = W - 1
      /\ W' \in Nat
  BY Zenon, Moving
<1> QED BY <1>1, <1>2

\* Stealing the signal for a writer: the threads that wait stay in the word.
LEMMA LockInv ==
    ASSUME SharedInv, NEW t \in Threads, Lock(t)
    PROVE  SharedInv'
<1>1. CASE Add(t, "w")
  BY <1>1, AddInv DEF Lock
<1>2. CASE m_value >= c_sig /\ m_value' = m_value - c_sig + c_one /\ Goto(t, "w") /\ UNCHANGED op
  <2>1. pc[t] = "idle" /\ Signalled
    BY <1>2 DEF Lock, Signalled
  <2>2. W' = W + 1 /\ R' = R /\ c_one * (W + 1) = c_one * W + c_one
    BY <1>2, <2>1, Moving DEF SlotPlaces
  <2>3. m_value' = c_one * W' + R' + (IF FALSE THEN c_sig ELSE 0)
    BY <1>2, <2>1, <2>2, Basics
  <2>4. SharedTypeOK' /\ WordInv' /\ ~Signalled'
    BY Zenon, <1>2, <2>3, Basics, Settled DEF Places
  <2>5. PhaseInv'
    BY <1>2, <2>1, <2>4, Basics DEF SharedInv, PhaseInv, Goto
  <2> QED BY <2>4, <2>5 DEF SharedInv
<1> QED BY <1>1, <1>2 DEF Lock

\* A reader enters beside readers, or takes the signal.
LEMMA LockSharedInv ==
    ASSUME SharedInv, NEW t \in Threads, LockShared(t)
    PROVE  SharedInv'
<1>1. pc[t] = "idle"
  BY DEF LockShared
<1>2. CASE Add(t, "r")
  BY <1>1, <1>2, AddInv
<1>3. CASE m_value < c_one - 1 /\ m_value' = m_value + 1 /\ Goto(t, "r") /\ UNCHANGED op
  <2>1. ~Signalled /\ \A u \in Threads : pc[u] \notin SlotPlaces
    BY <1>3, Reading, Basics
  <2>2. W' = W /\ R' = R + 1
    BY <1>1, <1>3, Moving DEF SlotPlaces
  <2>3. m_value' = c_one * W' + R' + (IF FALSE THEN c_sig ELSE 0)
    BY <1>3, <2>1, <2>2, Basics
  <2>4. SharedTypeOK' /\ WordInv' /\ ~Signalled'
    BY Zenon, <1>3, <2>3, Basics, Settled DEF Places
  <2>5. PhaseInv'
    BY <1>3, <2>1, <2>4, Basics DEF SharedInv, PhaseInv, Goto, SlotPlaces
  <2> QED BY <2>4, <2>5 DEF SharedInv
<1>4. CASE m_value >= c_sig /\ m_value' = m_value - c_sig + 1 /\ Goto(t, "r") /\ UNCHANGED op
  <2>1. Signalled
    BY <1>4 DEF Signalled
  <2>2. W' = W /\ R' = R + 1
    BY <1>1, <1>4, Moving DEF SlotPlaces
  <2>3. m_value' = c_one * W' + R' + (IF FALSE THEN c_sig ELSE 0)
    BY <1>4, <2>1, <2>2, Basics
  <2>4. SharedTypeOK' /\ WordInv' /\ ~Signalled'
    BY Zenon, <1>4, <2>3, Basics, Settled DEF Places
  <2>5. PhaseInv'
    BY <1>4, <2>1, <2>4, Basics DEF SharedInv, PhaseInv, Goto
  <2> QED BY <2>4, <2>5 DEF SharedInv
<1> QED BY <1>2, <1>3, <1>4 DEF LockShared

\* The writer becomes the only reader.
LEMMA DowngradeInv ==
    ASSUME SharedInv, NEW t \in Threads, Downgrade(t)
    PROVE  SharedInv'
<1>1. /\ pc[t] \in {"down", "w"} /\ m_value' = m_value - (c_one - 1) /\ Goto(t, "r")
      /\ UNCHANGED op
  BY DEF Downgrade
<1>2. ~Signalled
  BY <1>1 DEF SharedInv, PhaseInv
<1>3. W' = W - 1 /\ R' = R + 1 /\ c_one * (W - 1) = c_one * W - c_one
  BY <1>1, Moving DEF SlotPlaces
<1>4. m_value' = c_one * W' + R' + (IF FALSE THEN c_sig ELSE 0)
  BY <1>1, <1>2, <1>3, Basics
<1>5. SharedTypeOK' /\ WordInv' /\ ~Signalled'
  BY Zenon, <1>1, <1>4, Basics, Settled DEF Places
<1>6. PhaseInv'
  BY <1>1, <1>2, <1>5, Basics DEF SharedInv, PhaseInv, Goto
<1> QED BY <1>5, <1>6 DEF SharedInv

\* The remainder of the word is the number of readers: with 1 there is no other one.
LEMMA UpgradeInv ==
    ASSUME SharedInv, NEW t \in Threads, Upgrade(t)
    PROVE  SharedInv'
<1> DEFINE x == IF m_value % c_one = 1 THEN "w" ELSE "wait"
<1>1. /\ pc[t] = "r" /\ m_value' = m_value + (c_one - 1) /\ Goto(t, x)
      /\ op' \in [Threads -> {"w", "r", "u"}]
  BY Basics DEF Upgrade
<1>2. ~Signalled
  BY <1>1 DEF SharedInv, PhaseInv
<1>3. /\ W' = W + 1 /\ R' = R - 1 /\ c_one * (W + 1) = c_one * W + c_one
      /\ R' = 0 <=> \A u \in Threads : pc'[u] # "r"
  BY <1>1, Moving DEF SlotPlaces
<1>4. m_value' = c_one * W' + R' + (IF FALSE THEN c_sig ELSE 0)
  BY <1>1, <1>2, <1>3, Basics
<1>5. SharedTypeOK' /\ WordInv' /\ ~Signalled'
  BY Zenon, <1>1, <1>4, Basics, Settled DEF Places
<1>6. m_value % c_one = R
  BY <1>2, Reading
<1>7. PhaseInv'
  <2>1. CASE m_value % c_one = 1
    <3>1. \A u \in Threads : pc'[u] # "r"
      BY <2>1, <1>3, <1>6, Basics
    <3> QED BY <2>1, <3>1, <1>1, <1>2, <1>5, Basics DEF SharedInv, PhaseInv, Goto
  <2>2. CASE m_value % c_one # 1
    <3>1. \E u \in Threads : pc'[u] = "r"
      BY <2>2, <1>3, <1>6, Basics
    <3> QED BY <2>2, <3>1, <1>1, <1>2, <1>5, Basics DEF SharedInv, PhaseInv, Goto
  <2> QED BY <2>1, <2>2
<1> QED BY <1>5, <1>7 DEF SharedInv

\* A waiting thread takes the signal.
LEMMA TakeInv ==
    ASSUME SharedInv, NEW t \in Threads, Take(t)
    PROVE  SharedInv'
<1> DEFINE x == Granted(op[t])
<1>1. /\ pc[t] = "wait" /\ m_value >= c_sig /\ m_value' = m_value - c_sig /\ Goto(t, x)
      /\ UNCHANGED op
  BY DEF Take
<1>2. x \in {"w", "lu", "down"}
  <2>1. op[t] \in {"w", "r", "u"}
    BY Basics
  <2> QED BY <2>1 DEF Granted
<1> HIDE DEF x
<1>3. Signalled
  BY <1>1 DEF Signalled
<1>4. W' = W /\ R' = R
  BY <1>1, <1>2, Moving DEF SlotPlaces
<1>5. m_value' = c_one * W' + R' + (IF FALSE THEN c_sig ELSE 0)
  BY <1>1, <1>3, <1>4, Basics
<1>6. SharedTypeOK' /\ WordInv' /\ ~Signalled'
  <2>1. x \in Places
    BY <1>2 DEF Places
  <2> QED BY Zenon, <1>1, <1>5, <2>1, Basics, Settled
<1>7. PhaseInv'
  BY <1>1, <1>2, <1>3, <1>6, Basics DEF SharedInv, PhaseInv, Goto
<1> QED BY <1>6, <1>7 DEF SharedInv

\* A thread blocks only while there is no signal.
LEMMA ParkInv ==
    ASSUME SharedInv, NEW t \in Threads, Park(t)
    PROVE  SharedInv'
<1>1. pc[t] = "wait" /\ m_value < c_sig /\ Goto(t, "parked") /\ UNCHANGED <<m_value, op>>
  BY DEF Park
<1>2. ~Signalled
  BY <1>1, Basics
<1>3. W' = W /\ R' = R
  BY <1>1, Moving DEF SlotPlaces
<1>4. m_value' = c_one * W' + R' + (IF FALSE THEN c_sig ELSE 0)
  BY <1>1, <1>2, <1>3, Basics
<1>5. SharedTypeOK' /\ WordInv' /\ ~Signalled'
  BY Zenon, <1>1, <1>4, Basics, Settled DEF Places
<1>6. PhaseInv'
  BY <1>1, <1>2, <1>5, Basics DEF SharedInv, PhaseInv, Goto
<1> QED BY <1>5, <1>6 DEF SharedInv

\* The signal is set once, by a thread that will notify.
LEMMA SignalInv ==
    ASSUME SharedInv, NEW t \in Threads, Signal(t)
    PROVE  SharedInv'
<1>1. /\ pc[t] = "signal" /\ m_value' = m_value + c_sig /\ Goto(t, "notify") /\ UNCHANGED op
  BY DEF Signal
<1>2. ~Signalled
  BY <1>1 DEF SharedInv, PhaseInv
<1>3. W' = W /\ R' = R
  BY <1>1, Moving DEF SlotPlaces
<1>4. m_value' = c_one * W' + R' + (IF TRUE THEN c_sig ELSE 0)
  BY <1>1, <1>2, <1>3, Basics
<1>5. SharedTypeOK' /\ WordInv' /\ Signalled'
  BY Zenon, <1>1, <1>4, Basics, Settled DEF Places
<1>6. PhaseInv'
  BY <1>1, <1>2, <1>5, Basics DEF SharedInv, PhaseInv, Goto
<1> QED BY <1>5, <1>6 DEF SharedInv

\* A notification wakes a blocked thread; if there is none, the waiting ones are awake.
LEMMA NotifyInv ==
    ASSUME SharedInv, NEW t \in Threads, Notify(t)
    PROVE  SharedInv'
<1>1. pc[t] = "notify" /\ UNCHANGED <<m_value, op>>
  BY DEF Notify
<1>2. PICK u \in Threads : /\ u = t \/ pc[u] = "parked"
                           /\ u = t => Parked = {}
                           /\ pc' = [pc EXCEPT ![t] = "idle", ![u] = IF u = t THEN "idle" ELSE "wait"]
  <2>1. CASE Parked = {} /\ Goto(t, "idle")
    <3>1. pc' = [pc EXCEPT ![t] = "idle", ![t] = "idle"]
      BY Zenon, <2>1, Basics DEF Goto
    <3> QED BY Zenon, <2>1, <3>1
  <2>2. CASE \E u \in Parked : pc' = [pc EXCEPT ![t] = "idle", ![u] = "wait"]
    BY Zenon, <2>2, <1>1 DEF Parked
  <2> QED BY <2>1, <2>2 DEF Notify
<1>3. /\ \A v \in Threads : v # t /\ v # u => pc'[v] = pc[v]
      /\ pc'[t] = "idle" /\ (u # t => pc'[u] = "wait")
      /\ pc' \in [Threads -> Places]
  BY <1>2, Basics DEF Places
<1>4. On(pc, SlotPlaces)' = On(pc, SlotPlaces) /\ On(pc, {"r"})' = On(pc, {"r"})
  BY <1>1, <1>2, <1>3 DEF On, SlotPlaces
<1>5. SharedTypeOK' /\ WordInv' /\ (Signalled' <=> Signalled)
  BY <1>1, <1>3, <1>4 DEF SharedInv, SharedTypeOK, WordInv, W, R, Signalled
<1>6. PhaseInv'
  <2>1. u = t => \A v \in Threads : pc[v] # "parked"
    BY <1>2 DEF Parked
  <2> QED BY <2>1, <1>1, <1>2, <1>3, <1>5 DEF SharedInv, PhaseInv
<1> QED BY <1>5, <1>6 DEF SharedInv

\* The last reader signals exactly if threads wait.
LEMMA UnlockSharedInv ==
    ASSUME SharedInv, NEW t \in Threads, UnlockShared(t)
    PROVE  SharedInv'
<1> DEFINE x == IF m_value >= c_one /\ (m_value - 1) % c_one = 0 THEN "signal" ELSE "idle"
<1>1. pc[t] = "r" /\ m_value' = m_value - 1 /\ Goto(t, x) /\ UNCHANGED op
  BY DEF UnlockShared
<1>2. ~Signalled
  BY <1>1 DEF SharedInv, PhaseInv
<1>3. /\ W' = W /\ R' = R - 1 /\ R' \in Nat
      /\ R' = 0 <=> \A u \in Threads : pc'[u] # "r"
      /\ W' = 0 <=> \A u \in Threads : pc'[u] \notin SlotPlaces
  BY <1>1, Moving DEF SlotPlaces
<1>4. m_value' = c_one * W' + R' + (IF FALSE THEN c_sig ELSE 0)
  BY <1>1, <1>2, <1>3, Basics
<1>5. SharedTypeOK' /\ WordInv' /\ ~Signalled'
  BY Zenon, <1>1, <1>4, Basics, Settled DEF Places
<1>6. x = "signal" <=> W # 0 /\ R' = 0
  <2>1. W + R <= Cardinality(Threads) /\ Cardinality(Threads) \in Nat
    BY Reading, SharedMutexAssumption, FS_CardinalityType
  <2>2. W + R' <= Cardinality(Threads)
    BY <1>3, <2>1, Basics
  <2>3. (c_one * W + R') % c_one = R' /\ (W >= 1 => c_one * W >= c_one) /\ R < c_one - 1
        /\ (W = 0 => c_one * W = 0)
    BY Zenon, <1>3, <2>1, <2>2, Basics, LowBound
  <2>4. m_value = c_one * W + R /\ m_value - 1 = c_one * W + R'
    BY <1>2, <1>3, Basics
  <2>5. m_value >= c_one <=> W # 0
    BY <2>3, <2>4, Basics
  <2> QED BY <2>3, <2>4, <2>5
<1> HIDE DEF x
<1>7. x \in {"signal", "idle"}
  BY DEF x
<1>8. PhaseInv'
  <2>1. CASE W = 0
    BY <2>1, <1>1, <1>2, <1>3, <1>5, <1>6, <1>7, Basics DEF SharedInv, PhaseInv, Goto, SlotPlaces
  <2>2. CASE R' # 0
    BY <2>2, <1>1, <1>2, <1>3, <1>5, <1>6, <1>7, Basics DEF SharedInv, PhaseInv, Goto
  <2>3. CASE W # 0 /\ R' = 0
    <3>1. x = "signal" /\ \E u \in Threads : pc'[u] \in SlotPlaces
      BY <2>3, <1>3, <1>6
    <3> QED BY <2>3, <3>1, <1>1, <1>2, <1>3, <1>5, Basics DEF SharedInv, PhaseInv, Goto, SlotPlaces
  <2> QED BY <2>1, <2>2, <2>3
<1> QED BY <1>5, <1>8 DEF SharedInv

\* The writer signals exactly if threads wait.
LEMMA UnlockInv ==
    ASSUME SharedInv, NEW t \in Threads, Unlock(t)
    PROVE  SharedInv'
<1> DEFINE x == IF m_value # c_one THEN "signal" ELSE "idle"
<1>1. /\ pc[t] \in {"w", "lu"} /\ m_value' = m_value - c_one /\ Goto(t, x) /\ UNCHANGED op
  BY DEF Unlock
<1>2. ~Signalled /\ R = 0
  BY <1>1, Reading DEF SharedInv, PhaseInv
<1>3. /\ W' = W - 1 /\ R' = R /\ W' \in Nat /\ c_one * (W - 1) = c_one * W - c_one
      /\ W' = 0 <=> \A u \in Threads : pc'[u] \notin SlotPlaces
  BY <1>1, Moving DEF SlotPlaces
<1>4. m_value' = c_one * W' + R' + (IF FALSE THEN c_sig ELSE 0)
  BY <1>1, <1>2, <1>3, Basics
<1>5. SharedTypeOK' /\ WordInv' /\ ~Signalled'
  BY Zenon, <1>1, <1>4, Basics, Settled DEF Places
<1>6. x = "signal" <=> W' # 0
  <2>1. m_value - c_one = c_one * W'
    BY <1>2, <1>3, Basics
  <2>2. c_one * W' = 0 <=> W' = 0
    BY <1>3, Basics
  <2>3. m_value = c_one <=> m_value - c_one = 0
    BY Basics
  <2> QED BY <2>1, <2>2, <2>3
<1> HIDE DEF x
<1>7. x \in {"signal", "idle"}
  BY DEF x
<1>8. PhaseInv'
  <2>1. CASE W' = 0
    BY ZenonT(40), <2>1, <1>1, <1>2, <1>3, <1>5, <1>6, <1>7, Basics DEF SharedInv, PhaseInv, Goto, SlotPlaces
  <2>2. CASE W' # 0
    <3>1. x = "signal" /\ \E u \in Threads : pc'[u] \in SlotPlaces
      BY <2>2, <1>3, <1>6
    <3> QED BY <3>1, <1>1, <1>2, <1>5, Basics DEF SharedInv, PhaseInv, Goto, SlotPlaces
  <2> QED BY <2>1, <2>2
<1> QED BY <1>5, <1>8 DEF SharedInv

\* lock_unlock looks at the word, and may lock it.
LEMMA LookInv ==
    ASSUME SharedInv, NEW t \in Threads, LockUnlock(t) \/ LockUnlockSpin(t)
    PROVE  SharedInv'
<1>1. CASE LockUnlockSpin(t) /\ Add(t, "u")
  BY <1>1, AddInv DEF LockUnlockSpin
<1>2. CASE /\ pc[t] \in {"idle", "lu_spin"}
           /\ UNCHANGED <<m_value, op>>
           /\ \E x \in {"idle", "lu_spin"} : Goto(t, x)
  <2>1. PICK x \in {"idle", "lu_spin"} : Goto(t, x)
    BY <1>2
  <2>2. W' = W /\ R' = R
    BY <1>2, <2>1, Moving DEF SlotPlaces
  <2>3. SharedTypeOK' /\ WordInv' /\ (Signalled' <=> Signalled)
    BY <1>2, <2>1, <2>2 DEF SharedInv, SharedTypeOK, WordInv, Signalled, Goto, Places
  <2>4. PhaseInv'
    BY <1>2, <2>1, <2>3, Basics DEF SharedInv, PhaseInv, Goto
  <2> QED BY <2>3, <2>4 DEF SharedInv
<1>3. ASSUME UNCHANGED pc, pc[t] = "lu_spin" PROVE Goto(t, "lu_spin")
  BY <1>3, Basics DEF Goto
<1> QED BY <1>1, <1>2, <1>3 DEF LockUnlock, LockUnlockSpin

\* The lock begins free.
LEMMA InitInv == Init => SharedInv
<1> SUFFICES ASSUME Init PROVE SharedInv
  OBVIOUS
<1>1. m_value = 0 /\ pc = [t \in Threads |-> "idle"] /\ op = [t \in Threads |-> "w"]
  BY DEF Init
<1>2. c_one \in Nat /\ c_sig \in Nat /\ c_sig > 0
  <2>1. Cardinality(Threads) \in Nat
    BY SharedMutexAssumption, FS_CardinalityType
  <2>2. /\ c_one \in Nat /\ c_sig \in Nat /\ c_one > 0
        /\ c_one * (Cardinality(Threads) + 1) <= c_sig
    BY SharedMutexAssumption, <2>1
  <2>3. c_one * (Cardinality(Threads) + 1) > 0
    BY <2>1, <2>2
  <2> QED BY <2>1, <2>2, <2>3
<1>3. W = 0 /\ R = 0
  <2>1. \A t \in Threads : pc[t] \notin SlotPlaces /\ pc[t] \notin {"r"}
    BY <1>1 DEF SlotPlaces
  <2> QED BY <2>1, OnFinite DEF W, R
<1>4. SharedTypeOK /\ ~Signalled
  BY <1>1, <1>2 DEF SharedTypeOK, Signalled, Places
<1>5. WordInv
  BY <1>1, <1>2, <1>3, <1>4 DEF WordInv
<1>6. PhaseInv
  BY <1>1, <1>4 DEF PhaseInv
<1> QED BY <1>4, <1>5, <1>6 DEF SharedInv

\* Every step keeps the invariant.
LEMMA NextInv == SharedInv /\ [Next]_vars => SharedInv'
<1> SUFFICES ASSUME SharedInv, [Next]_vars PROVE SharedInv'
  OBVIOUS
<1>1. ASSUME NEW t \in Threads, MutexStep(t) PROVE SharedInv'
  BY <1>1, LockInv, LockSharedInv, DowngradeInv, UpgradeInv, TakeInv, ParkInv, SignalInv,
     NotifyInv, UnlockSharedInv, UnlockInv, LookInv DEF MutexStep
<1>2. CASE UNCHANGED vars
  BY <1>2 DEF vars, SharedInv, SharedTypeOK, WordInv, PhaseInv, W, R, Signalled
<1> QED BY <1>1, <1>2 DEF Next

\* shared_mutex: the invariant holds in every state of every behaviour.
THEOREM Invariance == Spec => []SharedInv
BY InitInv, NextInv, PTL DEF Spec

-----------------------------------------------------------------------------
\* The properties

\* At most one thread is at places of which any two exclude each other.
LEMMA AtMostOne ==
    ASSUME NEW S, IsFiniteSet(S), \A x, y \in S : x = y
    PROVE  Cardinality(S) \in {0, 1} /\ (Cardinality(S) = 0 <=> S = {})
<1>1. CASE S = {}
  BY <1>1, FS_EmptySet
<1>2. CASE S # {}
  <2>1. PICK x \in S : S = {x}
    BY <1>2
  <2> QED BY <2>1, FS_Singleton, <1>2
<1> QED BY <1>1, <1>2

\* A writer excludes all others: at most one thread is at a writer's place.
LEMMA InvExclusion == SharedInv => Exclusion
<1> SUFFICES ASSUME SharedInv PROVE Exclusion
  OBVIOUS
<1>1. IsFiniteSet(Writers)
  BY Zenon, OnFinite DEF Writers, At, On
<1>2. \A x, y \in Writers : x = y
  BY DEF SharedInv, PhaseInv, Writers, At
<1>3. Writers # {} => Readers = {}
  BY DEF SharedInv, PhaseInv, Writers, Readers, At
<1>4. Cardinality(Writers) \in {0, 1}
  BY <1>1, <1>2, AtMostOne
<1> QED BY <1>3, <1>4 DEF Exclusion

\* The quotients and remainders of m_value are the counts, and its signal bit the signal.
LEMMA InvWord ==
    ASSUME SharedInv
    PROVE  /\ WordCounts
           /\ m_value \div c_sig = IF Signalled THEN 1 ELSE 0
<1>1. /\ W \in Nat /\ R \in Nat /\ W + R <= Cardinality(Threads)
  BY Reading
<1>2. c_one * W + R \in 0..(c_sig - 1) /\ c_sig \in Nat \ {0}
  <2>1. /\ c_one \in Nat /\ c_sig \in Nat /\ c_one > 1 /\ c_one * W + R \in Nat
        /\ c_one * W + R + c_one <= c_sig
    BY <1>1, LowBound
  <2> QED BY <2>1
<1>3. m_value = c_sig * (IF Signalled THEN 1 ELSE 0) + (c_one * W + R)
  BY <1>1, <1>2, Basics
<1>4. /\ m_value % c_sig = c_one * W + R
      /\ m_value \div c_sig = IF Signalled THEN 1 ELSE 0
  <2>1. (IF Signalled THEN 1 ELSE 0) \in Nat
    OBVIOUS
  <2> QED BY <2>1, <1>2, <1>3, DivMod
<1>5. Writers \cup Waiters = On(pc, SlotPlaces) /\ Readers = On(pc, {"r"})
  BY DEF Writers, Waiters, Readers, At, On, SlotPlaces
<1> QED BY Zenon, <1>4, <1>5 DEF WordCounts, W, R

\* A mutex that is free and waited for has one thread that signals or one signal.
LEMMA InvPassedOn == SharedInv => PassedOn
<1> SUFFICES ASSUME SharedInv PROVE PassedOn
  OBVIOUS
<1> DEFINE G == At({"signal"})
<1>1. IsFiniteSet(G)
  BY Zenon, OnFinite DEF At, On
<1>2. \A x, y \in G : x = y
  BY DEF SharedInv, PhaseInv, At
<1>3. Cardinality(G) \in {0, 1} /\ (Cardinality(G) = 0 <=> G = {})
  BY <1>1, <1>2, AtMostOne
<1>4. m_value \div c_sig = IF Signalled THEN 1 ELSE 0
  BY InvWord
<1>5. /\ Signalled => G = {}
      /\ Signalled \/ G # {} <=> Waiters # {} /\ Writers = {} /\ Readers = {}
      /\ Signalled => At({"wait", "notify"}) # {}
  BY DEF SharedInv, PhaseInv, Waiters, Writers, Readers, At
<1> HIDE DEF G
<1>6. m_value \div c_sig + Cardinality(G) <= 1
  BY <1>3, <1>4, <1>5
<1>7. m_value \div c_sig + Cardinality(G) = 1 <=> Signalled \/ G # {}
  BY <1>3, <1>4, <1>5
<1> QED BY <1>5, <1>6, <1>7 DEF PassedOn, Signalled, G

\* A writer of a shared_mutex is alone, with any number of threads and any use of
\* lock, lock_shared, upgrade, downgrade and lock_unlock.
THEOREM MutualExclusion == Spec => []Exclusion
BY Invariance, InvExclusion, PTL

\* m_value is the sum of what its threads have added: it neither under- nor overflows.
THEOREM NoOverflow == Spec => []WordCounts
<1>1. SharedInv => WordCounts
  BY InvWord
<1> QED BY <1>1, Invariance, PTL

\* A free shared_mutex that threads wait for is being passed on, exactly once, and a
\* thread is awake or will be woken to take it.
THEOREM NoLostSignal == Spec => []PassedOn
BY Invariance, InvPassedOn, PTL

-----------------------------------------------------------------------------
\* lock_unlock

\* A critical section that lock_unlock met and that is not over keeps the number of
\* slots from falling below what lock_unlock saw, but for its own slot while it is a
\* reader.
SinceInv ==
    /\ since \in [Threads -> SUBSET Threads] /\ max \in [Threads -> Nat]
    /\ \A t, u \in Threads : u \in since[t] =>
          /\ Holding(u)
          /\ pc[t] = "lu_spin" \/ (pc[t] \in {"wait", "parked"} /\ op[t] = "u")
          /\ pc[t] = "lu_spin" => max[t] <= IF pc[u] = "r" THEN W + 1 ELSE W

\* One thread moves: the number of slots falls only with the writer, and the thread
\* has done with its own lock_unlock what the invariant asks for.
LEMMA SinceMove ==
    ASSUME SharedInv, SinceInv, NEW t \in Threads, NEW x, Goto(t, x),
           since' = since \/ Left(t),
           max' \in [Threads -> Nat],
           \A u \in Threads \ {t} : max'[u] = max[u] /\ op'[u] = op[u],
           Holding(t) => x \in {"w", "r", "down", "lu"} \/ Left(t),
           W' >= W \/ (pc[t] \in {"w", "lu", "down"} /\ x \notin {"w", "lu", "down"} /\ W' >= W - 1),
           pc[t] = "r" /\ x # "r" => W' >= W + 1 \/ Left(t),
           \A u \in since'[t] : x = "lu_spin" \/ (x \in {"wait", "parked"} /\ op'[t] = "u"),
           x = "lu_spin" => \A u \in since'[t] : max'[t] <= IF pc'[u] = "r" THEN W' + 1 ELSE W'
    PROVE  SinceInv'
<1>1. pc'[t] = x /\ \A u \in Threads \ {t} : pc'[u] = pc[u]
  BY DEF SharedInv, SharedTypeOK, Goto
<1>2. /\ since' \in [Threads -> SUBSET Threads]
      /\ \A v \in Threads : since'[v] \subseteq since[v] /\ (Left(t) => t \notin since'[v])
  BY DEF SinceInv, Left
<1>3. W \in Nat /\ W' \in Nat
  BY Zenon, OnBound DEF W
<1>4. ASSUME NEW v \in Threads, NEW u \in Threads, u \in since'[v]
      PROVE  /\ Holding(u)'
             /\ pc'[v] = "lu_spin" \/ (pc'[v] \in {"wait", "parked"} /\ op'[v] = "u")
             /\ pc'[v] = "lu_spin" => max'[v] <= IF pc'[u] = "r" THEN W' + 1 ELSE W'
  <2>1. /\ u \in since[v] /\ Holding(u)
        /\ pc[v] = "lu_spin" \/ (pc[v] \in {"wait", "parked"} /\ op[v] = "u")
        /\ pc[v] = "lu_spin" => max[v] <= IF pc[u] = "r" THEN W + 1 ELSE W
    BY <1>2, <1>4 DEF SinceInv
  <2>2. Holding(u)'
    BY <1>1, <1>2, <1>4, <2>1 DEF Holding
  <2>3. CASE v = t
    BY <1>1, <1>4, <2>2, <2>3
  <2>4. CASE v # t
    <3>1. pc'[v] = pc[v] /\ max'[v] = max[v] /\ op'[v] = op[v] /\ max[v] \in Nat
      BY Zenon, <1>1, <2>4 DEF SinceInv
    <3>2. CASE u # t
      <4>1. pc'[u] = pc[u] /\ pc[t] \notin {"w", "lu", "down"}
        BY <1>1, <2>1, <3>2 DEF Holding, SharedInv, PhaseInv
      <4> QED BY <1>3, <2>1, <2>2, <3>1, <4>1
    <3>3. CASE u = t
      <4>1. ~Left(t) /\ Holding(t)
        BY <1>2, <1>4, <2>1, <3>3
      <4>2. x \in {"w", "r", "down", "lu"} /\ pc[t] \in {"w", "r", "down", "lu"} /\ pc'[u] = x
        BY <1>1, <3>3, <4>1 DEF Holding
      <4>3. /\ pc[t] = "r" /\ x = "r" => W' >= W
            /\ pc[t] = "r" /\ x # "r" => W' >= W + 1
            /\ pc[t] # "r" /\ x = "r" => W' >= W - 1
            /\ pc[t] # "r" /\ x # "r" => W' >= W
        BY <1>3, <4>1, <4>2
      <4> QED BY <1>3, <2>1, <2>2, <3>1, <3>3, <4>2, <4>3
    <3> QED BY <3>2, <3>3
  <2> QED BY <2>3, <2>4
<1> QED BY <1>2, <1>4 DEF SinceInv

\* A thread outside lock_unlock has met nothing, nor has one when nobody holds the lock.
LEMMA NoSince ==
    ASSUME SharedInv, SinceInv, NEW t \in Threads,
           \/ pc[t] \notin {"lu_spin", "wait", "parked"}
           \/ op[t] # "u" /\ pc[t] # "lu_spin"
           \/ \A u \in Threads : ~Holding(u)
    PROVE  since[t] = {}
BY DEF SinceInv

\* lock, lock_shared, lock_upgrade and lock_downgrade
LEMMA LockSince ==
    ASSUME SharedInv, SinceInv, NEW t \in Threads,
           Lock(t) \/ LockShared(t) \/ Upgrade(t) \/ Downgrade(t)
    PROVE  SinceInv'
<1>1. /\ pc[t] \in {"idle", "r", "w", "down"} /\ since[t] = {} /\ max' = max
      /\ max \in [Threads -> Nat] /\ W \in Nat
      /\ op \in [Threads -> {"w", "r", "u"}]
      /\ since' = since \/ Left(t)
  BY NoSince, Basics DEF Lock, LockShared, Upgrade, Downgrade, SinceInv
<1>2. since'[t] = {}
  BY <1>1 DEF Left
<1>3. \A u \in Threads \ {t} : op'[u] = op[u]
  BY <1>1 DEF Lock, LockShared, Upgrade, Downgrade, Add
<1>4. PICK x : /\ Goto(t, x)
               /\ \/ pc[t] = "idle" /\ x \in SlotPlaces \cup {"r"}
                  \/ pc[t] = "r" /\ x \in SlotPlaces /\ (x = "w" \/ Left(t))
                  \/ pc[t] \in {"w", "down"} /\ x = "r"
  BY DEF Lock, LockShared, Upgrade, Downgrade, Add, Granted, SlotPlaces
<1>5. /\ pc[t] = "idle" => W' >= W
      /\ pc[t] = "r" => W' = W + 1
      /\ pc[t] \in {"w", "down"} => W' = W - 1
  BY <1>1, <1>4, Moving DEF SlotPlaces
<1>6. /\ Holding(t) => x \in {"w", "r", "down", "lu"} \/ Left(t)
      /\ W' >= W \/ (pc[t] \in {"w", "lu", "down"} /\ x \notin {"w", "lu", "down"} /\ W' >= W - 1)
      /\ pc[t] = "r" /\ x # "r" => W' >= W + 1 \/ Left(t)
      /\ x # "lu_spin"
  BY <1>1, <1>4, <1>5 DEF Holding, SlotPlaces
<1> QED BY <1>1, <1>2, <1>3, <1>4, <1>6, SinceMove

\* The wait and the signal
LEMMA WaitSince ==
    ASSUME SharedInv, SinceInv, NEW t \in Threads,
           Take(t) \/ Park(t) \/ Signal(t)
    PROVE  SinceInv'
<1>1. /\ pc[t] \in {"wait", "signal"} /\ max' = max /\ since' = since /\ op' = op
      /\ max \in [Threads -> Nat] /\ W \in Nat /\ ~Holding(t)
  BY Basics DEF Take, Park, Signal, SinceInv, Holding
<1>2. PICK x : /\ Goto(t, x)
               /\ \/ pc[t] = "wait" /\ x \in {"w", "down", "lu"} /\ Signalled
                  \/ pc[t] = "wait" /\ x = "parked"
                  \/ pc[t] = "signal" /\ x = "notify"
  BY Basics DEF Take, Park, Signal, Granted
<1>3. W' >= W
  <2>1. pc[t] \notin SlotPlaces \/ x \in SlotPlaces
    BY <1>2 DEF SlotPlaces
  <2> QED BY Zenon, <1>2, <2>1, SlotsKept
<1>4. \A u \in since'[t] : x \in {"wait", "parked"} /\ op'[t] = "u"
  <2>1. CASE Signalled
    BY <1>1, <2>1, NoSince DEF SharedInv, PhaseInv, Holding
  <2>2. CASE ~Signalled
    BY Zenon, <1>1, <1>2, <2>2, NoSince DEF SinceInv
  <2> QED BY <2>1, <2>2
<1>5. x # "lu_spin" /\ pc[t] # "r"
  BY <1>1, <1>2
<1> QED BY <1>1, <1>2, <1>3, <1>4, <1>5, SinceMove

\* unlock_shared and unlock
LEMMA UnlockSince ==
    ASSUME SharedInv, SinceInv, NEW t \in Threads, UnlockShared(t) \/ Unlock(t)
    PROVE  SinceInv'
<1>1. /\ pc[t] \in {"r", "w", "lu"} /\ max' = max /\ op' = op /\ Left(t)
      /\ max \in [Threads -> Nat] /\ W \in Nat /\ since[t] = {}
  BY Zenon, NoSince, Basics DEF UnlockShared, Unlock, SinceInv
<1>2. PICK x \in {"signal", "idle"} : Goto(t, x)
  BY DEF UnlockShared, Unlock
<1>3. since'[t] = {}
  BY <1>1 DEF Left
<1>4. W' >= W \/ (pc[t] \in {"w", "lu", "down"} /\ x \notin {"w", "lu", "down"} /\ W' >= W - 1)
  <2>1. pc[t] \notin SlotPlaces \/ (pc[t] \in {"w", "lu"} /\ x \notin {"w", "lu", "down"})
    BY <1>1 DEF SlotPlaces
  <2> QED BY Zenon, <1>2, <2>1, SlotsKept
<1> QED BY <1>1, <1>2, <1>3, <1>4, SinceMove

\* notify_one() lets one thread look for the signal again.
LEMMA NotifySince ==
    ASSUME SharedInv, SinceInv, NEW t \in Threads, Notify(t)
    PROVE  SinceInv'
<1>1. /\ pc[t] = "notify" /\ since' = since /\ max' = max /\ op' = op /\ since[t] = {}
      /\ pc \in [Threads -> Places]
  BY NoSince, Basics DEF Notify
<1>2. \A u \in Threads \ {t} : pc'[u] = pc[u] \/ (pc[u] = "parked" /\ pc'[u] = "wait")
  BY <1>1 DEF Notify, Goto, Parked
<1>3. pc'[t] \in {"idle", "wait"}
  BY <1>1 DEF Notify, Goto, Parked
<1>4. On(pc', SlotPlaces) = On(pc, SlotPlaces)
  <2>1. pc'[t] = "idle"
    BY <1>1 DEF Notify, Goto, Parked
  <2> QED BY <1>1, <1>2, <2>1 DEF On, SlotPlaces
<1>5. W' = W
  BY <1>4 DEF W
<1>6. ASSUME NEW v \in Threads, NEW u \in Threads, u \in since[v]
      PROVE  /\ Holding(u)'
             /\ pc'[v] = "lu_spin" \/ (pc'[v] \in {"wait", "parked"} /\ op'[v] = "u")
             /\ pc'[v] = "lu_spin" => max'[v] <= IF pc'[u] = "r" THEN W' + 1 ELSE W'
  <2>1. v # t /\ u # t /\ Holding(u)
    BY <1>1, <1>6 DEF SinceInv, Holding
  <2>2. pc'[u] = pc[u]
    BY <1>2, <2>1 DEF Holding
  <2> QED BY <1>1, <1>2, <1>5, <1>6, <2>1, <2>2 DEF SinceInv, Holding
<1> QED BY <1>1, <1>6 DEF SinceInv

\* A look of lock_unlock at the word that meets a critical section sees all the slots,
\* and does not take it for over.
LEMMA LookSees ==
    ASSUME SharedInv, SinceInv, NEW t \in Threads, pc[t] = "lu_spin"
    PROVE  /\ m_value \div c_one \in Nat
           /\ since[t] # {} => m_value \div c_one = W
           /\ Lockable(t) => since[t] = {}
<1>1. /\ m_value \in Nat /\ c_one \in Nat \ {0} /\ c_sig \in Nat /\ max[t] \in Nat /\ W \in Nat
      /\ Signalled <=> m_value >= c_sig
  BY Basics DEF SinceInv
<1>2. m_value \div c_one \in Nat
  BY <1>1
<1>3. ASSUME NEW u \in since[t] PROVE m_value \div c_one = W /\ ~Lockable(t)
  <2>1. u \in Threads /\ Holding(u) /\ max[t] <= IF pc[u] = "r" THEN W + 1 ELSE W
    BY <1>3 DEF SinceInv
  <2>2. ~Signalled
    BY <2>1 DEF SharedInv, PhaseInv, Holding
  <2>3. m_value = c_one * W + R /\ m_value % c_one = R /\ (R = 0 => pc[u] # "r")
    BY <2>1, <2>2, Reading
  <2>4. R \in 0..(c_one - 1)
    BY <1>1, <2>3
  <2>5. m_value \div c_one = W
    BY <1>1, <2>3, <2>4, DivMod
  <2>6. ~Lockable(t)
    <3>1. Lockable(t) => R = 0
      BY <2>3 DEF Lockable
    <3>2. Lockable(t) => W < max[t]
      BY <1>1, <2>2, <2>5 DEF Lockable
    <3>3. Lockable(t) => max[t] <= W
      BY <2>1, <2>3, <3>1
    <3>4. ~(W < max[t] /\ max[t] <= W)
      BY <1>1
    <3> QED BY <3>2, <3>3, <3>4
  <2> QED BY <2>5, <2>6
<1> QED BY <1>2, <1>3

\* lock_unlock
LEMMA LookSince ==
    ASSUME SharedInv, SinceInv, NEW t \in Threads, LockUnlock(t) \/ LockUnlockSpin(t)
    PROVE  SinceInv'
<1>1. /\ pc[t] \in {"idle", "lu_spin"} /\ ~Holding(t) /\ pc[t] # "r"
      /\ since \in [Threads -> SUBSET Threads] /\ max \in [Threads -> Nat]
      /\ pc \in [Threads -> Places] /\ W \in Nat /\ op \in [Threads -> {"w", "r", "u"}]
  BY Basics DEF LockUnlock, LockUnlockSpin, Holding, SinceInv
<1>2. CASE LockUnlock(t)
  <2>1. /\ Goto(t, "lu_spin") /\ max' = [max EXCEPT ![t] = 1] /\ op' = op
        /\ since' = [since EXCEPT ![t] = {u \in Threads : Holding(u)}]
    BY <1>2 DEF LockUnlock
  <2>2. /\ pc'[t] = "lu_spin" /\ \A u \in Threads \ {t} : pc'[u] = pc[u]
    BY <1>1, <2>1 DEF Goto
  <2>3. W' = W
    BY <1>1, <1>2, <2>1, Moving DEF SlotPlaces, LockUnlock
  <2>4. \A u \in Threads : Holding(u) /\ pc[u] # "r" => W >= 1
    BY <1>1, Reading DEF Holding, SlotPlaces
  <2>5. ASSUME NEW v \in Threads, NEW u \in Threads, u \in since'[v]
        PROVE  /\ Holding(u)'
               /\ pc'[v] = "lu_spin" \/ (pc'[v] \in {"wait", "parked"} /\ op'[v] = "u")
               /\ pc'[v] = "lu_spin" => max'[v] <= IF pc'[u] = "r" THEN W' + 1 ELSE W'
    <3>1. u # t /\ Holding(u) /\ pc'[u] = pc[u]
      BY <1>1, <2>1, <2>2, <2>5 DEF SinceInv
    <3>2. CASE v = t
      <4>1. max'[v] = 1 /\ pc'[v] = "lu_spin"
        BY <1>1, <2>1, <2>2, <3>2
      <4> QED BY <1>1, <2>3, <2>4, <3>1, <4>1 DEF Holding
    <3>3. CASE v # t
      <4>1. max'[v] = max[v] /\ pc'[v] = pc[v] /\ u \in since[v] /\ op'[v] = op[v]
        BY <1>1, <2>1, <2>2, <2>5, <3>3
      <4> QED BY Zenon, <2>3, <3>1, <4>1 DEF SinceInv, Holding
    <3> QED BY <3>2, <3>3
  <2>6. since' \in [Threads -> SUBSET Threads] /\ max' \in [Threads -> Nat]
    BY <1>1, <2>1
  <2> QED BY <2>5, <2>6 DEF SinceInv
<1>3. CASE LockUnlockSpin(t)
  <2>1. /\ pc[t] = "lu_spin" /\ since' = since
        /\ max' = [max EXCEPT ![t] = IF pc'[t] = "lu_spin" THEN m_value \div c_one ELSE 0]
    BY <1>3 DEF LockUnlockSpin
  <2>2. /\ max' \in [Threads -> Nat] /\ \A u \in Threads \ {t} : max'[u] = max[u]
        /\ max'[t] = IF pc'[t] = "lu_spin" THEN m_value \div c_one ELSE 0
    BY <1>1, <2>1, LookSees
  <2>3. PICK x : /\ Goto(t, x) /\ pc'[t] = x
                 /\ \A u \in Threads \ {t} : op'[u] = op[u]
                 /\ \/ x = "idle" /\ since[t] = {}
                    \/ x = "lu_spin"
                    \/ x = "wait" /\ op'[t] = "u"
                    \/ x = "lu" /\ m_value = 0
    <3>1. CASE Lockable(t) /\ Goto(t, "idle") /\ UNCHANGED op
      BY Zenon, <1>1, <2>1, <3>1, LookSees DEF Goto
    <3>2. CASE UNCHANGED <<op, pc>>
      BY <1>1, <2>1, <3>2 DEF Goto
    <3>3. CASE Add(t, "u")
      BY Zenon, <1>1, <3>3 DEF Add, Granted, Goto
    <3> QED BY <1>3, <3>1, <3>2, <3>3 DEF LockUnlockSpin
  <2>4. W' >= W
    <3>1. pc[t] \notin SlotPlaces
      BY <2>1 DEF SlotPlaces
    <3> QED BY Zenon, <2>3, <3>1, SlotsKept
  <2>5. m_value = 0 => since[t] = {}
    <3>1. m_value = 0 => W = 0 /\ R = 0
      BY Basics, Reading
    <3>2. m_value = 0 => \A u \in Threads : pc[u] # "r" /\ pc[u] \notin SlotPlaces
      BY <3>1, Reading
    <3> QED BY <3>2, NoSince DEF Holding, SlotPlaces
  <2>6. \A u \in since'[t] : x = "lu_spin" \/ (x \in {"wait", "parked"} /\ op'[t] = "u")
    BY <2>1, <2>3, <2>5
  <2>7. x = "lu_spin" => \A u \in since'[t] : max'[t] <= IF pc'[u] = "r" THEN W' + 1 ELSE W'
    <3>1. W' \in Nat /\ W \in Nat
      BY Zenon, <1>1, <2>3, SlotsKept
    <3>2. x = "lu_spin" /\ since'[t] # {} => max'[t] = W
      BY Zenon, <2>1, <2>2, <2>3, LookSees
    <3> QED BY <2>4, <3>1, <3>2
  <2> QED BY <1>1, <2>1, <2>2, <2>3, <2>4, <2>6, <2>7, SinceMove
<1> QED BY <1>2, <1>3

\* When lock_unlock returns, every critical section that it met is over, also when it
\* has only looked at the word.
THEOREM LockUnlockIsBarrier == Spec => []LockUnlockWaits
<1>1. Init => SinceInv
  BY DEF Init, SinceInv
<1>2. ASSUME SharedInv, SinceInv, [Next]_vars PROVE SinceInv'
  <2>1. ASSUME NEW t \in Threads, MutexStep(t) PROVE SinceInv'
    BY <1>2, <2>1, LockSince, WaitSince, UnlockSince, NotifySince, LookSince DEF MutexStep
  <2>2. CASE UNCHANGED vars
    BY <1>2, <2>2 DEF vars, SinceInv, W, Holding
  <2> QED BY <1>2, <2>1, <2>2 DEF Next
<1>3. SharedInv /\ SinceInv => LockUnlockWaits
  BY NoSince DEF LockUnlockWaits
<1> QED BY <1>1, <1>2, <1>3, Invariance, PTL DEF Spec

-----------------------------------------------------------------------------
\* cond_variable

\* The places at which the word of the condition variable counts a thread.
WaitPlaces == {"add", "wait", "parked", "cleanup"}

CondCount ==
    /\ CondTypeOK /\ c_old \in [Threads -> Nat \X Nat]
    /\ waiters = Cardinality(On(cpc, WaitPlaces))
    /\ waiters = 0 => signals = 0

SomeAt(l) == \E t \in Threads : cpc[t] = l

\* A thread that has yet to block remembers the signals there were when it became a
\* waiter, and that was not yet the last that fits; since then none was taken back.
\* The last signal that fits, and any notify_all after the condition was set, leaves
\* no thread that can sleep but those it is about to notify.
SignalInvariant ==
    /\ \A t \in Threads : cpc[t] \in {"add", "wait"} =>
          c_old[t][2] \in Nat /\ c_old[t][2] <= signals /\ c_old[t][2] < c_signals
    /\ signals = c_signals /\ SomeAt("parked") => SomeAt("notify_all")
    /\ flag = "all" /\ ~SomeAt("wake_all") =>
          /\ \A t \in Threads : cpc[t] \in {"add", "wait"} => c_old[t][2] < signals
          /\ SomeAt("parked") => SomeAt("notify_all")

CondInvariant == CondCount /\ SignalInvariant

\* Nobody waits when the word says so, and a thread alone in wait is the last.
LEMMA CountOf ==
    ASSUME CondInvariant
    PROVE  /\ waiters = 0 => \A t \in Threads : cpc[t] \notin WaitPlaces
           /\ \A t \in Threads : cpc[t] \in WaitPlaces /\ waiters = 1 =>
                 \A u \in Threads \ {t} : cpc[u] \notin WaitPlaces
           /\ \A t \in Threads : cpc[t] \in WaitPlaces => waiters # 0
           /\ waiters \in Nat /\ signals \in Nat
<1>1. /\ waiters = Cardinality(On(cpc, WaitPlaces)) /\ waiters \in 0..c_waiters
      /\ signals \in 0..c_signals
  BY DEF CondInvariant, CondCount, CondTypeOK
<1>2. waiters \in Nat /\ signals \in Nat
  BY <1>1, CondVariableAssumption
<1>3. waiters = 0 <=> \A t \in Threads : cpc[t] \notin WaitPlaces
  BY <1>1, OnFinite
<1>4. ASSUME NEW t \in Threads, cpc[t] \in WaitPlaces, waiters = 1, NEW u \in Threads \ {t}
      PROVE  cpc[u] \notin WaitPlaces
  <2> DEFINE g == [cpc EXCEPT ![t] = "out"]
  <2>1. g[t] = "out" /\ \A v \in Threads \ {t} : g[v] = cpc[v]
    BY DEF CondInvariant, CondCount, CondTypeOK
  <2> HIDE DEF g
  <2>2. Cardinality(On(g, WaitPlaces)) = Cardinality(On(cpc, WaitPlaces)) - 1
    BY <1>4, <2>1, OnMove DEF WaitPlaces
  <2>3. Cardinality(On(g, WaitPlaces)) = 0
    <3>1. Cardinality(On(cpc, WaitPlaces)) = 1
      BY <1>1, <1>4
    <3> QED BY <2>2, <3>1
  <2> QED BY <2>1, <2>3, OnFinite
<1> QED BY <1>2, <1>3, <1>4

\* wait up to the block
LEMMA BlockCond ==
    ASSUME CondInvariant, NEW t \in Threads,
           \/ Wait(t) \/ WaitUnlock(t) \/ Unlocked(t) \/ Block(t)
           \/ TimedOut(t) \/ Relocked(t)
    PROVE  CondInvariant'
<1> USE DEF CondInvariant
<1>1. /\ cpc \in [Threads -> {"out", "add", "wait", "parked", "cleanup", "relock",
                              "wake_one", "wake_all", "notify_one", "notify_all"}]
      /\ c_old \in [Threads -> Nat \X Nat] /\ waiters \in 0..c_waiters /\ signals \in 0..c_signals
      /\ waiters \in Nat /\ signals \in Nat /\ c_waiters \in Nat /\ c_signals \in Nat
  BY CountOf, CondVariableAssumption DEF CondCount, CondTypeOK
<1>0. \/ AddWaiter(t) \/ Unlocked(t) \/ Block(t) \/ TimedOut(t) \/ Relocked(t)
  BY DEF Wait, WaitUnlock
<1>r. relocks' \in [Threads -> BOOLEAN]
  BY Zenon DEF CondCount, CondTypeOK, Wait, WaitUnlock, Unlocked, Block, TimedOut, Relocked
<1>2. signals' = signals /\ flag' = flag /\ UNCHANGED vars
  BY <1>0 DEF AddWaiter, Unlocked, Block, TimedOut, Relocked
<1>3. PICK x \in {"out", "add", "wait", "parked", "cleanup"} :
         /\ cpc' = [cpc EXCEPT ![t] = x]
         /\ x = "add" => cpc[t] = "out" /\ waiters' = waiters + 1 /\ waiters # c_waiters
         /\ x # "add" => (x = "out" <=> cpc[t] \notin WaitPlaces) /\ waiters' = waiters
         /\ cpc[t] \notin {"wake_one", "wake_all", "notify_one", "notify_all"}
  BY <1>0 DEF AddWaiter, Unlocked, Block, TimedOut, Relocked, CGoto, WaitPlaces
<1>4. /\ cpc'[t] = x /\ \A u \in Threads \ {t} : cpc'[u] = cpc[u]
      /\ SomeAt("wake_all")' <=> SomeAt("wake_all")
      /\ SomeAt("notify_all")' <=> SomeAt("notify_all")
  BY <1>1, <1>3 DEF SomeAt
<1>5. /\ c_old' \in [Threads -> Nat \X Nat] /\ \A u \in Threads \ {t} : c_old'[u] = c_old[u]
  BY <1>0, <1>1 DEF AddWaiter, Unlocked, Block, TimedOut, Relocked
<1>6. CondCount'
  <2>1. waiters' = Cardinality(On(cpc', WaitPlaces))
    <3>0. cpc'[t] = x /\ \A u \in Threads \ {t} : cpc'[u] = cpc[u]
      BY <1>4
    <3>1. /\ (x \in WaitPlaces <=> cpc[t] \in WaitPlaces)
               => Cardinality(On(cpc', WaitPlaces)) = Cardinality(On(cpc, WaitPlaces))
          /\ x \in WaitPlaces /\ cpc[t] \notin WaitPlaces
               => Cardinality(On(cpc', WaitPlaces)) = Cardinality(On(cpc, WaitPlaces)) + 1
      BY <3>0, OnMove
    <3> QED BY <1>1, <1>3, <3>1 DEF CondCount, WaitPlaces
  <2>2. CondTypeOK'
    <3>1. waiters' \in 0..c_waiters
      BY <1>1, <1>3
    <3>2. cpc' \in [Threads -> {"out", "add", "wait", "parked", "cleanup", "relock",
                                "wake_one", "wake_all", "notify_one", "notify_all"}]
      BY <1>1, <1>3
    <3>3. SharedTypeOK' /\ signals' \in 0..c_signals /\ flag' \in {"no", "one", "all"}
      BY <1>2 DEF CondCount, CondTypeOK, SharedTypeOK, vars
    <3> QED BY Zenon, <1>r, <3>1, <3>2, <3>3 DEF CondTypeOK
  <2>3. waiters' = 0 => signals' = 0
    BY <1>1, <1>2, <1>3 DEF CondCount
  <2> QED BY <1>5, <2>1, <2>2, <2>3 DEF CondCount
<1>7. x \in {"add", "wait"} =>
         /\ c_old'[t][2] \in Nat /\ c_old'[t][2] <= signals /\ c_old'[t][2] < c_signals
         /\ flag = "all" /\ ~SomeAt("wake_all") => c_old'[t][2] < signals
  <2>1. CASE AddWaiter(t)
    <3>1. c_old'[t] = <<waiters + 1, signals>> /\ flag = "no" /\ signals # c_signals
      BY <1>1, <2>1 DEF AddWaiter
    <3> QED BY <1>1, <3>1
  <2>2. CASE Unlocked(t)
    <3>1. c_old'[t] = c_old[t] /\ cpc[t] = "add"
      BY <2>2 DEF Unlocked
    <3> QED BY <3>1 DEF SignalInvariant
  <2>3. CASE Block(t) \/ TimedOut(t) \/ Relocked(t)
    BY <1>1, <1>4, <2>3 DEF Block, TimedOut, Relocked, CGoto
  <2> QED BY Zenon, <1>0, <2>1, <2>2, <2>3
<1>8. x = "parked" => /\ signals # c_signals
                      /\ ~(flag = "all" /\ ~SomeAt("wake_all"))
  <2>1. x = "parked" => cpc[t] = "wait" /\ c_old[t] = <<waiters, signals>>
    BY <1>0, <1>1, <1>4 DEF AddWaiter, Unlocked, Block, TimedOut, Relocked, CGoto
  <2>2. x = "parked" => c_old[t][2] = signals
    BY <2>1
  <2> QED BY <1>1, <2>1, <2>2 DEF SignalInvariant
<1>9. SomeAt("parked")' => SomeAt("parked") \/ x = "parked"
  BY <1>4 DEF SomeAt
<1>10. SignalInvariant'
  BY Zenon, <1>2, <1>4, <1>5, <1>7, <1>8, <1>9 DEF SignalInvariant
<1> QED BY <1>6, <1>10

\* The number of the threads in wait after one thread has moved.
LEMMA CondMoved ==
    ASSUME CondInvariant, NEW t \in Threads, NEW x, CGoto(t, x)
    PROVE  /\ cpc'[t] = x /\ \A u \in Threads \ {t} : cpc'[u] = cpc[u]
           /\ (x \in WaitPlaces <=> cpc[t] \in WaitPlaces) => Cardinality(On(cpc', WaitPlaces)) = waiters
           /\ x \notin WaitPlaces /\ cpc[t] \in WaitPlaces
                 => Cardinality(On(cpc', WaitPlaces)) = waiters - 1
<1>1. cpc'[t] = x /\ \A u \in Threads \ {t} : cpc'[u] = cpc[u]
  BY DEF CondInvariant, CondCount, CondTypeOK, CGoto
<1> DEFINE Counts(P) ==
              /\ (x \in P <=> cpc[t] \in P) => Cardinality(On(cpc', P)) = Cardinality(On(cpc, P))
              /\ x \notin P /\ cpc[t] \in P => Cardinality(On(cpc', P)) = Cardinality(On(cpc, P)) - 1
<1>c. ASSUME NEW P PROVE Counts(P)
  BY <1>1, OnMove
<1>2. Counts(WaitPlaces)
  BY Zenon, <1>c
<1>3. waiters = Cardinality(On(cpc, WaitPlaces))
  BY DEF CondInvariant, CondCount
<1> QED BY Zenon, <1>1, <1>2, <1>3

\* The end of wait: the last waiter takes the signals back, when nobody remembers any.
LEMMA CleanupCond ==
    ASSUME CondInvariant, NEW t \in Threads, Cleanup(t)
    PROVE  CondInvariant'
<1> USE DEF CondInvariant
<1>0. PICK x \in {"relock", "out"} : cpc' = [cpc EXCEPT ![t] = x]
  BY Zenon DEF Cleanup, CGoto
<1>1. /\ cpc[t] = "cleanup"
      /\ waiters' = waiters - 1 /\ signals' = IF waiters = 1 THEN 0 ELSE signals
      /\ UNCHANGED <<vars, c_old, flag>>
      /\ relocks' \in [Threads -> BOOLEAN]
  BY DEF Cleanup, CondCount, CondTypeOK
<1>2. /\ cpc'[t] = x /\ \A u \in Threads \ {t} : cpc'[u] = cpc[u]
      /\ Cardinality(On(cpc', WaitPlaces)) = waiters - 1
  <2>1. x \notin WaitPlaces /\ cpc[t] \in WaitPlaces
    BY <1>1 DEF WaitPlaces
  <2> QED BY Zenon, <1>0, <2>1, CondMoved DEF CGoto
<1>3. waiters \in Nat /\ waiters # 0 /\ signals \in Nat
  BY <1>1, CountOf DEF WaitPlaces
<1>4. CondCount'
  <2>1. waiters' \in 0..c_waiters /\ signals' \in 0..c_signals /\ (waiters' = 0 => signals' = 0)
    BY <1>1, <1>3, CondVariableAssumption DEF CondCount, CondTypeOK
  <2>2. CondTypeOK'
    BY Zenon, <1>0, <1>1, <2>1 DEF CondCount, CondTypeOK, SharedTypeOK, vars
  <2> QED BY <1>1, <1>2, <2>1, <2>2 DEF CondCount
<1>5. SignalInvariant'
  <2>1. CASE waiters = 1
    <3>1. \A u \in Threads : cpc'[u] \notin WaitPlaces
      BY <1>1, <1>2, <2>1, CountOf DEF WaitPlaces
    <3> QED BY <3>1 DEF SignalInvariant, WaitPlaces, SomeAt
  <2>2. CASE waiters # 1
    <3>1. /\ SomeAt("parked")' <=> SomeAt("parked")
          /\ SomeAt("wake_all")' <=> SomeAt("wake_all")
          /\ SomeAt("notify_all")' <=> SomeAt("notify_all")
      BY <1>1, <1>2 DEF SomeAt
    <3> QED BY Zenon, <1>1, <1>2, <2>2, <3>1 DEF SignalInvariant
  <2> QED BY <2>1, <2>2
<1> QED BY <1>4, <1>5

\* The condition changes: one that makes it true is about to notify.
LEMMA SetFlagCond ==
    ASSUME CondInvariant, NEW t \in Threads, SetFlag(t)
    PROVE  CondInvariant'
<1> USE DEF CondInvariant
<1>1. /\ cpc[t] = "out" /\ UNCHANGED <<vars, waiters, signals, c_old, relocks>>
      /\ cpc \in [Threads -> {"out", "add", "wait", "parked", "cleanup", "relock",
                              "wake_one", "wake_all", "notify_one", "notify_all"}]
  BY DEF SetFlag, CondCount, CondTypeOK
<1>2. PICK x \in {"out", "wake_one", "wake_all"} :
         /\ cpc' = [cpc EXCEPT ![t] = x]
         /\ flag' \in {"no", "one", "all"} /\ (flag' = "all" <=> x = "wake_all")
  BY <1>1 DEF SetFlag, CGoto
<1>3. /\ cpc'[t] = x /\ \A u \in Threads \ {t} : cpc'[u] = cpc[u]
      /\ Cardinality(On(cpc', WaitPlaces)) = waiters
  BY Zenon, <1>1, <1>2, CondMoved DEF WaitPlaces, CGoto
<1>4. CondCount'
  <2>1. CondTypeOK'
    BY <1>1, <1>2 DEF CondCount, CondTypeOK, SharedTypeOK, vars
  <2> QED BY <1>1, <1>3, <2>1 DEF CondCount
<1>5. SignalInvariant'
  <2>1. /\ SomeAt("parked")' <=> SomeAt("parked")
        /\ SomeAt("notify_all") => SomeAt("notify_all")'
        /\ flag' = "all" => SomeAt("wake_all")'
    BY <1>1, <1>2, <1>3 DEF SomeAt
  <2> QED BY Zenon, <1>1, <1>2, <1>3, <2>1 DEF SignalInvariant
<1> QED BY <1>4, <1>5

\* imp_wake
LEMMA WakeCond ==
    ASSUME CondInvariant, NEW t \in Threads, Wake(t)
    PROVE  CondInvariant'
<1> USE DEF CondInvariant
<1>1. /\ cpc[t] \in {"wake_one", "wake_all"} /\ UNCHANGED <<vars, waiters, c_old, relocks, flag>>
      /\ cpc \in [Threads -> {"out", "add", "wait", "parked", "cleanup", "relock",
                              "wake_one", "wake_all", "notify_one", "notify_all"}]
      /\ waiters \in Nat /\ signals \in 0..c_signals /\ c_signals \in Nat
  BY CountOf, CondVariableAssumption DEF Wake, CondCount, CondTypeOK
<1>2. PICK x \in {"out", "notify_one", "notify_all"} :
         /\ cpc' = [cpc EXCEPT ![t] = x]
         /\ x = "out" => signals' = signals /\ (waiters + signals = 0 \/ signals = c_signals)
         /\ x # "out" => signals' = signals + 1 /\ waiters + signals # 0 /\ signals # c_signals
         /\ x = "notify_one" => cpc[t] # "wake_all" /\ signals' # c_signals
  BY <1>1 DEF Wake, CGoto
<1>3. /\ cpc'[t] = x /\ \A u \in Threads \ {t} : cpc'[u] = cpc[u]
      /\ Cardinality(On(cpc', WaitPlaces)) = waiters
  BY Zenon, <1>1, <1>2, CondMoved DEF WaitPlaces, CGoto
<1>4. signals' \in 0..c_signals /\ signals' >= signals /\ (waiters = 0 => signals' = 0)
  BY <1>1, <1>2 DEF CondCount
<1>5. CondCount'
  <2>1. CondTypeOK'
    BY <1>1, <1>2, <1>4 DEF CondCount, CondTypeOK, SharedTypeOK, vars
  <2> QED BY <1>1, <1>3, <1>4, <2>1 DEF CondCount
<1>6. /\ SomeAt("parked")' <=> SomeAt("parked")
      /\ SomeAt("notify_all")' <=> SomeAt("notify_all") \/ x = "notify_all"
      /\ \A u \in Threads : cpc'[u] \in {"add", "wait"} <=> cpc[u] \in {"add", "wait"}
      /\ cpc[t] # "wake_all" => (SomeAt("wake_all")' <=> SomeAt("wake_all"))
  BY <1>1, <1>2, <1>3 DEF SomeAt
<1>7. SignalInvariant'
  <2>1. CASE x = "out" /\ waiters = 0
    <3>1. \A u \in Threads : cpc'[u] \notin WaitPlaces
      BY <1>3, <2>1, CountOf DEF WaitPlaces
    <3> QED BY Zenon, <3>1 DEF SignalInvariant, WaitPlaces, SomeAt
  <2>2. CASE x = "out" /\ waiters # 0
    <3>1. signals' = signals /\ signals = c_signals
      BY <1>1, <1>2, <2>2
    <3> QED BY Zenon, <1>1, <1>6, <3>1 DEF SignalInvariant
  <2>3. CASE x = "notify_all"
    <3>1. signals' = signals + 1 /\ SomeAt("notify_all")'
      BY <1>2, <1>6, <2>3
    <3> QED BY <1>1, <1>6, <3>1 DEF SignalInvariant
  <2>4. CASE x = "notify_one"
    <3>1. signals' = signals + 1 /\ signals' # c_signals /\ cpc[t] # "wake_all"
      BY <1>2, <2>4
    <3> QED BY <1>1, <1>6, <3>1 DEF SignalInvariant
  <2> QED BY <2>1, <2>2, <2>3, <2>4
<1> QED BY <1>5, <1>7


\* notify_one() and notify_all() end the sleep of threads, which stay in wait.
LEMMA NotifyCond ==
    ASSUME CondInvariant, NEW t \in Threads, NotifyOne(t) \/ NotifyAll(t)
    PROVE  CondInvariant'
<1> USE DEF CondInvariant
<1>1. /\ cpc[t] \in {"notify_one", "notify_all"}
      /\ UNCHANGED <<vars, waiters, signals, c_old, relocks, flag>>
      /\ cpc \in [Threads -> {"out", "add", "wait", "parked", "cleanup", "relock",
                              "wake_one", "wake_all", "notify_one", "notify_all"}]
  BY DEF NotifyOne, NotifyAll, CondCount, CondTypeOK
<1>2. /\ cpc' \in [Threads -> {"out", "add", "wait", "parked", "cleanup", "relock",
                               "wake_one", "wake_all", "notify_one", "notify_all"}]
      /\ cpc'[t] = "out"
      /\ \A u \in Threads \ {t} : cpc'[u] = cpc[u] \/ (cpc[u] = "parked" /\ cpc'[u] = "cleanup")
  <2>1. CASE NotifyOne(t)
    BY <1>1, <2>1 DEF NotifyOne, CGoto, CondParked
  <2>2. CASE NotifyAll(t)
    BY <1>1, <2>2 DEF NotifyAll, CondParked
  <2> QED BY <2>1, <2>2
<1>3. \A u \in Threads : /\ cpc'[u] \in WaitPlaces <=> cpc[u] \in WaitPlaces
                         /\ cpc'[u] \in {"add", "wait"} <=> cpc[u] \in {"add", "wait"}
                         /\ cpc'[u] = "wake_all" <=> cpc[u] = "wake_all"
                         /\ cpc'[u] = "parked" => cpc[u] = "parked"
  BY <1>1, <1>2 DEF WaitPlaces
<1>4. CondCount'
  <2>1. On(cpc', WaitPlaces) = On(cpc, WaitPlaces)
    BY <1>3 DEF On
  <2>2. CondTypeOK'
    BY <1>1, <1>2 DEF CondCount, CondTypeOK, SharedTypeOK, vars
  <2> QED BY <1>1, <2>1, <2>2 DEF CondCount
<1>5. SomeAt("parked")' => SomeAt("parked") /\ (SomeAt("notify_all") => SomeAt("notify_all")')
  <2>1. CASE cpc[t] = "notify_one"
    BY <1>2, <2>1 DEF SomeAt
  <2>2. CASE cpc[t] = "notify_all"
    <3>1. \A u \in Threads : cpc'[u] # "parked"
      BY <1>1, <2>2 DEF NotifyOne, NotifyAll, CondParked
    <3> QED BY <3>1 DEF SomeAt
  <2> QED BY <1>1, <2>1, <2>2
<1>6. SomeAt("wake_all")' <=> SomeAt("wake_all")
  BY <1>3 DEF SomeAt
<1>7. SignalInvariant'
  BY <1>1, <1>3, <1>5, <1>6 DEF SignalInvariant
<1> QED BY <1>4, <1>7

\* The mutex is not touched but by its own operations, so that all that is proved of
\* it holds when it is used with a cond_variable.
THEOREM CondUsesMutex == CondSpec => Spec
<1>1. CondInit => Init
  BY DEF CondInit
<1>2. ASSUME [CondNext]_<<vars, cvars>> PROVE [Next]_vars
  <2>1. ASSUME NEW t \in Threads, CondStep(t) PROVE UNCHANGED vars
    BY <2>1 DEF CondStep, Wait, WaitUnlock, AddWaiter, Unlocked, Block, TimedOut, Cleanup, Relocked,
                SetFlag, Wake, NotifyOne, NotifyAll
  <2>2. ASSUME NEW t \in Threads, GuardedMutexStep(t) PROVE Next
    BY <2>2 DEF GuardedMutexStep, Next, MutexStep
  <2> QED BY <1>2, <2>1, <2>2 DEF CondNext
<1> QED BY <1>1, <1>2, PTL DEF CondSpec, Spec

\* No notification is lost: when the condition holds and nobody is about to notify all,
\* no thread sleeps; and the word counts the threads in wait, so that a notify_one finds
\* waiters exactly if there are some.
THEOREM NotificationsArrive == CondSpec => []NotifyReachesAll
<1>1. ASSUME CondInit PROVE CondInvariant
  <2>1. /\ cpc = [t \in Threads |-> "out"] /\ waiters = 0 /\ signals = 0 /\ flag = "no"
        /\ c_old = [t \in Threads |-> <<0, 0>>] /\ relocks = [t \in Threads |-> TRUE]
        /\ SharedInv
    BY <1>1, InitInv DEF CondInit
  <2>2. Cardinality(On(cpc, WaitPlaces)) = 0
    <3>1. \A t \in Threads : cpc[t] \notin WaitPlaces
      BY <2>1 DEF WaitPlaces
    <3> QED BY <3>1, OnFinite
  <2>3. CondTypeOK /\ c_old \in [Threads -> Nat \X Nat]
    BY <2>1, CondVariableAssumption DEF CondTypeOK, SharedInv
  <2>4. SignalInvariant
    BY <2>1 DEF SignalInvariant, SomeAt
  <2> QED BY <2>1, <2>2, <2>3, <2>4 DEF CondInvariant, CondCount
<1>2. ASSUME CondInvariant, SharedInv', [CondNext]_<<vars, cvars>> PROVE CondInvariant'
  <2>1. ASSUME NEW t \in Threads, CondStep(t) PROVE CondInvariant'
    BY <1>2, <2>1, BlockCond, CleanupCond, SetFlagCond, WakeCond, NotifyCond DEF CondStep
  <2>2. CASE UNCHANGED cvars
    <3>1. CondTypeOK'
      BY <1>2, <2>2 DEF CondInvariant, CondCount, CondTypeOK, cvars, SharedInv
    <3> QED BY <1>2, <2>2, <3>1 DEF CondInvariant, CondCount, SignalInvariant, SomeAt, cvars
  <2> QED BY <1>2, <2>1, <2>2 DEF CondNext
<1>3. ASSUME CondInvariant PROVE NotifyReachesAll
  <2>1. On(cpc, WaitPlaces) = {t \in Threads : cpc[t] \in {"add", "wait", "parked", "cleanup"}}
    BY DEF On, WaitPlaces
  <2>2. WaitersCounted
    BY <1>3, <2>1 DEF CondInvariant, CondCount, WaitersCounted
  <2> QED BY <1>3, <2>2 DEF CondInvariant, SignalInvariant, NotifyReachesAll, SomeAt, CondParked
<1>4. CondSpec => []SharedInv
  BY CondUsesMutex, Invariance, PTL
<1> QED BY <1>1, <1>2, <1>3, <1>4, PTL DEF CondSpec


=============================================================================
