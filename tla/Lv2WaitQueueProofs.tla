------------------------- MODULE Lv2WaitQueueProofs -------------------------
(***************************************************************************)
(* Lemmas about the wait queue's operators, for the proofs of the          *)
(* primitives.                                                             *)
(***************************************************************************)
EXTENDS Lv2WaitQueue, Integers, TLAPS, WellFoundedInduction

\* Unlink, by which unqueue() and schedule() unlink a waiter, shortens the
\* queue by one and keeps the order of the others.
LEMMA UnlinkProperties ==
    ASSUME NEW S, NEW s \in Seq(S), NEW i \in 1..Len(s)
    PROVE  /\ Unlink(s, i) \in Seq(S)
           /\ Len(Unlink(s, i)) = Len(s) - 1
           /\ \A j \in 1..Len(s)-1 : Unlink(s,i)[j] = IF j < i THEN s[j] ELSE s[j+1]
<1> DEFINE a == SubSeq(s, 1, i - 1)
           b == SubSeq(s, i + 1, Len(s))
<1>1. a \in Seq(S) /\ Len(a) = i - 1 /\ \A j \in 1..i-1 : a[j] = s[j]
  OBVIOUS
<1>2. b \in Seq(S) /\ Len(b) = Len(s) - i /\ \A j \in 1..Len(s)-i : b[j] = s[i + j]
  OBVIOUS
<1>3. Unlink(s, i) = a \o b
  BY DEF Unlink
<1> HIDE DEF a, b
<1>4. a \o b \in Seq(S) /\ Len(a \o b) = Len(s) - 1
  <2>0. a \in Seq(S) /\ b \in Seq(S)
    BY <1>1, <1>2
  <2>1. a \o b \in Seq(S) /\ Len(a \o b) = Len(a) + Len(b)
    BY <2>0
  <2>2. Len(s) \in Nat /\ i \in Int
    OBVIOUS
  <2> QED BY <1>1, <1>2, <2>1, <2>2
<1>5. ASSUME NEW j \in 1..Len(s)-1 PROVE (a \o b)[j] = IF j < i THEN s[j] ELSE s[j+1]
  <2>1. (a \o b)[j] = IF j <= Len(a) THEN a[j] ELSE b[j - Len(a)]
    BY <1>1, <1>2
  <2>2. Len(s) \in Nat /\ i \in 1..Len(s) /\ j \in 1..Len(s)-1
    OBVIOUS
  <2>3. CASE j < i
    BY <2>1, <2>2, <2>3, <1>1
  <2>4. CASE ~(j < i)
    <3>1. (a \o b)[j] = b[j - (i - 1)] /\ j - (i - 1) \in 1..Len(s)-i
      BY <2>1, <2>2, <2>4, <1>1
    <3>2. i + (j - (i - 1)) = j + 1
      BY <2>2
    <3> QED BY <3>1, <3>2, <2>4, <1>2
  <2> QED BY Zenon, <2>3, <2>4
<1> QED BY <1>3, <1>4, <1>5

\* Unlinking one waiter keeps every other one in the queue and adds none.
LEMMA UnlinkMembers ==
    ASSUME NEW S, NEW s \in Seq(S), NEW i \in 1..Len(s), NEW t
    PROVE  /\ InQueue(s, t) /\ t # s[i] => InQueue(Unlink(s, i), t)
           /\ InQueue(Unlink(s, i), t) => InQueue(s, t)
<1> DEFINE r == Unlink(s, i)
<1>1. /\ r \in Seq(S)
      /\ Len(r) = Len(s) - 1
      /\ \A j \in 1..Len(s)-1 : r[j] = IF j < i THEN s[j] ELSE s[j+1]
  BY UnlinkProperties
<1> HIDE DEF r
<1>2. Len(s) \in Nat /\ DOMAIN s = 1..Len(s) /\ DOMAIN r = 1..Len(s)-1
  BY <1>1
<1>3. ASSUME NEW j \in 1..Len(s), s[j] = t, t # s[i] PROVE InQueue(r, t)
  <2>1. CASE j < i
    <3>1. j \in 1..Len(s)-1 BY <2>1, <1>2
    <3> QED BY Zenon, <3>1, <2>1, <1>1, <1>2, <1>3 DEF InQueue
  <2>2. CASE j > i
    <3>1. j - 1 \in 1..Len(s)-1 /\ ~(j - 1 < i) /\ (j - 1) + 1 = j BY <2>2, <1>2
    <3> QED BY Zenon, <3>1, <1>1, <1>2, <1>3 DEF InQueue
  <2> QED BY <2>1, <2>2, <1>3
<1>4. ASSUME NEW j \in 1..Len(s)-1, r[j] = t PROVE InQueue(s, t)
  <2>1. j \in 1..Len(s) /\ j + 1 \in 1..Len(s) BY <1>2
  <2> QED BY <2>1, <1>1, <1>2, <1>4 DEF InQueue
<1> QED BY <1>2, <1>3, <1>4 DEF InQueue, r

\* emplace() adds exactly one waiter.
LEMMA EmplaceProperties ==
    ASSUME NEW S, NEW s \in Seq(S), NEW t \in S
    PROVE  /\ Emplace(s, t) \in Seq(S)
           /\ Len(Emplace(s, t)) = Len(s) + 1
           /\ \A u : InQueue(Emplace(s, t), u) <=> u = t \/ InQueue(s, u)
<1>1. /\ Emplace(s, t) \in Seq(S)
      /\ Len(Emplace(s, t)) = Len(s) + 1
      /\ Emplace(s, t)[1] = t
      /\ \A j \in 2..Len(s)+1 : Emplace(s, t)[j] = s[j-1]
  BY DEF Emplace
<1>2. Len(s) \in Nat /\ DOMAIN s = 1..Len(s) /\ DOMAIN Emplace(s, t) = 1..Len(s)+1
  BY <1>1
<1>3. ASSUME NEW u, InQueue(s, u) PROVE InQueue(Emplace(s, t), u)
  <2>1. PICK j \in 1..Len(s) : s[j] = u BY <1>2, <1>3 DEF InQueue
  <2>2. j + 1 \in 2..Len(s)+1 /\ j + 1 \in 1..Len(s)+1 /\ (j + 1) - 1 = j BY <1>2
  <2> QED BY Zenon, <2>1, <2>2, <1>1, <1>2 DEF InQueue
<1>4. InQueue(Emplace(s, t), t)
  <2>1. 1 \in 1..Len(s)+1 BY <1>2
  <2> QED BY <2>1, <1>1, <1>2 DEF InQueue
<1>5. ASSUME NEW u, InQueue(Emplace(s, t), u) PROVE u = t \/ InQueue(s, u)
  <2>1. PICK j \in 1..Len(s)+1 : Emplace(s, t)[j] = u BY <1>2, <1>5 DEF InQueue
  <2>2. CASE j = 1 BY <2>1, <2>2, <1>1
  <2>3. CASE j # 1
    <3>1. j \in 2..Len(s)+1 /\ j - 1 \in 1..Len(s) BY <2>3, <1>2
    <3> QED BY <2>1, <3>1, <1>1, <1>2 DEF InQueue
  <2> QED BY <2>2, <2>3
<1> QED BY <1>1, <1>3, <1>4, <1>5

\* unqueue() of a queued waiter is Unlink at one of its positions.
LEMMA UnqueueIndex ==
    ASSUME NEW S, NEW s \in Seq(S), NEW t, InQueue(s, t)
    PROVE  IndexOf(s, t) \in 1..Len(s) /\ s[IndexOf(s, t)] = t
BY DEF InQueue, IndexOf

\* A nonempty set of naturals has a smallest element.
LEMMA SmallestNat ==
    ASSUME NEW T \in SUBSET Nat, T # {}
    PROVE  \E x \in T : \A y \in T : x <= y
<1> DEFINE R == {ss \in Nat \X Nat : ss[1] < ss[2]}
<1>1. IsWellFoundedOn(R, Nat)
  <2>1. OpToRel(<, Nat) = R
    BY DEF OpToRel
  <2> QED BY <2>1, NatLessThanWellFounded
<1>2. PICK x \in T : \A y \in T : ~(<<y, x>> \in R)
  <2> HIDE DEF R
  <2> QED BY Zenon, <1>1, WFMin
<1>3. ASSUME NEW y \in T, ~(x <= y) PROVE FALSE
  <2>1. y < x /\ y \in Nat /\ x \in Nat BY <1>3
  <2>2. <<y, x>> \in R BY <2>1
  <2> QED BY <1>2, <2>2
<1> QED BY <1>3

\* schedule() finds a waiter in every nonempty queue: under the priority
\* protocol one waiter comes before all others.
LEMMA ScheduleByInDomain ==
    ASSUME NEW S, Prio \in [S -> Nat], NEW protocol \in {"fifo", "prio"},
           NEW s \in Seq(S), s # <<>>
    PROVE  ScheduleBy(protocol, s) \in 1..Len(s)
<1>1. Len(s) \in Nat \ {0} /\ DOMAIN s = 1..Len(s) /\ \A i \in 1..Len(s) : s[i] \in S
  OBVIOUS
<1>2. PICK p \in {Prio[s[i]] : i \in 1..Len(s)} : \A q \in {Prio[s[i]] : i \in 1..Len(s)} : p <= q
  <2>1. {Prio[s[i]] : i \in 1..Len(s)} \in SUBSET Nat  BY <1>1
  <2>2. Prio[s[1]] \in {Prio[s[i]] : i \in 1..Len(s)} BY <1>1
  <2> QED BY Zenon, <2>1, <2>2, SmallestNat
<1> DEFINE T == {k \in 0..Len(s)-1 : Prio[s[Len(s) - k]] = p}
<1>3. PICK k \in T : \A m \in T : k <= m
  <2>1. T \in SUBSET Nat BY <1>1
  <2>2. PICK i \in 1..Len(s) : p = Prio[s[i]] BY <1>2
  <2>3. Len(s) - i \in T BY <2>2, <1>1
  <2> HIDE DEF T
  <2> QED BY Zenon, <2>1, <2>3, SmallestNat
<1> DEFINE x == Len(s) - k
<1>4. x \in 1..Len(s) /\ Prio[s[x]] = p
  BY <1>1, <1>3
<1>5. ASSUME NEW j \in DOMAIN s \ {x} PROVE Before(s, x, j)
  <2>1. Prio[s[j]] \in Nat /\ p \in Nat /\ p <= Prio[s[j]] BY <1>1, <1>2
  <2>2. CASE p < Prio[s[j]] BY <2>2, <1>4 DEF Before
  <2>3. CASE p = Prio[s[j]]
    <3>1. Len(s) - j \in T BY <2>3, <1>1
    <3>2. k <= Len(s) - j BY Zenon, <3>1, <1>3
    <3>3. x > j
      <4>1. k \in Int /\ Len(s) \in Int /\ j \in Int /\ j # Len(s) - k BY <1>1, <1>3
      <4> QED BY <3>2, <4>1
    <3> QED BY <3>3, <2>3, <1>4 DEF Before
  <2> QED BY <2>1, <2>2, <2>3
<1>6. \E i \in DOMAIN s : \A j \in DOMAIN s \ {i} : Before(s, i, j)
  BY Zenon, <1>4, <1>5, <1>1
<1> QED BY <1>1, <1>6 DEF ScheduleBy

LEMMA ScheduleInDomain ==
    ASSUME NEW S, Prio \in [S -> Nat], Protocol \in {"fifo", "prio"},
           NEW s \in Seq(S), s # <<>>
    PROVE  Schedule(s) \in 1..Len(s)
BY Zenon, ScheduleByInDomain DEF Schedule

\* A thread that is not queued is queued once after emplace().
LEMMA EmplaceOnce ==
    ASSUME NEW S, NEW s \in Seq(S), NEW t \in S, ~InQueue(s, t),
           \A i, j \in DOMAIN s : s[i] = s[j] => i = j
    PROVE  \A i, j \in DOMAIN Emplace(s, t) : Emplace(s, t)[i] = Emplace(s, t)[j] => i = j
<1> DEFINE r == Emplace(s, t)
<1>1. /\ Len(s) \in Nat /\ DOMAIN s = 1..Len(s) /\ DOMAIN r = 1..Len(s)+1
      /\ r[1] = t /\ \A j \in 2..Len(s)+1 : r[j] = s[j-1]
  BY DEF Emplace
<1> HIDE DEF r
<1>2. ASSUME NEW j \in 1..Len(s)+1 PROVE j = 1 \/ (j \in 2..Len(s)+1 /\ j - 1 \in DOMAIN s /\ r[j] # t)
  <2>1. j # 1 => j \in 2..Len(s)+1 /\ j - 1 \in DOMAIN s
    BY <1>1
  <2> QED BY <2>1, <1>1 DEF InQueue
<1>3. ASSUME NEW i \in 1..Len(s)+1, NEW j \in 1..Len(s)+1, r[i] = r[j] PROVE i = j
  <2>1. CASE i = 1 \/ j = 1
    BY Zenon, <2>1, <1>1, <1>2, <1>3
  <2>2. CASE i # 1 /\ j # 1
    <3>1. s[i - 1] = s[j - 1] /\ i - 1 \in DOMAIN s /\ j - 1 \in DOMAIN s
      BY Zenon, <2>2, <1>1, <1>2, <1>3
    <3>2. i - 1 = j - 1
      BY Zenon, <3>1
    <3> QED BY <3>2
  <2> QED BY <2>1, <2>2
<1> QED BY <1>1, <1>3 DEF r

\* A thread that is queued once is not queued after it was unlinked, and the
\* others are still queued once.
LEMMA UnlinkOnce ==
    ASSUME NEW S, NEW s \in Seq(S), NEW i \in 1..Len(s),
           \A j, k \in DOMAIN s : s[j] = s[k] => j = k
    PROVE  /\ ~InQueue(Unlink(s, i), s[i])
           /\ \A j, k \in DOMAIN Unlink(s, i) : Unlink(s, i)[j] = Unlink(s, i)[k] => j = k
<1> DEFINE r == Unlink(s, i)
           old(j) == IF j < i THEN j ELSE j + 1
<1>1. /\ Len(s) \in Nat /\ DOMAIN s = 1..Len(s) /\ DOMAIN r = 1..Len(s)-1
      /\ \A j \in 1..Len(s)-1 : r[j] = IF j < i THEN s[j] ELSE s[j+1]
  BY UnlinkProperties
<1> HIDE DEF r
<1>2. ASSUME NEW j \in 1..Len(s)-1 PROVE old(j) \in DOMAIN s /\ old(j) # i /\ r[j] = s[old(j)]
  BY <1>1
<1>3. ASSUME NEW j \in 1..Len(s)-1, NEW k \in 1..Len(s)-1, old(j) = old(k) PROVE j = k
  BY <1>1, <1>3
<1> HIDE DEF old
<1>4. \A j \in 1..Len(s)-1 : r[j] # s[i]
  BY <1>1, <1>2
<1>5. ASSUME NEW j \in 1..Len(s)-1, NEW k \in 1..Len(s)-1, r[j] = r[k] PROVE j = k
  BY Zenon, <1>2, <1>3, <1>5
<1> QED BY <1>1, <1>4, <1>5 DEF InQueue, r

=============================================================================
