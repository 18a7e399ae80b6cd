--------------------------- MODULE Lv2RwLockProofs --------------------------
(***************************************************************************)
(* Proofs about sys_rwlock.cpp for any number of threads and of read locks *)
(* a thread has, any timeouts, both protocols, with and without            *)
(* savestates.                                                             *)
(***************************************************************************)
EXTENDS Lv2RwLock, Lv2WaitQueueProofs, FiniteSetTheorems

\* The places of a lock that is queued, of one that waits or was granted, and of
\* one that has not returned.
QueuePlaces == {"waiting", "resched", "expired", "again_l"}

WaitPlaces == {"waiting", "resched", "expired"}

LockPlaces == {"waiting", "resched", "expired", "again_l", "redo_l"}

\* A queued thread waits in one place for what its queue is for and sleeps until it
\* times out; one that will repeat its call keeps its place.
ReadersOnce == \A i, j \in DOMAIN rq : rq[i] = rq[j] => i = j

WritersOnce == \A i, j \in DOMAIN wq : wq[i] = wq[j] => i = j

ReadersQueued == \A t \in Threads : InQueue(rq, t) => pc[t] \in QueuePlaces /\ mode[t] = "r"

WritersQueued == \A t \in Threads : InQueue(wq, t) => pc[t] \in QueuePlaces /\ mode[t] = "w"

QueuedAsleep == \A t \in Threads : Queued(t) /\ pc[t] \in {"waiting", "again_l"} => st[t] = "sleep"

RepeatQueued == \A t \in Threads : pc[t] = "again_l" => Queued(t) /\ stop

QueueInv ==
    /\ ReadersOnce /\ WritersOnce
    /\ ReadersQueued /\ WritersQueued
    /\ QueuedAsleep /\ RepeatQueued

\* Only a timed wait lapses, and only who has the lock unlocks it.
LapsedTimed == \A t \in Threads : pc[t] \in {"resched", "expired"} => arg[t] # 0

ReleasesHeld ==
    \A t \in Threads : /\ pc[t] \in {"ru_lock", "again_ru", "redo_ru"} => reading[t] > 0
                       /\ pc[t] \in {"wu_lock", "again_wu", "redo_wu"} => writing[t]

ReadsBounded ==
    \A t \in Threads : /\ reading[t] <= MaxReads
                       /\ pc[t] \in LockPlaces /\ mode[t] = "r" => reading[t] < MaxReads

\* While a thread has to repeat its lock after a reload, nothing else happens: the
\* others have not started, or wait again without a timeout.
Restoring ==
    \A t \in Threads : pc[t] = "redo_l" =>
        /\ st[t] = "sleep" /\ arg[t] = 0 /\ ~stop
        /\ \A u \in Threads : /\ pc[u] \in {"user", "redo_l", "redo_ru", "redo_wu", "waiting"}
                              /\ pc[u] = "waiting" => Queued(u) /\ arg[u] = 0

PlaceInv == mutex = None /\ LapsedTimed /\ ReleasesHeld /\ ReadsBounded /\ Restoring

\* The wait bit is set while somebody waits or will wait again, it is set only while
\* somebody has the lock, and readers leave it set only for a writer.
BitOfWaiters ==
    rq # <<>> \/ wq # <<>> \/ (\E t \in Threads : pc[t] = "redo_l") => owner.wait

BitOfHolders == owner.wait => owner.writer # None \/ owner.readers > 0

BitOfWriters ==
    owner.wait /\ owner.readers > 0 =>
        wq # <<>> \/ \E t \in Threads : pc[t] = "redo_l" /\ mode[t] = "w"

BitInv == BitOfWaiters /\ BitOfHolders /\ BitOfWriters

RwInv == TypeOK /\ QueueInv /\ PlaceInv /\ BitInv /\ OwnerMatchesHolders

-----------------------------------------------------------------------------
\* Sets and numbers

\* A queue in which nobody is twice has as many members as waiters.
LEMMA QueueCardinality ==
    ASSUME NEW S, NEW s \in Seq(S), \A i, j \in DOMAIN s : s[i] = s[j] => i = j
    PROVE  /\ IsFiniteSet(Range(s)) /\ Cardinality(Range(s)) = Len(s)
           /\ Range(s) \subseteq S /\ \A t : t \in Range(s) <=> InQueue(s, t)
<1>1. Len(s) \in Nat /\ DOMAIN s = 1..Len(s) /\ \A i \in 1..Len(s) : s[i] \in S
  OBVIOUS
<1>2. s \in [1..Len(s) -> Range(s)] /\ \A r \in Range(s) : \E i \in 1..Len(s) : s[i] = r
  BY <1>1 DEF Range
<1>3. s \in Bijection(1..Len(s), Range(s))
  BY Zenon, <1>1, <1>2 DEF Bijection, Injection, Surjection, IsInjective
<1>4. ExistsBijection(1..Len(s), Range(s))
  BY Zenon, <1>3 DEF ExistsBijection
<1>5. IsFiniteSet(1..Len(s))
  BY <1>1, FS_Interval
<1>6. IsFiniteSet(Range(s)) /\ Cardinality(Range(s)) = Len(s)
  BY Zenon, <1>1, <1>4, <1>5, FS_Bijection, FS_CountingElements
<1>7. Range(s) \subseteq S /\ \A t : t \in Range(s) <=> InQueue(s, t)
  BY <1>1 DEF Range, InQueue
<1> QED BY <1>6, <1>7

\* unqueue() of a thread that is queued once leaves all others queued, and leaves
\* the queue empty only if the thread was alone in it.
LEMMA UnqueueProperties ==
    ASSUME NEW S, NEW s \in Seq(S), NEW t, InQueue(s, t),
           \A i, j \in DOMAIN s : s[i] = s[j] => i = j
    PROVE  /\ Unqueue(s, t) \in Seq(S)
           /\ \A u : InQueue(Unqueue(s, t), u) <=> u # t /\ InQueue(s, u)
           /\ \A i, j \in DOMAIN Unqueue(s, t) : Unqueue(s, t)[i] = Unqueue(s, t)[j] => i = j
           /\ Unqueue(s, t) = <<>> <=> s = <<t>>
<1>1. PICK i \in 1..Len(s) : s[i] = t /\ Unqueue(s, t) = Unlink(s, i)
  BY Zenon, UnqueueIndex DEF Unqueue
<1>2. Unlink(s, i) \in Seq(S) /\ Len(Unlink(s, i)) = Len(s) - 1
  BY UnlinkProperties
<1>3. \A u : InQueue(Unlink(s, i), u) <=> u # t /\ InQueue(s, u)
  <2>1. \A u : /\ InQueue(s, u) /\ u # s[i] => InQueue(Unlink(s, i), u)
               /\ InQueue(Unlink(s, i), u) => InQueue(s, u)
    BY Zenon, UnlinkMembers
  <2>2. ~InQueue(Unlink(s, i), s[i])
    BY Zenon, UnlinkOnce
  <2> QED BY Zenon, <1>1, <2>1, <2>2
<1>4. \A j, k \in DOMAIN Unlink(s, i) : Unlink(s, i)[j] = Unlink(s, i)[k] => j = k
  BY Zenon, UnlinkOnce
<1>5. Unlink(s, i) = <<>> <=> s = <<t>>
  <2>1. Len(s) \in Nat /\ (Unlink(s, i) = <<>> <=> Len(Unlink(s, i)) = 0)
    BY <1>2
  <2>2. Len(s) = 1 <=> s = <<t>>
    BY <1>1
  <2> QED BY <1>2, <2>1, <2>2
<1> QED BY Zenon, <1>1, <1>2, <1>3, <1>4, <1>5

\* A queue that is not empty has a member, and an empty one has none.
LEMMA QueueNotEmpty ==
    ASSUME NEW S, NEW s \in Seq(S)
    PROVE  s # <<>> <=> \E t \in S : InQueue(s, t)
BY DEF InQueue

\* The numbers of read locks and of granted locks.
LEMMA HolderCounts ==
    /\ IsFiniteSet(ReadLocks) /\ Cardinality(ReadLocks) \in Nat
    /\ \A m : IsFiniteSet(Granted(m)) /\ Cardinality(Granted(m)) \in Nat
<1>1. IsFiniteSet(Threads \X (1..MaxReads))
  <2>1. IsFiniteSet(1..MaxReads)
    BY RwLockAssumption, FS_Interval
  <2> QED BY Zenon, <2>1, RwLockAssumption, FS_Product
<1>2. IsFiniteSet(ReadLocks)
  BY Zenon, <1>1, FS_Subset DEF ReadLocks
<1>3. ASSUME NEW m PROVE IsFiniteSet(Granted(m))
  BY Zenon, RwLockAssumption, FS_Subset DEF Granted
<1> QED BY Zenon, <1>2, <1>3, FS_CardinalityType

\* A thread takes or gives up one read lock.
LEMMA ReadLocksMove ==
    ASSUME reading \in [Threads -> Nat], NEW t \in Threads, NEW n \in Nat,
           reading' = [reading EXCEPT ![t] = n]
    PROVE  /\ n = reading[t] + 1 /\ n <= MaxReads =>
                Cardinality(ReadLocks') = Cardinality(ReadLocks) + 1
           /\ n = reading[t] - 1 /\ reading[t] <= MaxReads =>
                Cardinality(ReadLocks') = Cardinality(ReadLocks) - 1
<1>1. MaxReads \in Nat /\ reading[t] \in Nat
  BY RwLockAssumption
<1>2. \A u \in Threads, k \in 1..MaxReads :
         /\ <<u, k>> \in ReadLocks <=> k <= reading[u]
         /\ <<u, k>> \in ReadLocks' <=> k <= IF u = t THEN n ELSE reading[u]
  BY DEF ReadLocks
<1>3. /\ ReadLocks \subseteq Threads \X (1..MaxReads)
      /\ ReadLocks' \subseteq Threads \X (1..MaxReads)
  BY DEF ReadLocks
<1>4. ASSUME n = reading[t] + 1, n <= MaxReads
      PROVE  ReadLocks' = ReadLocks \cup {<<t, n>>} /\ <<t, n>> \notin ReadLocks
  <2>1. n \in 1..MaxReads /\ ~(n <= reading[t])
    BY <1>1, <1>4
  <2>2. \A u \in Threads, k \in 1..MaxReads :
           <<u, k>> \in ReadLocks' <=> <<u, k>> \in ReadLocks \/ (u = t /\ k = n)
    <3> TAKE u \in Threads, k \in 1..MaxReads
    <3>1. k <= n <=> k <= reading[t] \/ k = n
      BY <1>1, <1>4
    <3> QED BY Zenon, <1>2, <3>1
  <2> QED BY <1>2, <1>3, <2>1, <2>2
<1>5. ASSUME n = reading[t] - 1, reading[t] <= MaxReads
      PROVE  ReadLocks' = ReadLocks \ {<<t, reading[t]>>} /\ <<t, reading[t]>> \in ReadLocks
  <2>1. reading[t] \in 1..MaxReads /\ reading[t] <= reading[t]
    BY <1>1, <1>5
  <2>2. \A u \in Threads, k \in 1..MaxReads :
           <<u, k>> \in ReadLocks' <=> <<u, k>> \in ReadLocks /\ ~(u = t /\ k = reading[t])
    <3> TAKE u \in Threads, k \in 1..MaxReads
    <3>1. k <= n <=> k <= reading[t] /\ k # reading[t]
      BY <1>1, <1>5
    <3> QED BY Zenon, <1>2, <3>1
  <2> QED BY <1>2, <1>3, <2>1, <2>2
<1>6. ASSUME n = reading[t] + 1, n <= MaxReads
      PROVE  Cardinality(ReadLocks') = Cardinality(ReadLocks) + 1
  <2>1. ReadLocks' = ReadLocks \cup {<<t, n>>} /\ <<t, n>> \notin ReadLocks
    BY <1>4, <1>6
  <2>2. Cardinality(ReadLocks \cup {<<t, n>>}) = Cardinality(ReadLocks) + 1
    BY Zenon, <2>1, HolderCounts, FS_AddElement
  <2> QED BY Zenon, <2>1, <2>2
<1>7. ASSUME n = reading[t] - 1, reading[t] <= MaxReads
      PROVE  Cardinality(ReadLocks') = Cardinality(ReadLocks) - 1
  <2>1. ReadLocks' = ReadLocks \ {<<t, reading[t]>>} /\ <<t, reading[t]>> \in ReadLocks
    BY <1>5, <1>7
  <2>2. Cardinality(ReadLocks \ {<<t, reading[t]>>}) = Cardinality(ReadLocks) - 1
    BY Zenon, <2>1, HolderCounts, FS_RemoveElement
  <2> QED BY Zenon, <2>1, <2>2
<1> QED BY Zenon, <1>6, <1>7

-----------------------------------------------------------------------------
\* What steps have in common

\* The places of the type, and which of them the sets of places have.
LEMMA PlacesHold ==
    \A p \in {"user", "halted", "waiting", "resched", "expired", "ru_lock", "wu_lock",
              "again_l", "again_ru", "again_wu", "redo_l", "redo_ru", "redo_wu"} : p \in Places
BY DEF Places

\* The types, as facts about one thread.
LEMMA Types ==
    ASSUME RwInv
    PROVE  /\ owner \in Owners /\ owner.readers \in Nat /\ owner.wait \in BOOLEAN
           /\ owner.writer \in Threads \cup {None}
           /\ rq \in Seq(Threads) /\ wq \in Seq(Threads)
           /\ pc \in [Threads -> Places] /\ st \in [Threads -> Status]
           /\ mode \in [Threads -> {"r", "w"}] /\ arg \in [Threads -> Nat]
           /\ reading \in [Threads -> Nat] /\ writing \in [Threads -> BOOLEAN]
           /\ mutex = None
<1>1. owner.readers \in Nat /\ owner.wait \in BOOLEAN /\ owner.writer \in Threads \cup {None}
  BY DEF RwInv, TypeOK, Owners
<1> QED BY Zenon, <1>1 DEF RwInv, TypeOK, ThreadsTypeOK, PlaceInv

\* Who acts while threads have to repeat their lock is one of them.
LEMMA NobodyRepeats ==
    ASSUME RwInv, NEW t \in Threads,
           \/ stop
           \/ pc[t] \notin {"user", "redo_l", "redo_ru", "redo_wu", "waiting"}
           \/ MayEnter(t) /\ pc[t] # "redo_l"
           \/ pc[t] = "waiting" /\ (arg[t] # 0 \/ ~Queued(t))
    PROVE  \A u \in Threads : pc[u] # "redo_l"
<1> SUFFICES ASSUME NEW u \in Threads, pc[u] = "redo_l" PROVE FALSE
  BY Zenon
<1>1. /\ st[u] = "sleep" /\ ~stop
      /\ pc[t] \in {"user", "redo_l", "redo_ru", "redo_wu", "waiting"}
      /\ pc[t] = "waiting" => Queued(t) /\ arg[t] = 0
  BY Zenon DEF RwInv, PlaceInv, Restoring
<1>2. ~MayEnter(t) \/ pc[t] = "redo_l"
  BY Zenon, <1>1 DEF MayEnter, FutureSleepers
<1> QED BY Zenon, <1>1, <1>2

\* A step of one thread that leaves the queues as they are.
LEMMA QueueMove ==
    ASSUME RwInv, NEW t \in Threads, NEW p, pc' = [pc EXCEPT ![t] = p],
           UNCHANGED <<rq, wq, mode, stop>>,
           \A u \in Threads \ {t} : st'[u] = st[u],
           Queued(t) => p \in QueuePlaces,
           Queued(t) /\ p \in {"waiting", "again_l"} => st'[t] = "sleep",
           p = "again_l" => Queued(t) /\ stop
    PROVE  QueueInv'
<1>1. pc'[t] = p /\ \A u \in Threads \ {t} : pc'[u] = pc[u]
  BY Zenon, Types
<1>2. /\ \A u : InQueue(rq, u)' <=> InQueue(rq, u)
      /\ \A u : InQueue(wq, u)' <=> InQueue(wq, u)
      /\ \A u : Queued(u)' <=> Queued(u)
  BY Zenon DEF Queued
<1>3. ReadersOnce' /\ WritersOnce'
  BY Zenon DEF RwInv, QueueInv, ReadersOnce, WritersOnce
<1>4. ReadersQueued' /\ WritersQueued'
  BY Zenon, <1>1, <1>2 DEF RwInv, QueueInv, ReadersQueued, WritersQueued, Queued
<1>5. QueuedAsleep' /\ RepeatQueued'
  BY Zenon, <1>1, <1>2 DEF RwInv, QueueInv, QueuedAsleep, RepeatQueued
<1> QED BY Zenon, <1>3, <1>4, <1>5 DEF QueueInv

\* A step of one thread, none of them having to repeat its lock.
LEMMA PlaceMove ==
    ASSUME RwInv, NEW t \in Threads, NEW p, pc' = [pc EXCEPT ![t] = p],
           \A u \in Threads : pc[u] # "redo_l", p # "redo_l", mutex' = mutex,
           \A u \in Threads \ {t} : /\ arg'[u] = arg[u] /\ mode'[u] = mode[u]
                                    /\ reading'[u] = reading[u] /\ writing'[u] = writing[u],
           p \in {"resched", "expired"} => arg'[t] # 0,
           p \in {"ru_lock", "again_ru", "redo_ru"} => reading'[t] > 0,
           p \in {"wu_lock", "again_wu", "redo_wu"} => writing'[t],
           reading'[t] <= MaxReads,
           p \in LockPlaces /\ mode'[t] = "r" => reading'[t] < MaxReads
    PROVE  PlaceInv' /\ \A u \in Threads : pc'[u] # "redo_l"
<1>1. pc'[t] = p /\ \A u \in Threads \ {t} : pc'[u] = pc[u]
  BY Zenon, Types
<1>2. \A u \in Threads : pc'[u] # "redo_l"
  BY Zenon, <1>1
<1>3. mutex' = None
  BY Zenon, Types
<1>4. LapsedTimed' /\ ReleasesHeld' /\ ReadsBounded'
  <2>1. LapsedTimed /\ ReleasesHeld /\ ReadsBounded
    BY Zenon DEF RwInv, PlaceInv
  <2>2. LapsedTimed'
    BY Zenon, <1>1, <2>1 DEF LapsedTimed
  <2>3. ReleasesHeld'
    BY Zenon, <1>1, <2>1 DEF ReleasesHeld
  <2>4. ReadsBounded'
    BY <1>1, <2>1 DEF ReadsBounded
  <2> QED BY Zenon, <2>2, <2>3, <2>4
<1>5. Restoring'
  BY Zenon, <1>2 DEF Restoring
<1> QED BY Zenon, <1>2, <1>3, <1>4, <1>5 DEF PlaceInv

\* Nobody is granted the lock, or returns with it, in a step of a thread that was
\* not granted it.
LEMMA GrantedSame ==
    ASSUME RwInv, NEW t \in Threads, NEW p, pc' = [pc EXCEPT ![t] = p],
           \A u \in Threads \ {t} : mode'[u] = mode[u] /\ (Queued(u)' <=> Queued(u)),
           pc[t] \notin WaitPlaces \/ Queued(t),
           p \notin WaitPlaces \/ Queued(t)'
    PROVE  Granted("r")' = Granted("r") /\ Granted("w")' = Granted("w")
<1>1. pc'[t] = p /\ \A u \in Threads \ {t} : pc'[u] = pc[u]
  BY Zenon, Types
<1>2. ASSUME NEW m PROVE Granted(m)' = Granted(m)
  <2>1. t \notin Granted(m) /\ t \notin Granted(m)'
    BY Zenon, <1>1 DEF Granted, WaitPlaces
  <2>2. \A u \in Threads : u \in Granted(m)' <=> u \in Granted(m)
    <3>1. \A u \in Threads \ {t} : u \in Granted(m)' <=> u \in Granted(m)
      BY Zenon, <1>1 DEF Granted
    <3> QED BY Zenon, <2>1, <3>1
  <2>3. Granted(m) \subseteq Threads /\ Granted(m)' \subseteq Threads
    BY Zenon DEF Granted
  <2> QED BY Zenon, <2>2, <2>3
<1> QED BY Zenon, <1>2

\* The holders do not change.
LEMMA HoldersSame ==
    ASSUME RwInv, Granted("r")' = Granted("r"), Granted("w")' = Granted("w"),
           owner'.writer = owner.writer, owner'.readers = owner.readers,
           UNCHANGED <<reading, writing>>
    PROVE  OwnerMatchesHolders'
<1>1. ReadLocks' = ReadLocks
  BY Zenon DEF ReadLocks
<1> QED BY Zenon, <1>1 DEF RwInv, OwnerMatchesHolders

\* A step of one thread inside its call that leaves the lock alone.
LEMMA QuietStep ==
    ASSUME RwInv, NEW t \in Threads, NEW p \in Places, pc' = [pc EXCEPT ![t] = p],
           UNCHANGED <<owner, rq, wq, mutex, stop, mode, arg, reading, writing>>, exists' \in BOOLEAN,
           ThreadsTypeOK', \A u \in Threads \ {t} : st'[u] = st[u],
           \A u \in Threads : pc[u] # "redo_l", p # "redo_l",
           Queued(t) => p \in QueuePlaces,
           Queued(t) /\ p \in {"waiting", "again_l"} => st'[t] = "sleep",
           p = "again_l" => Queued(t) /\ stop,
           ~Queued(t) => (pc[t] \in WaitPlaces <=> p \in WaitPlaces),
           p \in LockPlaces => pc[t] \in LockPlaces,
           p \in {"resched", "expired"} => arg[t] # 0,
           p \in {"ru_lock", "again_ru", "redo_ru"} => reading[t] > 0,
           p \in {"wu_lock", "again_wu", "redo_wu"} => writing[t]
    PROVE  RwInv'
<1>1. TypeOK'
  BY Zenon DEF RwInv, TypeOK
<1>2. QueueInv'
  BY Zenon, QueueMove
<1>3. PlaceInv' /\ \A u \in Threads : pc'[u] # "redo_l"
  <2>1. reading[t] <= MaxReads /\ (p \in LockPlaces /\ mode[t] = "r" => reading[t] < MaxReads)
    BY Zenon DEF RwInv, PlaceInv, ReadsBounded
  <2> QED BY Zenon, <2>1, PlaceMove
<1>4. BitInv'
  BY Zenon, <1>3 DEF RwInv, BitInv, BitOfWaiters, BitOfHolders, BitOfWriters
<1>5. ASSUME NEW m PROVE Granted(m)' = Granted(m)
  <2>1. pc'[t] = p /\ \A u \in Threads \ {t} : pc'[u] = pc[u]
    BY Zenon, Types
  <2>2. \A u : Queued(u)' <=> Queued(u)
    BY Zenon DEF Queued
  <2>3. \A u \in Threads : u \in Granted(m)' <=> u \in Granted(m)
    BY Zenon, <2>1, <2>2 DEF Granted, WaitPlaces
  <2>4. Granted(m) \subseteq Threads /\ Granted(m)' \subseteq Threads
    BY Zenon DEF Granted
  <2> QED BY Zenon, <2>3, <2>4
<1>6. OwnerMatchesHolders'
  BY Zenon, <1>5, HoldersSame
<1> QED BY Zenon, <1>1, <1>2, <1>3, <1>4, <1>6 DEF RwInv

-----------------------------------------------------------------------------
\* The locks

\* A lock that sys_rwlock_create has made.
LEMMA InitInv == Init => RwInv
<1> SUFFICES ASSUME Init PROVE RwInv
  OBVIOUS
<1> USE RwLockAssumption DEF Init, ThreadsInit
<1>1. \A t \in Threads : /\ pc[t] = "user" /\ reading[t] = 0 /\ ~writing[t] /\ mode[t] = "r"
  OBVIOUS
<1>2. rq = <<>> /\ wq = <<>> /\ DOMAIN rq = {} /\ DOMAIN wq = {} /\ \A t : ~Queued(t)
  BY DEF Queued, InQueue
<1>3. owner.writer = None /\ owner.readers = 0 /\ owner.wait = FALSE
  BY DEF Free
<1>4. TypeOK
  <2>1. ThreadsTypeOK
    BY DEF ThreadsTypeOK, Status
  <2>2. owner \in Owners
    BY DEF Free, Owners
  <2>3. pc \in [Threads -> Places]
    BY PlacesHold
  <2>4. rq \in Seq(Threads) /\ wq \in Seq(Threads)
    BY <1>2
  <2>5. /\ mode \in [Threads -> {"r", "w"}] /\ arg \in [Threads -> Nat]
        /\ reading \in [Threads -> Nat] /\ writing \in [Threads -> BOOLEAN]
    OBVIOUS
  <2> QED BY Zenon, <2>1, <2>2, <2>3, <2>4, <2>5 DEF TypeOK
<1>5. QueueInv
  BY Zenon, <1>1, <1>2 DEF QueueInv, ReadersOnce, WritersOnce, ReadersQueued, WritersQueued,
     QueuedAsleep, RepeatQueued, Queued
<1>6. PlaceInv
  <2>1. ReadsBounded
    BY <1>1 DEF ReadsBounded, LockPlaces
  <2> QED BY Zenon, <1>1, <2>1 DEF PlaceInv, LapsedTimed, ReleasesHeld, Restoring
<1>7. BitInv
  BY <1>1, <1>2, <1>3 DEF BitInv, BitOfWaiters, BitOfHolders, BitOfWriters
<1>8. OwnerMatchesHolders
  <2>1. Granted("r") = {} /\ Granted("w") = {}
    BY Zenon, <1>1 DEF Granted
  <2>2. ReadLocks = {}
    BY <1>1 DEF ReadLocks
  <2>3. Cardinality({}) = 0
    BY Zenon, FS_EmptySet
  <2>4. owner.readers = Cardinality(ReadLocks) + Cardinality(Granted("r"))
    <3>1. 0 + 0 = 0
      OBVIOUS
    <3> QED BY Zenon, <1>3, <2>1, <2>2, <2>3, <3>1
  <2>5. \A t \in Threads : owner.writer # t
    BY Zenon, <1>3
  <2> QED BY Zenon, <1>1, <1>3, <2>1, <2>4, <2>5 DEF OwnerMatchesHolders
<1> QED BY Zenon, <1>4, <1>5, <1>6, <1>7, <1>8 DEF RwInv

\* GrantTo counts one lock of one thread.
LEMMA GrantToOne ==
    ASSUME RwInv, NEW t \in Threads, NEW m \in {"r", "w"}, GrantTo(t, m)
    PROVE  /\ reading' \in [Threads -> Nat] /\ writing' \in [Threads -> BOOLEAN]
           /\ \A u \in Threads \ {t} : reading'[u] = reading[u] /\ writing'[u] = writing[u]
           /\ m = "r" => reading' = [reading EXCEPT ![t] = reading[t] + 1] /\ writing' = writing
           /\ m = "w" => reading' = reading /\ writing' = [writing EXCEPT ![t] = TRUE]
           /\ m = "r" => reading'[t] = reading[t] + 1
           /\ m = "w" => reading'[t] = reading[t]
<1>1. reading \in [Threads -> Nat] /\ writing \in [Threads -> BOOLEAN]
  BY Zenon, Types
<1>2. CASE m = "r"
  BY <1>1, <1>2 DEF GrantTo
<1>3. CASE m = "w"
  BY <1>1, <1>3 DEF GrantTo
<1> QED BY Zenon, <1>2, <1>3

\* A thread that was granted the lock returns with it.
LEMMA GrantedReturns ==
    ASSUME RwInv, NEW t \in Threads, ~Queued(t), pc[t] \in {"waiting", "expired"},
           NEW p \in {"user", "halted"}, pc' = [pc EXCEPT ![t] = p], GrantTo(t, mode[t]),
           UNCHANGED <<owner, rq, wq, mutex, exists, stop, mode, arg>>,
           ThreadsTypeOK', \A u \in Threads \ {t} : st'[u] = st[u]
    PROVE  RwInv'
<1>1. mode[t] \in {"r", "w"} /\ reading[t] \in Nat /\ MaxReads \in Nat
  BY Zenon, Types, RwLockAssumption
<1>2. /\ reading' \in [Threads -> Nat] /\ writing' \in [Threads -> BOOLEAN]
      /\ \A u \in Threads \ {t} : reading'[u] = reading[u] /\ writing'[u] = writing[u]
      /\ mode[t] = "r" => reading' = [reading EXCEPT ![t] = reading[t] + 1] /\ writing' = writing
      /\ mode[t] = "w" => reading' = reading /\ writing' = [writing EXCEPT ![t] = TRUE]
      /\ mode[t] = "r" => reading'[t] = reading[t] + 1
      /\ mode[t] = "w" => reading'[t] = reading[t]
  BY Zenon, <1>1, GrantToOne
<1>3. pc'[t] = p /\ \A u \in Threads \ {t} : pc'[u] = pc[u]
  BY Zenon, Types
<1>4. \A u \in Threads : pc[u] # "redo_l"
  BY Zenon, NobodyRepeats
<1>5. reading[t] <= MaxReads /\ (mode[t] = "r" => reading[t] < MaxReads)
  BY DEF RwInv, PlaceInv, ReadsBounded, LockPlaces
<1>6. TypeOK'
  <2>1. pc' \in [Threads -> Places]
    BY Zenon, Types, PlacesHold
  <2> QED BY Zenon, <1>2, <2>1 DEF RwInv, TypeOK
<1>7. QueueInv'
  BY Zenon, QueueMove
<1>8. PlaceInv' /\ \A u \in Threads : pc'[u] # "redo_l"
  <2>1. reading'[t] <= MaxReads
    BY <1>1, <1>2, <1>5
  <2>2. p \notin LockPlaces
    BY Zenon DEF LockPlaces
  <2> QED BY Zenon, <1>2, <1>4, <2>1, <2>2, PlaceMove
<1>9. BitInv'
  BY Zenon, <1>8, <1>4 DEF RwInv, BitInv, BitOfWaiters, BitOfHolders, BitOfWriters
<1>10. OwnerMatchesHolders'
  <2>1. ASSUME NEW m
        PROVE  /\ mode[t] = m => t \in Granted(m) /\ Granted(m)' = Granted(m) \ {t}
               /\ mode[t] # m => Granted(m)' = Granted(m)
    <3>1. t \in Granted(m) <=> mode[t] = m
      BY Zenon DEF Granted
    <3>2. t \notin Granted(m)'
      BY Zenon, <1>3 DEF Granted
    <3>3. \A u \in Threads \ {t} : u \in Granted(m)' <=> u \in Granted(m)
      BY Zenon, <1>3 DEF Granted, Queued
    <3>4. Granted(m) \subseteq Threads /\ Granted(m)' \subseteq Threads
      BY Zenon DEF Granted
    <3> QED BY <3>1, <3>2, <3>3, <3>4
  <2>2. CASE mode[t] = "r"
    <3>1. Cardinality(ReadLocks') = Cardinality(ReadLocks) + 1
      <4>1. reading[t] + 1 \in Nat /\ reading[t] + 1 <= MaxReads
        BY <1>1, <1>5, <2>2
      <4> QED BY Zenon, <1>2, <2>2, <4>1, Types, ReadLocksMove
    <3>2. Cardinality(Granted("r")') = Cardinality(Granted("r")) - 1
      BY Zenon, <2>1, <2>2, HolderCounts, FS_RemoveElement
    <3>3. Granted("w")' = Granted("w") /\ writing' = writing
      BY <1>2, <2>1, <2>2
    <3>4. Cardinality(ReadLocks') + Cardinality(Granted("r")') =
            Cardinality(ReadLocks) + Cardinality(Granted("r"))
      BY <3>1, <3>2, HolderCounts
    <3> QED BY Zenon, <3>3, <3>4 DEF RwInv, OwnerMatchesHolders
  <2>3. CASE mode[t] = "w"
    <3>1. /\ Granted("r")' = Granted("r") /\ Granted("w")' = Granted("w") \ {t} /\ t \in Granted("w")
          /\ reading' = reading /\ writing' = [writing EXCEPT ![t] = TRUE]
      BY <1>2, <2>1, <2>3
    <3>2. \A u \in Threads : writing'[u] \/ u \in Granted("w")' <=> writing[u] \/ u \in Granted("w")
      BY <3>1, Types
    <3>3. ReadLocks' = ReadLocks
      BY Zenon, <3>1 DEF ReadLocks
    <3> QED BY Zenon, <3>1, <3>2, <3>3 DEF RwInv, OwnerMatchesHolders
  <2> QED BY Zenon, <1>1, <2>2, <2>3
<1> QED BY Zenon, <1>6, <1>7, <1>8, <1>9, <1>10 DEF RwInv

\* A lock that is available is taken at once: bit 0 is clear, so that nobody waits.
LEMMA TakeInv ==
    ASSUME RwInv, NEW t \in Threads, NEW m \in {"r", "w"}, Available(m),
           pc[t] \in {"user", "redo_l"}, m = "r" /\ pc[t] = "user" => reading[t] < MaxReads,
           owner' = OwnedBy(t, m), GrantTo(t, m), pc' = [pc EXCEPT ![t] = "user"],
           UNCHANGED <<rq, wq, mutex, exists, stop, mode, arg, threadVars>>
    PROVE  RwInv'
<1>1. /\ owner.writer = None /\ owner.wait = FALSE /\ (m = "w" => owner.readers = 0)
      /\ owner \in Owners /\ owner.readers \in Nat /\ reading[t] \in Nat /\ MaxReads \in Nat
  BY Zenon, Types, RwLockAssumption DEF Available
<1>2. rq = <<>> /\ wq = <<>> /\ \A u \in Threads : pc[u] # "redo_l"
  BY <1>1 DEF RwInv, BitInv, BitOfWaiters
<1>3. /\ reading' \in [Threads -> Nat] /\ writing' \in [Threads -> BOOLEAN]
      /\ \A u \in Threads \ {t} : reading'[u] = reading[u] /\ writing'[u] = writing[u]
      /\ m = "r" => reading' = [reading EXCEPT ![t] = reading[t] + 1] /\ writing' = writing
      /\ m = "w" => reading' = reading /\ writing' = [writing EXCEPT ![t] = TRUE]
      /\ m = "r" => reading'[t] = reading[t] + 1
      /\ m = "w" => reading'[t] = reading[t]
  BY Zenon, GrantToOne
<1>4. /\ owner' \in Owners /\ owner'.wait = FALSE
      /\ m = "r" => owner'.writer = None /\ owner'.readers = owner.readers + 1
      /\ m = "w" => owner'.writer = t /\ owner'.readers = 0
  BY <1>1 DEF OwnedBy, Owners
<1>5. reading[t] <= MaxReads /\ (m = "r" => reading[t] < MaxReads)
  BY Zenon, <1>2 DEF RwInv, PlaceInv, ReadsBounded
<1>6. TypeOK'
  <2>1. pc' \in [Threads -> Places]
    BY Zenon, Types, PlacesHold
  <2> QED BY Zenon, <1>3, <1>4, <2>1 DEF RwInv, TypeOK, ThreadsTypeOK, threadVars
<1>7. ~Queued(t) /\ \A u : Queued(u)' <=> Queued(u)
  <2>1. ~Queued(t)
    BY <1>2 DEF Queued, InQueue
  <2> QED BY Zenon, <2>1 DEF Queued
<1>8. QueueInv'
  BY Zenon, <1>7, QueueMove DEF threadVars
<1>9. PlaceInv' /\ \A u \in Threads : pc'[u] # "redo_l"
  <2>1. reading'[t] <= MaxReads
    BY <1>1, <1>3, <1>5
  <2>2. "user" \notin LockPlaces
    BY Zenon DEF LockPlaces
  <2> QED BY Zenon, <1>2, <1>3, <2>1, <2>2, PlaceMove
<1>10. BitInv'
  BY Zenon, <1>2, <1>4, <1>9 DEF BitInv, BitOfWaiters, BitOfHolders, BitOfWriters
<1>11. OwnerMatchesHolders'
  <2>1. Granted("r")' = Granted("r") /\ Granted("w")' = Granted("w")
    <3>1. pc[t] \notin WaitPlaces /\ "user" \notin WaitPlaces
      BY Zenon DEF WaitPlaces
    <3> QED BY Zenon, <1>7, <3>1, GrantedSame
  <2>2. /\ owner.readers = Cardinality(ReadLocks) + Cardinality(Granted("r"))
        /\ \A u \in Threads : ~writing[u] /\ u \notin Granted("w")
    BY Zenon, <1>1, RwLockAssumption DEF RwInv, OwnerMatchesHolders
  <2>3. CASE m = "r"
    <3>1. Cardinality(ReadLocks') = Cardinality(ReadLocks) + 1
      <4>1. reading[t] + 1 \in Nat /\ reading[t] + 1 <= MaxReads
        BY <1>1, <1>5, <2>3
      <4> QED BY Zenon, <1>3, <2>3, <4>1, Types, ReadLocksMove
    <3>2. owner'.readers = Cardinality(ReadLocks') + Cardinality(Granted("r")')
      BY <1>4, <2>1, <2>2, <2>3, <3>1, HolderCounts
    <3>3. \A u \in Threads : owner'.writer # u /\ ~writing'[u] /\ u \notin Granted("w")'
      BY Zenon, <1>3, <1>4, <2>1, <2>2, <2>3, RwLockAssumption
    <3>4. owner'.writer = None
      BY Zenon, <1>4, <2>3
    <3> QED BY Zenon, <3>2, <3>3, <3>4 DEF OwnerMatchesHolders
  <2>4. CASE m = "w"
    <3>1. owner'.readers = owner.readers /\ reading' = reading /\ owner'.writer = t /\ owner'.readers = 0
      BY Zenon, <1>1, <1>3, <1>4, <2>4
    <3>2. ReadLocks' = ReadLocks
      BY Zenon, <3>1 DEF ReadLocks
    <3>3. \A u \in Threads : writing'[u] <=> u = t
      BY <1>3, <2>2, <2>4, Types
    <3> QED BY Zenon, <2>1, <2>2, <3>1, <3>2, <3>3 DEF OwnerMatchesHolders
  <2> QED BY Zenon, <2>3, <2>4
<1> QED BY Zenon, <1>6, <1>8, <1>9, <1>10, <1>11 DEF RwInv

\* The caller sets the wait bit, sleeps and enters its queue, once.  Repeating the
\* call after a reload restores the queue as the wait bit remembers it.
LEMMA LockWaitInv ==
    ASSUME RwInv, NEW t \in Threads, NEW m \in {"r", "w"}, NEW timeout \in Timeouts,
           LockWait(t, m, timeout)
    PROVE  RwInv'
<1>1. /\ pc' = [pc EXCEPT ![t] = "waiting"] /\ mode' = [mode EXCEPT ![t] = m]
      /\ arg' = [arg EXCEPT ![t] = timeout] /\ owner' = [owner EXCEPT !.wait = TRUE]
      /\ st' = [st EXCEPT ![t] = "sleep"] /\ cancel' = [cancel EXCEPT ![t] = 0]
      /\ m = "r" => rq' = Emplace(rq, t) /\ wq' = wq
      /\ m = "w" => rq' = rq /\ wq' = Emplace(wq, t)
      /\ UNCHANGED <<mutex, exists, stop, reading, writing>>
      /\ ~Available(m) /\ Entering(t, m, timeout)
  BY DEF LockWait, Goto, Sleep, Asleep, history
<1>2. pc[t] \in {"user", "redo_l"} /\ timeout \in Nat
  BY Zenon, <1>1, RwLockAssumption DEF Entering
<1>3. ~InQueue(rq, t) /\ ~InQueue(wq, t)
  BY Zenon, <1>2 DEF RwInv, QueueInv, ReadersQueued, WritersQueued, QueuePlaces
<1>4. /\ rq' \in Seq(Threads) /\ wq' \in Seq(Threads) /\ ReadersOnce' /\ WritersOnce'
      /\ \A u : InQueue(rq', u) <=> InQueue(rq, u) \/ (m = "r" /\ u = t)
      /\ \A u : InQueue(wq', u) <=> InQueue(wq, u) \/ (m = "w" /\ u = t)
  <2>1. rq \in Seq(Threads) /\ wq \in Seq(Threads) /\ ReadersOnce /\ WritersOnce
    BY Zenon, Types DEF RwInv, QueueInv
  <2>2. ASSUME NEW s \in Seq(Threads), ~InQueue(s, t), \A i, j \in DOMAIN s : s[i] = s[j] => i = j
        PROVE  /\ Emplace(s, t) \in Seq(Threads)
               /\ \A i, j \in DOMAIN Emplace(s, t) : Emplace(s, t)[i] = Emplace(s, t)[j] => i = j
               /\ \A u : InQueue(Emplace(s, t), u) <=> u = t \/ InQueue(s, u)
    BY Zenon, <2>2, EmplaceOnce, EmplaceProperties
  <2>3. CASE m = "r"
    <3>1. rq' = Emplace(rq, t) /\ wq' = wq /\ m # "w"
      BY Zenon, <1>1, <2>3
    <3>2. ReadersOnce' /\ WritersOnce'
      BY Zenon, <1>3, <2>1, <2>2, <3>1 DEF ReadersOnce, WritersOnce
    <3> QED BY Zenon, <1>3, <2>1, <2>2, <2>3, <3>1, <3>2 DEF ReadersOnce
  <2>4. CASE m = "w"
    <3>1. rq' = rq /\ wq' = Emplace(wq, t) /\ m # "r"
      BY Zenon, <1>1, <2>4
    <3>2. ReadersOnce' /\ WritersOnce'
      BY Zenon, <1>3, <2>1, <2>2, <3>1 DEF ReadersOnce, WritersOnce
    <3> QED BY Zenon, <1>3, <2>1, <2>2, <2>4, <3>1, <3>2 DEF WritersOnce
  <2> QED BY Zenon, <2>3, <2>4
<1>5. /\ pc'[t] = "waiting" /\ st'[t] = "sleep" /\ mode'[t] = m /\ arg'[t] = timeout
      /\ \A u \in Threads \ {t} : /\ pc'[u] = pc[u] /\ st'[u] = st[u]
                                  /\ mode'[u] = mode[u] /\ arg'[u] = arg[u]
  BY Zenon, <1>1, Types
<1>6. /\ owner' \in Owners /\ owner'.wait = TRUE
      /\ owner'.writer = owner.writer /\ owner'.readers = owner.readers
  BY Zenon, <1>1, Types DEF Owners
<1>7. /\ Queued(t)'
      /\ \A u \in Threads \ {t} : Queued(u)' <=> Queued(u)
  BY Zenon, <1>4 DEF Queued
<1>8. TypeOK'
  <2>1. pc' \in [Threads -> Places] /\ mode' \in [Threads -> {"r", "w"}] /\ arg' \in [Threads -> Nat]
    BY Zenon, <1>1, <1>2, Types, PlacesHold
  <2>2. ThreadsTypeOK'
    BY <1>1 DEF RwInv, TypeOK, ThreadsTypeOK, Status
  <2> QED BY Zenon, <1>1, <1>4, <1>6, <2>1, <2>2 DEF RwInv, TypeOK
<1>9. QueueInv'
  <2>1. ReadersQueued' /\ WritersQueued'
    <3>1. ReadersQueued /\ WritersQueued /\ "waiting" \in QueuePlaces
      BY Zenon DEF RwInv, QueueInv, QueuePlaces
    <3>2. ReadersQueued'
      BY Zenon, <1>3, <1>4, <1>5, <3>1 DEF ReadersQueued
    <3>3. WritersQueued'
      BY Zenon, <1>3, <1>4, <1>5, <3>1 DEF WritersQueued
    <3> QED BY Zenon, <3>2, <3>3
  <2>2. QueuedAsleep' /\ RepeatQueued'
    <3>1. QueuedAsleep /\ RepeatQueued
      BY Zenon DEF RwInv, QueueInv
    <3>2. QueuedAsleep'
      BY Zenon, <1>5, <1>7, <3>1 DEF QueuedAsleep
    <3>3. RepeatQueued'
      BY Zenon, <1>1, <1>5, <1>7, <3>1 DEF RepeatQueued
    <3> QED BY Zenon, <3>2, <3>3
  <2> QED BY Zenon, <1>4, <2>1, <2>2 DEF QueueInv
<1>10. PlaceInv'
  <2>1. CASE pc[t] = "user"
    <3>1. MayEnter(t) /\ (m = "r" => reading[t] < MaxReads)
      BY Zenon, <1>1, <2>1 DEF Entering
    <3>2. \A u \in Threads : pc[u] # "redo_l"
      BY Zenon, <2>1, <3>1, NobodyRepeats
    <3>3. reading'[t] <= MaxReads /\ (m = "r" => reading'[t] < MaxReads)
      BY Zenon, <1>1, <3>1 DEF RwInv, PlaceInv, ReadsBounded
    <3> QED BY Zenon, <1>1, <1>5, <3>2, <3>3, PlaceMove
  <2>2. CASE pc[t] = "redo_l"
    <3>1. m = mode[t] /\ timeout = arg[t]
      BY Zenon, <1>1, <2>2 DEF Entering
    <3>2. LapsedTimed /\ ReleasesHeld /\ ReadsBounded /\ Restoring /\ mutex = None
      BY Zenon DEF RwInv, PlaceInv
    <3>3. LapsedTimed'
      BY Zenon, <1>5, <3>2 DEF LapsedTimed
    <3>4. ReleasesHeld'
      BY Zenon, <1>1, <1>5, <3>2 DEF ReleasesHeld
    <3>5. ReadsBounded'
      <4>1. \A u \in Threads : pc'[u] \in LockPlaces /\ mode'[u] = "r" => pc[u] \in LockPlaces /\ mode[u] = "r"
        BY Zenon, <1>5, <2>2, <3>1 DEF LockPlaces
      <4> QED BY Zenon, <1>1, <3>2, <4>1 DEF ReadsBounded
    <3>6. Restoring'
      <4>1. /\ arg'[t] = 0 /\ ~stop'
            /\ \A u \in Threads : /\ pc[u] \in {"user", "redo_l", "redo_ru", "redo_wu", "waiting"}
                                  /\ pc[u] = "redo_l" => st[u] = "sleep" /\ arg[u] = 0
                                  /\ pc[u] = "waiting" => Queued(u) /\ arg[u] = 0
        BY Zenon, <1>1, <1>5, <2>2, <3>1, <3>2 DEF Restoring
      <4>2. \A u \in Threads : /\ pc'[u] \in {"user", "redo_l", "redo_ru", "redo_wu", "waiting"}
                               /\ pc'[u] = "redo_l" => st'[u] = "sleep" /\ arg'[u] = 0
                               /\ pc'[u] = "waiting" => Queued(u)' /\ arg'[u] = 0
        <5> TAKE u \in Threads
        <5>1. CASE u = t
          BY Zenon, <1>5, <1>7, <4>1, <5>1
        <5>2. CASE u # t
          BY Zenon, <1>5, <1>7, <4>1, <5>2
        <5> QED BY Zenon, <5>1, <5>2
      <4> QED BY Zenon, <4>1, <4>2 DEF Restoring
    <3> QED BY Zenon, <1>1, <3>2, <3>3, <3>4, <3>5, <3>6 DEF PlaceInv
  <2> QED BY Zenon, <1>2, <2>1, <2>2
<1>11. BitInv'
  <2>1. owner.writer # None \/ owner.readers > 0
    <3>1. owner.writer # None \/ owner.wait \/ owner.readers # 0
      BY Zenon, <1>1 DEF Available
    <3> QED BY <3>1, Types DEF RwInv, BitInv, BitOfHolders
  <2>2. ASSUME owner.readers > 0
        PROVE  wq' # <<>> \/ \E u \in Threads : pc'[u] = "redo_l" /\ mode'[u] = "w"
    <3>1. CASE m = "w"
      <4>1. InQueue(wq', t)
        BY Zenon, <1>4, <3>1
      <4> QED BY <1>4, <4>1 DEF InQueue
    <3>2. CASE m = "r"
      <4>1. owner.writer = None
        BY <2>2 DEF RwInv, OwnerMatchesHolders
      <4>2. owner.wait
        BY Zenon, <1>1, <3>2, <4>1 DEF Available
      <4>3. wq # <<>> \/ \E u \in Threads : pc[u] = "redo_l" /\ mode[u] = "w"
        BY Zenon, <2>2, <4>2 DEF RwInv, BitInv, BitOfWriters
      <4>4. ASSUME NEW u \in Threads, pc[u] = "redo_l", mode[u] = "w" PROVE u # t
        <5>1. CASE pc[t] = "user"
          BY Zenon, <4>4, <5>1
        <5>2. CASE pc[t] = "redo_l"
          BY Zenon, <1>1, <3>2, <4>4, <5>2 DEF Entering
        <5> QED BY Zenon, <1>2, <5>1, <5>2
      <4>5. wq' = wq
        BY Zenon, <1>1, <3>2
      <4> QED BY Zenon, <1>5, <4>3, <4>4, <4>5
    <3> QED BY Zenon, <3>1, <3>2
  <2> QED BY Zenon, <1>6, <2>1, <2>2 DEF BitInv, BitOfWaiters, BitOfHolders, BitOfWriters
<1>12. OwnerMatchesHolders'
  <2>1. pc[t] \notin WaitPlaces
    BY Zenon, <1>2 DEF WaitPlaces
  <2>2. Granted("r")' = Granted("r") /\ Granted("w")' = Granted("w")
    BY Zenon, <1>1, <1>5, <1>7, <2>1, GrantedSame
  <2> QED BY Zenon, <1>1, <1>6, <2>2, HoldersSame
<1> QED BY Zenon, <1>8, <1>9, <1>10, <1>11, <1>12 DEF RwInv

\* The loop of the locks: a thread that finds itself signaled is not queued any
\* more.  Without a timed wait to stop, a lock that has expired is always
\* rescheduled first, and does not take its own awake() for a grant.
LEMMA WaitLoopInv ==
    ASSUME RwInv, UntimedStops, NEW t \in Threads,
           WaitSignaled(t) \/ WaitStopped(t) \/ WaitTimeout(t) \/ WaitRescheduled(t)
    PROVE  RwInv'
<1>1. /\ "user" \in Places /\ "again_l" \in Places /\ "resched" \in Places /\ "expired" \in Places
      /\ {"waiting", "resched", "expired"} \subseteq QueuePlaces /\ "again_l" \in QueuePlaces
      /\ {"waiting", "resched", "expired"} \subseteq LockPlaces /\ "again_l" \in LockPlaces
      /\ {"waiting", "resched", "expired"} \subseteq WaitPlaces /\ "again_l" \notin WaitPlaces
  BY DEF Places, QueuePlaces, LockPlaces, WaitPlaces
<1>2. CASE WaitSignaled(t)
  <2>1. /\ pc[t] = "waiting" /\ pc' = [pc EXCEPT ![t] = "user"] /\ st[t] = "ready"
        /\ st' = [st EXCEPT ![t] = "onproc"] /\ cancel' = cancel /\ GrantTo(t, mode[t])
        /\ UNCHANGED <<owner, rq, wq, mutex, exists, stop, mode, arg>>
    BY Zenon, <1>2 DEF WaitSignaled, Resume, Goto, lockVars
  <2>2. ~Queued(t)
    BY <2>1 DEF RwInv, QueueInv, QueuedAsleep
  <2>3. ThreadsTypeOK' /\ \A u \in Threads \ {t} : st'[u] = st[u]
    BY <2>1 DEF RwInv, TypeOK, ThreadsTypeOK, Status
  <2> QED BY Zenon, <2>1, <2>2, <2>3, GrantedReturns
<1>3. CASE WaitStopped(t)
  <2>1. /\ pc[t] = "waiting" /\ stop /\ UNCHANGED <<st, cancel>>
        /\ UNCHANGED <<owner, rq, wq, mutex, exists, stop, mode, arg>>
    BY Zenon, <1>3 DEF WaitStopped, lockVars, threadVars
  <2>2. ThreadsTypeOK' /\ exists' \in BOOLEAN
    BY Zenon, <2>1 DEF RwInv, TypeOK, ThreadsTypeOK
  <2>3. \A u \in Threads : pc[u] # "redo_l"
    BY Zenon, <2>1, NobodyRepeats
  <2>4. CASE Queued(t) /\ pc' = [pc EXCEPT ![t] = "again_l"] /\ UNCHANGED <<reading, writing>>
    <3>1. st'[t] = "sleep"
      BY Zenon, <2>1, <2>4 DEF RwInv, QueueInv, QueuedAsleep
    <3> QED BY Zenon, <1>1, <2>1, <2>2, <2>3, <2>4, <3>1, QuietStep
  <2>5. CASE ~Queued(t) /\ pc' = [pc EXCEPT ![t] = "halted"] /\ GrantTo(t, mode[t])
    BY Zenon, <2>1, <2>2, <2>5, GrantedReturns
  <2> QED BY Zenon, <1>3, <2>4, <2>5 DEF WaitStopped, Goto, history
<1>4. CASE WaitTimeout(t)
  <2>1. /\ pc[t] = "waiting" /\ arg[t] # 0 /\ pc' = [pc EXCEPT ![t] = "resched"]
        /\ UNCHANGED <<owner, rq, wq, mutex, exists, stop, mode, arg, reading, writing>>
    BY Zenon, <1>4 DEF WaitTimeout, Goto, lockVars, history
  <2>2. ThreadsTypeOK' /\ exists' \in BOOLEAN /\ \A u \in Threads \ {t} : st'[u] = st[u]
    BY <1>4, <2>1 DEF WaitTimeout, SelfAwake, RwInv, TypeOK, ThreadsTypeOK, Status
  <2>3. \A u \in Threads : pc[u] # "redo_l"
    BY Zenon, <2>1, NobodyRepeats
  <2> QED BY Zenon, <1>1, <2>1, <2>2, <2>3, QuietStep
<1>5. CASE WaitRescheduled(t)
  <2>1. pc[t] = "resched" /\ arg[t] # 0
    BY Zenon, <1>5 DEF WaitRescheduled, RwInv, PlaceInv, LapsedTimed
  <2>2. ~stop
    BY Zenon, <2>1 DEF UntimedStops
  <2>3. /\ pc' = [pc EXCEPT ![t] = "expired"] /\ st' = [st EXCEPT ![t] = "onproc"] /\ cancel' = cancel
        /\ UNCHANGED <<owner, rq, wq, mutex, exists, stop, mode, arg, reading, writing>>
    BY Zenon, <1>5, <2>2 DEF WaitRescheduled, Resume, Goto, lockVars, history
  <2>4. ThreadsTypeOK' /\ exists' \in BOOLEAN /\ \A u \in Threads \ {t} : st'[u] = st[u]
    BY <2>3 DEF RwInv, TypeOK, ThreadsTypeOK, Status
  <2>5. \A u \in Threads : pc[u] # "redo_l"
    BY Zenon, <2>1, NobodyRepeats
  <2> QED BY Zenon, <1>1, <2>1, <2>3, <2>4, <2>5, QuietStep
<1> QED BY Zenon, <1>2, <1>3, <1>4, <1>5

\* A lock that timed out leaves one queue: nothing is known to be waiting for it.
LEMMA LeaveQueue ==
    ASSUME RwInv, NEW t \in Threads, pc[t] = "expired", Queued(t),
           pc' = [pc EXCEPT ![t] = "user"],
           \/ InQueue(rq, t) /\ rq' = Unqueue(rq, t) /\ wq' = wq
           \/ InQueue(wq, t) /\ wq' = Unqueue(wq, t) /\ rq' = rq,
           UNCHANGED <<mutex, stop, mode, arg, reading, writing, st>>
    PROVE  /\ rq' \in Seq(Threads) /\ wq' \in Seq(Threads)
           /\ QueueInv' /\ PlaceInv' /\ \A u \in Threads : pc'[u] # "redo_l"
           /\ ~Queued(t)'
           /\ Granted("r")' = Granted("r") /\ Granted("w")' = Granted("w")
<1>1. pc'[t] = "user" /\ \A u \in Threads \ {t} : pc'[u] = pc[u]
  BY Zenon, Types
<1>2. rq \in Seq(Threads) /\ wq \in Seq(Threads) /\ ReadersOnce /\ WritersOnce
  BY Zenon, Types DEF RwInv, QueueInv
<1>3. ~(InQueue(rq, t) /\ InQueue(wq, t))
  BY Zenon DEF RwInv, QueueInv, ReadersQueued, WritersQueued
<1>4. ASSUME NEW s \in Seq(Threads), InQueue(s, t), \A i, j \in DOMAIN s : s[i] = s[j] => i = j
      PROVE  /\ Unqueue(s, t) \in Seq(Threads)
             /\ \A i, j \in DOMAIN Unqueue(s, t) : Unqueue(s, t)[i] = Unqueue(s, t)[j] => i = j
             /\ \A u : InQueue(Unqueue(s, t), u) <=> u # t /\ InQueue(s, u)
  BY Zenon, <1>4, UnqueueProperties
<1>5. /\ rq' \in Seq(Threads) /\ wq' \in Seq(Threads) /\ ReadersOnce' /\ WritersOnce'
      /\ \A u : InQueue(rq', u) <=> u # t /\ InQueue(rq, u)
      /\ \A u : InQueue(wq', u) <=> u # t /\ InQueue(wq, u)
  <2>1. CASE InQueue(rq, t) /\ rq' = Unqueue(rq, t) /\ wq' = wq
    <3>1. ReadersOnce' /\ WritersOnce'
      BY Zenon, <1>2, <1>4, <2>1 DEF ReadersOnce, WritersOnce
    <3> QED BY Zenon, <1>2, <1>3, <1>4, <2>1, <3>1 DEF ReadersOnce
  <2>2. CASE InQueue(wq, t) /\ wq' = Unqueue(wq, t) /\ rq' = rq
    <3>1. ReadersOnce' /\ WritersOnce'
      BY Zenon, <1>2, <1>4, <2>2 DEF ReadersOnce, WritersOnce
    <3> QED BY Zenon, <1>2, <1>3, <1>4, <2>2, <3>1 DEF WritersOnce
  <2> QED BY Zenon, <2>1, <2>2
<1>6. ~Queued(t)' /\ \A u \in Threads \ {t} : Queued(u)' <=> Queued(u)
  BY Zenon, <1>5 DEF Queued
<1>7. QueueInv'
  <2>1. ReadersQueued /\ WritersQueued /\ QueuedAsleep /\ RepeatQueued
    BY Zenon DEF RwInv, QueueInv
  <2>2. ReadersQueued'
    BY Zenon, <1>1, <1>5, <2>1 DEF ReadersQueued
  <2>3. WritersQueued'
    BY Zenon, <1>1, <1>5, <2>1 DEF WritersQueued
  <2>4. QueuedAsleep'
    BY Zenon, <1>1, <1>6, <2>1 DEF QueuedAsleep
  <2>5. RepeatQueued'
    BY Zenon, <1>1, <1>6, <2>1 DEF RepeatQueued
  <2> QED BY Zenon, <1>5, <2>2, <2>3, <2>4, <2>5 DEF QueueInv
<1>8. PlaceInv' /\ \A u \in Threads : pc'[u] # "redo_l"
  <2>1. \A u \in Threads : pc[u] # "redo_l"
    BY Zenon, NobodyRepeats
  <2>2. reading'[t] <= MaxReads /\ "user" \notin LockPlaces
    BY Zenon DEF RwInv, PlaceInv, ReadsBounded, LockPlaces
  <2> QED BY Zenon, <2>1, <2>2, PlaceMove
<1>9. Granted("r")' = Granted("r") /\ Granted("w")' = Granted("w")
  BY Zenon, <1>6, GrantedSame DEF WaitPlaces
<1> QED BY Zenon, <1>5, <1>6, <1>7, <1>8, <1>9

\* A timed out reader leaves its queue; the wait bit stays, and somebody has the lock.
LEMMA ReaderExpiredInv ==
    ASSUME RwInv, NEW t \in Threads, ReaderExpired(t)
    PROVE  RwInv'
<1>1. /\ pc[t] = "expired" /\ mode[t] = "r" /\ pc' = [pc EXCEPT ![t] = "user"]
      /\ UNCHANGED <<owner, wq, mutex, exists, stop, mode, arg, st, cancel>>
  BY Zenon DEF ReaderExpired, Goto, threadVars
<1>2. ThreadsTypeOK'
  BY Zenon, <1>1 DEF RwInv, TypeOK, ThreadsTypeOK
<1>3. CASE InQueue(rq, t) /\ rq' = Unqueue(rq, t) /\ UNCHANGED <<reading, writing>>
  <2>1. /\ rq' \in Seq(Threads) /\ wq' \in Seq(Threads)
        /\ QueueInv' /\ PlaceInv' /\ \A u \in Threads : pc'[u] # "redo_l"
        /\ Granted("r")' = Granted("r") /\ Granted("w")' = Granted("w")
    BY Zenon, <1>1, <1>3, LeaveQueue DEF Queued
  <2>2. TypeOK'
    <3>1. pc' \in [Threads -> Places]
      BY Zenon, <1>1, Types, PlacesHold
    <3> QED BY Zenon, <1>1, <1>2, <1>3, <2>1, <3>1 DEF RwInv, TypeOK
  <2>3. BitInv'
    <3>1. owner.wait /\ BitOfHolders /\ BitOfWriters /\ \A u \in Threads : pc[u] # "redo_l"
      <4>1. rq # <<>>
        BY <1>3 DEF InQueue
      <4> QED BY Zenon, <1>1, <4>1, NobodyRepeats DEF RwInv, BitInv, BitOfWaiters
    <3> QED BY Zenon, <1>1, <2>1, <3>1 DEF BitInv, BitOfWaiters, BitOfHolders, BitOfWriters
  <2>4. OwnerMatchesHolders'
    BY Zenon, <1>1, <1>3, <2>1, HoldersSame
  <2> QED BY Zenon, <2>1, <2>2, <2>3, <2>4 DEF RwInv
<1>4. CASE ~InQueue(rq, t) /\ GrantTo(t, "r") /\ UNCHANGED rq
  <2>1. ~Queued(t)
    BY Zenon, <1>1, <1>4 DEF Queued, RwInv, QueueInv, WritersQueued
  <2> QED BY Zenon, <1>1, <1>2, <1>4, <2>1, GrantedReturns
<1> QED BY Zenon, <1>3, <1>4 DEF ReaderExpired, history

\* All queued readers are let in, none of which will repeat its call.
LEMMA ReadersLetIn ==
    ASSUME RwInv, NEW t \in Threads, ~InQueue(rq, t), pc[t] \notin WaitPlaces \/ Queued(t),
           \A u \in Threads : InQueue(wq, u) => u = t, ~SomeRepeating(rq),
           pc' = [pc EXCEPT ![t] = "user"], rq' = <<>>, wq' = <<>>,
           UNCHANGED <<mode, stop>>
    PROVE  /\ rq' \in Seq(Threads) /\ wq' \in Seq(Threads) /\ QueueInv'
           /\ Cardinality(Granted("r")') = Cardinality(Granted("r")) + Len(rq)
           /\ Granted("w")' = Granted("w")
<1>1. pc'[t] = "user" /\ \A u \in Threads \ {t} : pc'[u] = pc[u]
  BY Zenon, Types
<1>2. /\ rq' \in Seq(Threads) /\ wq' \in Seq(Threads) /\ DOMAIN rq' = {} /\ DOMAIN wq' = {}
      /\ \A u : ~InQueue(rq', u) /\ ~InQueue(wq', u)
  BY DEF InQueue
<1>3. /\ Range(rq) \subseteq Threads /\ \A u : u \in Range(rq) <=> InQueue(rq, u)
      /\ IsFiniteSet(Range(rq)) /\ Cardinality(Range(rq)) = Len(rq)
  BY Zenon, Types, QueueCardinality DEF RwInv, QueueInv, ReadersOnce
<1>4. \A u \in Threads : InQueue(rq, u) => u # t /\ pc[u] \in WaitPlaces /\ mode[u] = "r"
  <2>1. \A u : InQueue(rq, u) => pc[u] # "again_l"
    BY Zenon DEF SomeRepeating, Repeating, InQueue
  <2> QED BY Zenon, <2>1 DEF RwInv, QueueInv, ReadersQueued, QueuePlaces, WaitPlaces
<1>5. QueueInv'
  <2>1. ASSUME NEW u \in Threads PROVE pc'[u] # "again_l"
    <3>1. CASE u = t
      BY Zenon, <1>1, <3>1
    <3>2. CASE u # t /\ pc[u] = "again_l"
      <4>1. InQueue(rq, u)
        BY Zenon, <3>2 DEF RwInv, QueueInv, RepeatQueued, Queued
      <4> QED BY Zenon, <1>4, <3>2, <4>1 DEF WaitPlaces
    <3> QED BY Zenon, <1>1, <3>1, <3>2
  <2> QED BY Zenon, <1>2, <2>1 DEF QueueInv, ReadersOnce, WritersOnce, ReadersQueued,
         WritersQueued, QueuedAsleep, RepeatQueued, Queued
<1>6. ASSUME NEW m, NEW u \in Threads
      PROVE  /\ u \in Granted(m)' <=> u # t /\ pc[u] \in WaitPlaces /\ mode[u] = m
             /\ u \in Granted(m) <=> pc[u] \in WaitPlaces /\ mode[u] = m /\ ~Queued(u)
  BY Zenon, <1>1, <1>2 DEF Granted, WaitPlaces, Queued
<1>7. \A m : Granted(m) \subseteq Threads /\ Granted(m)' \subseteq Threads
  BY Zenon DEF Granted
<1>8. ASSUME NEW u \in Threads
      PROVE  /\ u \in Granted("r")' <=> u \in Granted("r") \/ InQueue(rq, u)
             /\ u \in Granted("w")' <=> u \in Granted("w")
             /\ u \in Granted("r") => ~InQueue(rq, u)
  <2>1. CASE u = t
    BY Zenon, <1>4, <1>6, <2>1
  <2>2. CASE u # t
    BY Zenon, <1>4, <1>6, <2>2 DEF Queued
  <2> QED BY Zenon, <2>1, <2>2
<1>9. Granted("w")' = Granted("w")
  BY Zenon, <1>7, <1>8
<1>10. Granted("r")' = Granted("r") \cup Range(rq) /\ Granted("r") \cap Range(rq) = {}
  BY <1>3, <1>7, <1>8
<1>11. Cardinality(Granted("r")') = Cardinality(Granted("r")) + Len(rq)
  <2>1. Cardinality(Granted("r") \cup Range(rq)) =
          Cardinality(Granted("r")) + Cardinality(Range(rq)) - Cardinality(Granted("r") \cap Range(rq))
    BY Zenon, <1>3, HolderCounts, FS_Union
  <2>2. Cardinality(Granted("r") \cap Range(rq)) = 0
    BY Zenon, <1>10, FS_EmptySet
  <2>3. Cardinality(Granted("r")) \in Nat /\ Len(rq) \in Nat
    BY HolderCounts, Types
  <2>4. Cardinality(Granted("r")) + Len(rq) - 0 = Cardinality(Granted("r")) + Len(rq)
    BY <2>3
  <2> QED BY Zenon, <1>3, <1>10, <2>1, <2>2, <2>4
<1> QED BY Zenon, <1>2, <1>5, <1>9, <1>11

\* awake() keeps the type of the threads.
LEMMA AwakeType ==
    ASSUME RwInv, NEW S, Awake(S) PROVE ThreadsTypeOK'
BY DEF Awake, RwInv, TypeOK, ThreadsTypeOK, Status

\* A timed out writer leaves its queue.  The last one lets in the readers it kept
\* waiting; no savestate has stopped one of them, so that the loop ends.
LEMMA WriterExpiredInv ==
    ASSUME RwInv, UntimedStops, NEW t \in Threads, WriterExpired(t)
    PROVE  RwInv'
<1>1. pc[t] = "expired" /\ mode[t] = "w" /\ UNCHANGED <<exists, stop, mode, arg>>
  BY Zenon DEF WriterExpired
<1>2. ~stop /\ \A u \in Threads : pc[u] # "again_l"
  <2>1. ~stop
    BY Zenon, <1>1 DEF UntimedStops, RwInv, PlaceInv, LapsedTimed
  <2> QED BY Zenon, <2>1 DEF RwInv, QueueInv, RepeatQueued
<1>3. ~SomeRepeating(rq)
  <2>1. \A i \in DOMAIN rq : rq[i] \in Threads
    BY Types
  <2> QED BY Zenon, <1>2, <2>1 DEF SomeRepeating, Repeating
<1>4. /\ \A u \in Threads : pc[u] # "redo_l"
      /\ ~InQueue(rq, t)
  BY Zenon, <1>1, NobodyRepeats DEF RwInv, QueueInv, ReadersQueued
<1>5. CASE ~InQueue(wq, t)
  <2>1. /\ GrantTo(t, "w") /\ pc' = [pc EXCEPT ![t] = "user"]
        /\ UNCHANGED <<owner, rq, wq, mutex, st, cancel>>
    BY Zenon, <1>5 DEF WriterExpired, Goto, threadVars
  <2>2. ThreadsTypeOK' /\ ~Queued(t)
    BY Zenon, <1>4, <1>5, <2>1 DEF Queued, RwInv, TypeOK, ThreadsTypeOK
  <2> QED BY Zenon, <1>1, <2>1, <2>2, GrantedReturns
<1>6. CASE InQueue(wq, t)
  <2>1. /\ wq' = Unqueue(wq, t) /\ owner' = WithoutWriter(t)
        /\ rq' = (IF LastWriter(t) THEN <<>> ELSE rq)
        /\ Awake(LetIn(t)) /\ pc' = [pc EXCEPT ![t] = "user"]
        /\ UNCHANGED <<mutex, reading, writing>>
    BY Zenon, <1>3, <1>6 DEF WriterExpired, Goto, history
  <2>2. ThreadsTypeOK'
    BY Zenon, <2>1, AwakeType
  <2>3. wq \in Seq(Threads) /\ (wq' = <<>> <=> wq = <<t>>) /\ Queued(t)
    BY Zenon, <1>6, <2>1, Types, UnqueueProperties DEF RwInv, QueueInv, WritersOnce, Queued
  <2>4. PlaceInv' /\ \A u \in Threads : pc'[u] # "redo_l"
    <3>1. reading'[t] <= MaxReads /\ "user" \notin LockPlaces
      BY Zenon, <2>1 DEF RwInv, PlaceInv, ReadsBounded, LockPlaces
    <3> QED BY Zenon, <1>1, <1>4, <2>1, <3>1, PlaceMove
  <2>5. pc' \in [Threads -> Places]
    BY Zenon, <2>1, Types, PlacesHold
  <2>6. CASE LastWriter(t)
    <3>1. /\ rq' = <<>> /\ wq' = <<>> /\ wq = <<t>> /\ owner.readers > 0
          /\ owner' = [owner EXCEPT !.readers = @ + Len(rq), !.wait = FALSE]
      BY Zenon, <2>1, <2>3, <2>6 DEF LastWriter, WithoutWriter
    <3>2. \A u \in Threads : InQueue(wq, u) => u = t
      BY <3>1 DEF InQueue
    <3>3. /\ rq' \in Seq(Threads) /\ wq' \in Seq(Threads) /\ QueueInv'
          /\ Cardinality(Granted("r")') = Cardinality(Granted("r")) + Len(rq)
          /\ Granted("w")' = Granted("w")
      BY Zenon, <1>1, <1>3, <1>4, <2>1, <2>3, <3>1, <3>2, ReadersLetIn
    <3>4. Len(rq) \in Nat /\ owner.readers \in Nat /\ owner \in Owners
      BY Types
    <3>5. /\ owner' \in Owners /\ owner'.wait = FALSE /\ owner'.writer = owner.writer
          /\ owner'.readers = owner.readers + Len(rq)
      <4>1. owner.readers + Len(rq) \in Nat
        BY <3>4
      <4> QED BY Zenon, <3>1, <3>4, <4>1 DEF Owners
    <3>6. TypeOK'
      BY Zenon, <1>1, <2>1, <2>2, <2>5, <3>3, <3>5 DEF RwInv, TypeOK
    <3>7. BitInv'
      BY Zenon, <2>4, <3>1, <3>5 DEF BitInv, BitOfWaiters, BitOfHolders, BitOfWriters
    <3>8. OwnerMatchesHolders'
      <4>1. ReadLocks' = ReadLocks
        BY Zenon, <2>1 DEF ReadLocks
      <4>2. /\ owner.readers = Cardinality(ReadLocks) + Cardinality(Granted("r"))
            /\ owner.writer # None => owner.readers = 0
            /\ \A u \in Threads : owner.writer = u <=> writing[u] \/ u \in Granted("w")
        BY Zenon DEF RwInv, OwnerMatchesHolders
      <4>3. owner'.readers = Cardinality(ReadLocks') + Cardinality(Granted("r")')
        BY <3>3, <3>4, <3>5, <4>1, <4>2, HolderCounts
      <4>4. owner'.writer = None
        BY <3>1, <3>4, <3>5, <4>2
      <4> QED BY Zenon, <2>1, <3>3, <3>5, <4>2, <4>3, <4>4 DEF OwnerMatchesHolders
    <3> QED BY Zenon, <2>4, <3>3, <3>6, <3>7, <3>8 DEF RwInv
  <2>7. CASE ~LastWriter(t)
    <3>1. /\ rq' = rq /\ LetIn(t) = {}
          /\ owner' = [owner EXCEPT !.wait = @ /\ ~(rq = <<>> /\ wq = <<t>>)]
      BY Zenon, <2>1, <2>7 DEF LetIn, WithoutWriter
    <3>2. st' = st
      BY <2>1, <3>1, Types DEF Awake
    <3>3. /\ rq' \in Seq(Threads) /\ wq' \in Seq(Threads) /\ QueueInv'
          /\ Granted("r")' = Granted("r") /\ Granted("w")' = Granted("w")
      BY Zenon, <1>1, <1>6, <2>1, <2>3, <3>1, <3>2, LeaveQueue
    <3>4. /\ owner' \in Owners /\ owner'.writer = owner.writer /\ owner'.readers = owner.readers
          /\ owner'.wait = (owner.wait /\ ~(rq = <<>> /\ wq = <<t>>))
      BY Zenon, <3>1, Types DEF Owners
    <3>5. TypeOK'
      BY Zenon, <1>1, <2>1, <2>2, <2>5, <3>3, <3>4 DEF RwInv, TypeOK
    <3>6. BitInv'
      <4>1. owner.wait /\ (owner.writer # None \/ owner.readers > 0)
        <5>1. wq # <<>>
          BY <1>6 DEF InQueue
        <5> QED BY Zenon, <5>1 DEF RwInv, BitInv, BitOfWaiters, BitOfHolders
      <4>2. BitOfWaiters' /\ BitOfHolders'
        BY Zenon, <2>3, <2>4, <3>1, <3>4, <4>1 DEF BitOfWaiters, BitOfHolders
      <4>3. BitOfWriters'
        BY Zenon, <2>3, <2>7, <3>1, <3>4 DEF BitOfWriters, LastWriter
      <4> QED BY Zenon, <4>2, <4>3 DEF BitInv
    <3>7. OwnerMatchesHolders'
      BY Zenon, <2>1, <3>3, <3>4, HoldersSame
    <3> QED BY Zenon, <2>4, <3>3, <3>5, <3>6, <3>7 DEF RwInv
  <2> QED BY Zenon, <2>6, <2>7
<1> QED BY Zenon, <1>5, <1>6

-----------------------------------------------------------------------------
\* The unlocks

\* One of several readers leaves, or the last one when nobody waits.
LEMMA ReadReleaseInv ==
    ASSUME RwInv, NEW t \in Threads, pc[t] \in {"user", "redo_ru", "ru_lock"},
           reading[t] > 0, owner.readers > 0, owner.wait => owner.readers > 1,
           \A u \in Threads : pc[u] # "redo_l",
           owner' = [owner EXCEPT !.readers = @ - 1], ReadReleased(t),
           pc' = [pc EXCEPT ![t] = "user"],
           UNCHANGED <<rq, wq, mutex, exists, stop, mode, arg, writing, threadVars>>
    PROVE  RwInv'
<1>1. /\ owner.readers \in Nat /\ owner.readers - 1 \in Nat /\ owner \in Owners /\ MaxReads \in Nat
      /\ reading[t] \in Nat /\ reading[t] - 1 \in Nat /\ reading[t] - 1 <= MaxReads
      /\ reading[t] <= MaxReads
  <2>1. /\ reading[t] \in Nat /\ reading[t] <= MaxReads /\ owner.readers \in Nat /\ owner \in Owners
        /\ MaxReads \in Nat
    BY Zenon, Types, RwLockAssumption DEF RwInv, PlaceInv, ReadsBounded
  <2> QED BY <2>1
<1>2. /\ owner' \in Owners /\ owner'.writer = owner.writer /\ owner'.wait = owner.wait
      /\ owner'.readers = owner.readers - 1
  BY Zenon, <1>1 DEF Owners
<1>3. /\ reading' = [reading EXCEPT ![t] = reading[t] - 1] /\ reading' \in [Threads -> Nat]
      /\ reading'[t] = reading[t] - 1 /\ \A u \in Threads \ {t} : reading'[u] = reading[u]
  BY Zenon, <1>1, Types DEF ReadReleased
<1>4. ~Queued(t)
  BY Zenon DEF RwInv, QueueInv, ReadersQueued, WritersQueued, QueuePlaces, Queued
<1>5. TypeOK'
  <2>1. pc' \in [Threads -> Places]
    BY Zenon, Types, PlacesHold
  <2> QED BY Zenon, <1>2, <1>3, <2>1 DEF RwInv, TypeOK, ThreadsTypeOK, threadVars
<1>6. QueueInv'
  BY Zenon, <1>4, QueueMove DEF threadVars
<1>7. PlaceInv' /\ \A u \in Threads : pc'[u] # "redo_l"
  BY Zenon, <1>1, <1>3, PlaceMove DEF LockPlaces
<1>8. BitInv'
  <2>1. /\ rq # <<>> \/ wq # <<>> => owner.wait
        /\ owner.wait => wq # <<>>
    BY Zenon DEF RwInv, BitInv, BitOfWaiters, BitOfWriters
  <2>2. owner.wait => owner'.readers > 0
    BY <1>1, <1>2
  <2> QED BY Zenon, <1>2, <1>7, <2>1, <2>2 DEF BitInv, BitOfWaiters, BitOfHolders, BitOfWriters
<1>9. OwnerMatchesHolders'
  <2>1. Granted("r")' = Granted("r") /\ Granted("w")' = Granted("w")
    <3>1. \A u : Queued(u)' <=> Queued(u)
      BY Zenon DEF Queued
    <3>2. pc[t] \notin WaitPlaces /\ "user" \notin WaitPlaces
      BY Zenon DEF WaitPlaces
    <3> QED BY Zenon, <3>1, <3>2, GrantedSame
  <2>2. Cardinality(ReadLocks') = Cardinality(ReadLocks) - 1
    BY Zenon, <1>1, <1>3, Types, ReadLocksMove
  <2>3. /\ owner.readers = Cardinality(ReadLocks) + Cardinality(Granted("r"))
        /\ owner.writer # None => owner.readers = 0
        /\ \A u \in Threads : owner.writer = u <=> writing[u] \/ u \in Granted("w")
    BY Zenon DEF RwInv, OwnerMatchesHolders
  <2>4. owner'.readers = Cardinality(ReadLocks') + Cardinality(Granted("r")')
    BY <1>1, <1>2, <2>1, <2>2, <2>3, HolderCounts
  <2>5. owner'.writer = None
    BY <1>1, <1>2, <2>3
  <2> QED BY Zenon, <1>2, <2>1, <2>3, <2>4, <2>5 DEF OwnerMatchesHolders
<1> QED BY Zenon, <1>5, <1>6, <1>7, <1>8, <1>9 DEF RwInv

\* The lock is handed to the next writer, who alone has it then.
LEMMA HandOverInv ==
    ASSUME RwInv, NEW t \in Threads, pc[t] \in {"ru_lock", "wu_lock"},
           wq # <<>>, ~WriterRepeating, AwakeWriter, pc' = [pc EXCEPT ![t] = "user"],
           UNCHANGED <<mutex, exists, stop, mode, arg>>,
           reading' \in [Threads -> Nat], writing' \in [Threads -> BOOLEAN],
           \A u \in Threads \ {t} : reading'[u] = reading[u] /\ writing'[u] = writing[u],
           reading'[t] <= MaxReads, \A u \in Threads : ~writing'[u], Granted("w") = {},
           Cardinality(ReadLocks') + Cardinality(Granted("r")) = 0
    PROVE  RwInv'
<1>1. wq \in Seq(Threads) /\ rq \in Seq(Threads) /\ WritersOnce
  BY Zenon, Types DEF RwInv, QueueInv
<1>2. PICK i \in 1..Len(wq) : i = Schedule(wq)
  BY Zenon, <1>1, RwLockAssumption, ScheduleInDomain
<1>3. PICK w \in Threads : w = wq[i]
  BY <1>1, <1>2
<1>4. /\ owner' = [writer |-> w, readers |-> 0, wait |-> Len(wq) > 1 \/ rq # <<>>]
      /\ wq' = Unlink(wq, i) /\ rq' = rq /\ Awake({w})
  BY Zenon, <1>2, <1>3 DEF AwakeWriter, HandedTo
<1>5. /\ wq' \in Seq(Threads) /\ Len(wq') = Len(wq) - 1 /\ WritersOnce'
      /\ \A u : InQueue(wq', u) <=> u # w /\ InQueue(wq, u)
  <2>1. Unlink(wq, i) \in Seq(Threads) /\ Len(Unlink(wq, i)) = Len(wq) - 1
    BY Zenon, <1>1, <1>2, UnlinkProperties
  <2>2. /\ ~InQueue(Unlink(wq, i), w)
        /\ \A j, k \in DOMAIN Unlink(wq, i) : Unlink(wq, i)[j] = Unlink(wq, i)[k] => j = k
    <3>1. /\ ~InQueue(Unlink(wq, i), wq[i])
          /\ \A j, k \in DOMAIN Unlink(wq, i) : Unlink(wq, i)[j] = Unlink(wq, i)[k] => j = k
      BY Zenon, <1>1, UnlinkOnce DEF WritersOnce
    <3> QED BY Zenon, <1>3, <3>1
  <2>3. \A u : InQueue(Unlink(wq, i), u) <=> u # w /\ InQueue(wq, u)
    BY Zenon, <1>1, <1>2, <1>3, <2>2, UnlinkMembers
  <2> QED BY Zenon, <1>4, <2>1, <2>2, <2>3 DEF WritersOnce
<1>6. InQueue(wq, w) /\ pc[w] \in WaitPlaces /\ mode[w] = "w" /\ w # t /\ ~InQueue(rq, w)
  <2>1. InQueue(wq, w)
    BY <1>1, <1>2, <1>3 DEF InQueue
  <2>2. pc[w] # "again_l"
    BY Zenon, <1>2, <1>3 DEF WriterRepeating, Repeating
  <2>3. pc[w] \in WaitPlaces /\ mode[w] = "w"
    BY Zenon, <2>1, <2>2 DEF RwInv, QueueInv, WritersQueued, QueuePlaces, WaitPlaces
  <2>4. ~InQueue(rq, w)
    BY Zenon, <2>3 DEF RwInv, QueueInv, ReadersQueued
  <2> QED BY Zenon, <2>1, <2>3, <2>4 DEF WaitPlaces
<1>7. pc'[t] = "user" /\ \A u \in Threads \ {t} : pc'[u] = pc[u]
  BY Zenon, Types
<1>8. /\ owner' \in Owners /\ owner'.writer = w /\ owner'.readers = 0
      /\ owner'.wait <=> Len(wq) > 1 \/ rq # <<>>
  BY Zenon, <1>4 DEF Owners
<1>9. ~Queued(w)' /\ ~Queued(t) /\ \A u \in Threads \ {w} : Queued(u)' <=> Queued(u)
  <2>1. ~Queued(t)
    BY Zenon DEF RwInv, QueueInv, ReadersQueued, WritersQueued, QueuePlaces, Queued
  <2> QED BY Zenon, <1>4, <1>5, <1>6, <2>1 DEF Queued
<1>10. \A u \in Threads : pc[u] # "redo_l"
  BY Zenon, NobodyRepeats
<1>11. TypeOK'
  <2>1. pc' \in [Threads -> Places] /\ rq' \in Seq(Threads)
    BY Zenon, <1>1, <1>4, Types, PlacesHold
  <2>2. ThreadsTypeOK'
    BY Zenon, <1>4, AwakeType
  <2> QED BY Zenon, <1>5, <1>8, <2>1, <2>2 DEF RwInv, TypeOK
<1>12. QueueInv'
  <2>1. ReadersOnce /\ ReadersQueued /\ WritersQueued /\ QueuedAsleep /\ RepeatQueued
    BY Zenon DEF RwInv, QueueInv
  <2>2. ReadersOnce'
    BY Zenon, <1>4, <2>1 DEF ReadersOnce
  <2>3. ReadersQueued'
    BY Zenon, <1>4, <1>7, <1>9, <2>1 DEF ReadersQueued, Queued
  <2>4. WritersQueued'
    BY Zenon, <1>5, <1>7, <1>9, <2>1 DEF WritersQueued, Queued
  <2>5. QueuedAsleep'
    <3>1. \A u \in Threads \ {w} : st'[u] = st[u]
      BY Zenon, <1>4 DEF Awake
    <3> QED BY Zenon, <1>7, <1>9, <2>1, <3>1 DEF QueuedAsleep
  <2>6. RepeatQueued'
    BY Zenon, <1>6, <1>7, <1>9, <2>1 DEF RepeatQueued, WaitPlaces
  <2> QED BY Zenon, <1>5, <2>2, <2>3, <2>4, <2>5, <2>6 DEF QueueInv
<1>13. PlaceInv' /\ \A u \in Threads : pc'[u] # "redo_l"
  BY Zenon, <1>10, PlaceMove DEF LockPlaces
<1>14. BitInv'
  <2>1. wq' # <<>> => Len(wq) > 1
    BY <1>1, <1>5
  <2>2. ~(owner'.readers > 0) /\ owner'.writer # None
    BY <1>8, RwLockAssumption
  <2> QED BY Zenon, <1>4, <1>8, <1>13, <2>1, <2>2
          DEF BitInv, BitOfWaiters, BitOfHolders, BitOfWriters
<1>15. OwnerMatchesHolders'
  <2>1. ASSUME NEW u \in Threads PROVE u \in Granted("r")' <=> u \in Granted("r")
    <3>1. CASE u = t
      BY Zenon, <1>7, <3>1 DEF Granted
    <3>2. CASE u = w
      BY Zenon, <1>6, <3>2 DEF Granted
    <3>3. CASE u # t /\ u # w
      BY Zenon, <1>7, <1>9, <3>3 DEF Granted
    <3> QED BY Zenon, <3>1, <3>2, <3>3
  <2>2. Granted("r")' = Granted("r")
    <3>1. Granted("r") \subseteq Threads /\ Granted("r")' \subseteq Threads
      BY Zenon DEF Granted
    <3> QED BY Zenon, <2>1, <3>1
  <2>3. ASSUME NEW u \in Threads PROVE u \in Granted("w")' <=> u = w
    <3>1. CASE u = t
      BY Zenon, <1>6, <1>7, <3>1 DEF Granted
    <3>2. CASE u = w
      BY Zenon, <1>6, <1>7, <1>9, <3>2 DEF Granted, WaitPlaces
    <3>3. CASE u # t /\ u # w
      <4>1. u \in Granted("w")' <=> u \in Granted("w")
        BY Zenon, <1>7, <1>9, <3>3 DEF Granted
      <4> QED BY Zenon, <3>3, <4>1
    <3> QED BY Zenon, <3>1, <3>2, <3>3
  <2> QED BY Zenon, <1>8, <2>2, <2>3 DEF OwnerMatchesHolders
<1> QED BY Zenon, <1>11, <1>12, <1>13, <1>14, <1>15 DEF RwInv

\* sys_rwlock_runlock.  The last reader of a lock that somebody waits for always
\* finds a writer.
LEMMA RUnlockInv ==
    ASSUME RwInv, NEW t \in Threads, RUnlockAtOnce(t) \/ RUnlockBusy(t) \/ RUnlockLocked(t)
    PROVE  RwInv'
<1>1. pc[t] \in {"user", "redo_ru", "ru_lock"} /\ reading[t] > 0
  BY Zenon DEF RUnlockAtOnce, RUnlockBusy, RUnlockLocked, Releasing, RwInv, PlaceInv, ReleasesHeld
<1>2. \A u \in Threads : pc[u] # "redo_l"
  <2>1. pc[t] = "ru_lock" \/ MayEnter(t)
    BY Zenon DEF RUnlockAtOnce, RUnlockBusy, RUnlockLocked, Releasing
  <2> QED BY Zenon, <1>1, <2>1, NobodyRepeats
<1>3. ~Queued(t)
  BY Zenon, <1>1 DEF RwInv, QueueInv, ReadersQueued, WritersQueued, QueuePlaces, Queued
<1>4. ThreadsTypeOK /\ exists \in BOOLEAN /\ owner.readers \in Nat
  BY Zenon, Types DEF RwInv, TypeOK
<1>5. ASSUME NEW p \in {"ru_lock", "again_ru"}, pc' = [pc EXCEPT ![t] = p],
             UNCHANGED <<owner, rq, wq, mutex, exists, stop, mode, arg, reading, writing, st, cancel>>
      PROVE  RwInv'
  <2>1. ThreadsTypeOK'
    BY Zenon, <1>4, <1>5 DEF ThreadsTypeOK
  <2>2. p \in Places /\ p \notin WaitPlaces /\ p \notin LockPlaces /\ pc[t] \notin WaitPlaces
    BY Zenon, <1>1, PlacesHold DEF WaitPlaces, LockPlaces
  <2> QED BY Zenon, <1>1, <1>2, <1>3, <1>4, <1>5, <2>1, <2>2, QuietStep
<1>6. CASE RUnlockAtOnce(t)
  <2>1. /\ owner.readers > 0 /\ ~owner.wait /\ owner' = [owner EXCEPT !.readers = @ - 1]
        /\ ReadReleased(t) /\ pc' = [pc EXCEPT ![t] = "user"]
        /\ UNCHANGED <<rq, wq, mutex, exists, stop, mode, arg, writing, threadVars>>
    BY Zenon, <1>6 DEF RUnlockAtOnce, Goto
  <2> QED BY Zenon, <1>1, <1>2, <2>1, ReadReleaseInv
<1>7. CASE RUnlockBusy(t)
  BY Zenon, <1>5, <1>7 DEF RUnlockBusy, Goto, lockVars, history, threadVars
<1>8. CASE RUnlockLocked(t)
  <2>1. pc[t] = "ru_lock" /\ UNCHANGED <<mutex, exists, stop, mode, arg, writing>>
    BY Zenon, <1>8 DEF RUnlockLocked
  <2>2. CASE /\ owner.readers > 1 \/ (owner.readers = 1 /\ ~owner.wait)
             /\ owner' = [owner EXCEPT !.readers = @ - 1]
             /\ ReadReleased(t) /\ pc' = [pc EXCEPT ![t] = "user"]
             /\ UNCHANGED <<rq, wq, threadVars>>
    <3>1. owner.readers > 0 /\ (owner.wait => owner.readers > 1)
      BY <1>4, <2>2
    <3> QED BY Zenon, <1>1, <1>2, <2>1, <2>2, <3>1, ReadReleaseInv
  <2>3. CASE pc' = [pc EXCEPT ![t] = "again_ru"] /\ UNCHANGED <<owner, rq, wq, reading, threadVars>>
    BY Zenon, <1>5, <2>1, <2>3 DEF threadVars
  <2>4. CASE /\ owner.readers = 1 /\ wq # <<>> /\ ~WriterRepeating /\ AwakeWriter
             /\ ReadReleased(t) /\ pc' = [pc EXCEPT ![t] = "user"]
    <3>1. /\ reading[t] \in Nat /\ reading[t] - 1 \in Nat /\ reading[t] - 1 <= MaxReads
          /\ reading[t] <= MaxReads
      <4>1. reading[t] \in Nat /\ reading[t] <= MaxReads /\ MaxReads \in Nat
        BY Zenon, Types, RwLockAssumption DEF RwInv, PlaceInv, ReadsBounded
      <4> QED BY <1>1, <4>1
    <3>2. /\ reading' = [reading EXCEPT ![t] = reading[t] - 1] /\ reading' \in [Threads -> Nat]
          /\ reading'[t] = reading[t] - 1 /\ \A u \in Threads \ {t} : reading'[u] = reading[u]
      BY Zenon, <2>4, <3>1, Types DEF ReadReleased
    <3>3. /\ owner.readers = Cardinality(ReadLocks) + Cardinality(Granted("r"))
          /\ owner.writer # None => owner.readers = 0
          /\ \A u \in Threads : owner.writer = u <=> writing[u] \/ u \in Granted("w")
      BY Zenon DEF RwInv, OwnerMatchesHolders
    <3>4. Cardinality(ReadLocks') = Cardinality(ReadLocks) - 1
      BY Zenon, <3>1, <3>2, Types, ReadLocksMove
    <3>5. Cardinality(ReadLocks') + Cardinality(Granted("r")) = 0
      BY <2>4, <3>3, <3>4, HolderCounts
    <3>6. owner.writer = None
      BY <2>4, <3>3
    <3>7. Granted("w") = {} /\ \A u \in Threads : ~writing[u]
      BY Zenon, <3>3, <3>6, RwLockAssumption DEF Granted
    <3>8. writing' \in [Threads -> BOOLEAN] /\ writing' = writing
      BY Zenon, <2>1, Types
    <3> QED BY Zenon, <2>1, <2>4, <3>1, <3>2, <3>5, <3>7, <3>8, HandOverInv
  <2>5. CASE owner.readers = 1 /\ owner.wait /\ wq = <<>>
    <3>1. owner.readers > 0
      BY <2>5
    <3> QED BY Zenon, <1>2, <2>5, <3>1 DEF RwInv, BitInv, BitOfWriters
  <2> QED BY Zenon, <1>8, <2>2, <2>3, <2>4, <2>5 DEF RUnlockLocked, Goto
<1> QED BY Zenon, <1>6, <1>7, <1>8

\* sys_rwlock_wunlock: the lock goes to the next writer, to all readers, or to
\* nobody when nobody waits.
LEMMA WUnlockInv ==
    ASSUME RwInv, NEW t \in Threads, WUnlockAtOnce(t) \/ WUnlockBusy(t) \/ WUnlockLocked(t)
    PROVE  RwInv'
<1>1. /\ owner.readers = Cardinality(ReadLocks) + Cardinality(Granted("r"))
      /\ owner.writer # None => owner.readers = 0
      /\ \A u \in Threads : owner.writer = u <=> writing[u] \/ u \in Granted("w")
  BY Zenon DEF RwInv, OwnerMatchesHolders
<1>2. pc[t] \in {"user", "redo_wu", "wu_lock"} /\ writing[t] /\ owner.writer = t
  <2>1. CASE pc[t] = "wu_lock"
    BY Zenon, <1>1, <2>1 DEF RwInv, PlaceInv, ReleasesHeld
  <2>2. CASE pc[t] \in {"user", "redo_wu"}
    <3>1. owner.writer = t
      BY Zenon, <2>2 DEF WUnlockAtOnce, WUnlockBusy, WUnlockLocked
    <3> QED BY Zenon, <1>1, <2>2, <3>1 DEF Granted
  <2> QED BY Zenon, <2>1, <2>2 DEF WUnlockAtOnce, WUnlockBusy, WUnlockLocked
<1>3. \A u \in Threads : pc[u] # "redo_l"
  <2>1. pc[t] = "wu_lock" \/ MayEnter(t)
    BY Zenon DEF WUnlockAtOnce, WUnlockBusy, WUnlockLocked
  <2> QED BY Zenon, <1>2, <2>1, NobodyRepeats
<1>4. ~Queued(t) /\ pc[t] \notin WaitPlaces
  BY Zenon, <1>2 DEF RwInv, QueueInv, ReadersQueued, WritersQueued, QueuePlaces, Queued, WaitPlaces
<1>5. ThreadsTypeOK /\ exists \in BOOLEAN /\ owner.readers = 0
  BY Zenon, <1>1, <1>2, RwLockAssumption DEF RwInv, TypeOK
<1>6. /\ \A u \in Threads \ {t} : ~writing[u] /\ u \notin Granted("w")
      /\ t \notin Granted("w") /\ Granted("w") = {}
  <2>1. \A u \in Threads \ {t} : ~writing[u] /\ u \notin Granted("w")
    BY Zenon, <1>1, <1>2
  <2>2. t \notin Granted("w")
    BY Zenon, <1>4 DEF Granted, WaitPlaces
  <2> QED BY Zenon, <2>1, <2>2 DEF Granted
<1>7. ASSUME NEW p \in {"wu_lock", "again_wu"}, pc' = [pc EXCEPT ![t] = p],
             UNCHANGED <<owner, rq, wq, mutex, exists, stop, mode, arg, reading, writing, st, cancel>>
      PROVE  RwInv'
  <2>1. ThreadsTypeOK'
    BY Zenon, <1>5, <1>7 DEF ThreadsTypeOK
  <2>2. p \in Places /\ p \notin WaitPlaces /\ p \notin LockPlaces
    BY Zenon, PlacesHold DEF WaitPlaces, LockPlaces
  <2> QED BY Zenon, <1>2, <1>3, <1>4, <1>5, <1>7, <2>1, <2>2, QuietStep
<1>8. ASSUME WriteReleased(t)
      PROVE  /\ writing' \in [Threads -> BOOLEAN] /\ \A u \in Threads : ~writing'[u]
             /\ \A u \in Threads \ {t} : writing'[u] = writing[u]
  <2>1. writing' = [writing EXCEPT ![t] = FALSE] /\ writing \in [Threads -> BOOLEAN]
    BY Zenon, <1>8, Types DEF WriteReleased
  <2>2. \A u \in Threads : ~writing'[u]
    BY Zenon, <1>6, <2>1
  <2> QED BY Zenon, <2>1, <2>2
<1>9. reading[t] <= MaxReads /\ reading \in [Threads -> Nat]
  BY Zenon, Types DEF RwInv, PlaceInv, ReadsBounded
<1>10. ASSUME pc' = [pc EXCEPT ![t] = "user"], WriteReleased(t),
              UNCHANGED <<mutex, exists, stop, mode, arg, reading>>
       PROVE  PlaceInv' /\ \A u \in Threads : pc'[u] # "redo_l"
  BY Zenon, <1>3, <1>8, <1>9, <1>10, PlaceMove DEF LockPlaces
<1>11. CASE WUnlockAtOnce(t)
  <2>1. /\ ~owner.wait /\ owner' = Free /\ WriteReleased(t) /\ pc' = [pc EXCEPT ![t] = "user"]
        /\ UNCHANGED <<rq, wq, mutex, exists, stop, mode, arg, reading, threadVars>>
    BY Zenon, <1>11 DEF WUnlockAtOnce, Goto
  <2>2. rq = <<>> /\ wq = <<>>
    BY Zenon, <2>1 DEF RwInv, BitInv, BitOfWaiters
  <2>3. owner' \in Owners /\ owner'.writer = None /\ owner'.readers = 0 /\ owner'.wait = FALSE
    BY <2>1 DEF Free, Owners
  <2>4. TypeOK'
    <3>1. pc' \in [Threads -> Places]
      BY Zenon, <2>1, Types, PlacesHold
    <3> QED BY Zenon, <1>8, <2>1, <2>3, <3>1 DEF RwInv, TypeOK, ThreadsTypeOK, threadVars
  <2>5. QueueInv'
    BY Zenon, <1>4, <2>1, QueueMove DEF threadVars
  <2>6. PlaceInv' /\ \A u \in Threads : pc'[u] # "redo_l"
    BY Zenon, <1>10, <2>1
  <2>7. BitInv'
    BY Zenon, <2>1, <2>2, <2>3, <2>6 DEF BitInv, BitOfWaiters, BitOfHolders, BitOfWriters
  <2>8. OwnerMatchesHolders'
    <3>1. Granted("r")' = Granted("r") /\ Granted("w")' = Granted("w")
      <4>1. (\A u : Queued(u)' <=> Queued(u)) /\ "user" \notin WaitPlaces
        BY Zenon, <2>1 DEF Queued, WaitPlaces
      <4> QED BY Zenon, <1>4, <2>1, <4>1, GrantedSame
    <3>2. ReadLocks' = ReadLocks
      BY Zenon, <2>1 DEF ReadLocks
    <3>3. owner'.readers = owner.readers /\ \A u \in Threads : owner'.writer # u
      BY Zenon, <1>5, <2>3, RwLockAssumption
    <3> QED BY Zenon, <1>1, <1>6, <1>8, <2>1, <2>3, <3>1, <3>2, <3>3 DEF OwnerMatchesHolders
  <2> QED BY Zenon, <2>4, <2>5, <2>6, <2>7, <2>8 DEF RwInv
<1>12. CASE WUnlockBusy(t)
  BY Zenon, <1>7, <1>12 DEF WUnlockBusy, Goto, lockVars, history, threadVars
<1>13. CASE WUnlockLocked(t)
  <2>1. pc[t] = "wu_lock" /\ UNCHANGED <<mutex, exists, stop, mode, arg, reading>>
    BY Zenon, <1>13 DEF WUnlockLocked
  <2>2. ReadLocks' = ReadLocks
    BY Zenon, <2>1 DEF ReadLocks
  <2>3. Cardinality(ReadLocks') + Cardinality(Granted("r")) = 0
    BY Zenon, <1>1, <1>5, <2>2
  <2>4. CASE pc' = [pc EXCEPT ![t] = "again_wu"] /\ UNCHANGED <<owner, rq, wq, writing, threadVars>>
    BY Zenon, <1>7, <2>1, <2>4 DEF threadVars
  <2>5. CASE /\ wq # <<>> /\ ~WriterRepeating /\ AwakeWriter
             /\ WriteReleased(t) /\ pc' = [pc EXCEPT ![t] = "user"]
    BY Zenon, <1>6, <1>8, <1>9, <2>1, <2>3, <2>5, HandOverInv
  <2>6. CASE /\ wq = <<>> /\ ~SomeRepeating(rq) /\ owner' = [Free EXCEPT !.readers = Len(rq)]
             /\ Awake(Range(rq)) /\ rq' = <<>> /\ WriteReleased(t)
             /\ pc' = [pc EXCEPT ![t] = "user"] /\ UNCHANGED wq
    <3>1. \A u \in Threads : ~InQueue(wq, u)
      BY <2>6 DEF InQueue
    <3>2. ~InQueue(rq, t)
      BY Zenon, <1>4 DEF Queued
    <3>3. /\ rq' \in Seq(Threads) /\ wq' \in Seq(Threads) /\ QueueInv'
          /\ Cardinality(Granted("r")') = Cardinality(Granted("r")) + Len(rq)
          /\ Granted("w")' = Granted("w")
      BY Zenon, <1>4, <2>1, <2>6, <3>1, <3>2, ReadersLetIn
    <3>4. /\ owner' \in Owners /\ owner'.writer = None /\ owner'.readers = Len(rq)
          /\ owner'.wait = FALSE /\ Len(rq) \in Nat
      <4>1. Len(rq) \in Nat
        BY Types
      <4> QED BY Zenon, <2>6, <4>1 DEF Free, Owners
    <3>5. TypeOK'
      <4>1. pc' \in [Threads -> Places]
        BY Zenon, <2>6, Types, PlacesHold
      <4>2. ThreadsTypeOK'
        BY Zenon, <2>6, AwakeType
      <4> QED BY Zenon, <1>8, <2>1, <2>6, <3>3, <3>4, <4>1, <4>2 DEF RwInv, TypeOK
    <3>6. PlaceInv' /\ \A u \in Threads : pc'[u] # "redo_l"
      BY Zenon, <1>10, <2>1, <2>6
    <3>7. BitInv'
      BY Zenon, <2>6, <3>4, <3>6 DEF BitInv, BitOfWaiters, BitOfHolders, BitOfWriters
    <3>8. OwnerMatchesHolders'
      <4>1. owner'.readers = Cardinality(ReadLocks') + Cardinality(Granted("r")')
        <5>1. Cardinality(ReadLocks') \in Nat /\ Cardinality(Granted("r")) \in Nat
          BY Zenon, <2>2, HolderCounts
        <5>2. \A a, b, n \in Nat : a + b = 0 => a + (b + n) = n
          OBVIOUS
        <5> QED BY Zenon, <2>3, <3>3, <3>4, <5>1, <5>2
      <4>2. \A u \in Threads : owner'.writer # u
        BY Zenon, <3>4, RwLockAssumption
      <4> QED BY Zenon, <1>6, <1>8, <2>6, <3>3, <3>4, <4>1, <4>2 DEF OwnerMatchesHolders
    <3> QED BY Zenon, <3>3, <3>5, <3>6, <3>7, <3>8 DEF RwInv
  <2> QED BY Zenon, <1>13, <2>4, <2>5, <2>6 DEF WUnlockLocked, Goto
<1> QED BY Zenon, <1>11, <1>12, <1>13

-----------------------------------------------------------------------------
\* The rest, and the theorems

\* The step of a thread outside a call, the destruction and the request of a
\* savestate.
LEMMA OtherInv ==
    ASSUME RwInv, Stop \/ \E t \in Threads : Destroy(t) \/ Halt(t)
    PROVE  RwInv'
<1>1. CASE Stop
  <2>1. /\ stop' = TRUE
        /\ UNCHANGED <<owner, rq, wq, mutex, exists, pc, mode, arg, reading, writing, st, cancel>>
    BY Zenon, <1>1 DEF Stop, lockVars, history, threadVars
  <2>2. \A u \in Threads : pc[u] # "redo_l"
    BY Zenon, <1>1 DEF Stop, FutureSleepers, RwInv, PlaceInv, Restoring
  <2>3. TypeOK'
    BY Zenon, <2>1 DEF RwInv, TypeOK, ThreadsTypeOK
  <2>4. /\ \A u : Queued(u)' <=> Queued(u)
        /\ \A m : Granted(m)' = Granted(m)
    BY Zenon, <2>1 DEF Queued, Granted
  <2>5. QueueInv'
    BY Zenon, <2>1, <2>4 DEF RwInv, QueueInv, ReadersOnce, WritersOnce, ReadersQueued,
       WritersQueued, QueuedAsleep, RepeatQueued
  <2>6. PlaceInv'
    BY Zenon, <2>1, <2>2 DEF RwInv, PlaceInv, LapsedTimed, ReleasesHeld, ReadsBounded, Restoring
  <2>7. BitInv'
    BY Zenon, <2>1 DEF RwInv, BitInv, BitOfWaiters, BitOfHolders, BitOfWriters
  <2>8. OwnerMatchesHolders'
    BY Zenon, <2>1, <2>4, HoldersSame
  <2> QED BY Zenon, <2>3, <2>5, <2>6, <2>7, <2>8 DEF RwInv
<1>2. ASSUME NEW t \in Threads, Destroy(t) \/ Halt(t) PROVE RwInv'
  <2>1. PICK p \in {"user", "halted"} : pc' = [pc EXCEPT ![t] = p]
    <3>1. CASE Destroy(t)
      <4>1. pc' = [pc EXCEPT ![t] = "user"]
        BY Zenon, <3>1, Types DEF Destroy
      <4> QED BY Zenon, <4>1
    <3>2. CASE Halt(t)
      BY Zenon, <3>2 DEF Halt, Goto
    <3> QED BY Zenon, <1>2, <3>1, <3>2
  <2>2. /\ pc[t] = "user" /\ exists' \in BOOLEAN
        /\ UNCHANGED <<owner, rq, wq, mutex, stop, mode, arg, reading, writing, st, cancel>>
    BY Zenon, <1>2 DEF Destroy, Halt, lockVars, history, threadVars, RwInv, TypeOK
  <2>3. \A u \in Threads : pc[u] # "redo_l"
    <3>1. stop \/ MayEnter(t)
      BY Zenon, <1>2 DEF Destroy, Halt
    <3> QED BY Zenon, <2>2, <3>1, NobodyRepeats
  <2>4. ~Queued(t) /\ pc[t] \notin WaitPlaces
    BY Zenon, <2>2 DEF RwInv, QueueInv, ReadersQueued, WritersQueued, QueuePlaces, Queued, WaitPlaces
  <2>5. p \in Places /\ p \notin WaitPlaces /\ p \notin LockPlaces
    BY Zenon, PlacesHold DEF WaitPlaces, LockPlaces
  <2>6. ThreadsTypeOK'
    BY Zenon, <2>2 DEF RwInv, TypeOK, ThreadsTypeOK
  <2> QED BY Zenon, <2>1, <2>2, <2>3, <2>4, <2>5, <2>6, QuietStep
<1> QED BY Zenon, <1>1, <1>2

\* A reload empties the queues and keeps the wait bit: every thread that was queued
\* will repeat its call, asleep, before anything else happens.
LEMMA ReloadInv ==
    ASSUME RwInv, UntimedStops, Reload
    PROVE  RwInv'
<1>1. /\ stop /\ stop' = FALSE /\ rq' = <<>> /\ wq' = <<>>
      /\ UNCHANGED <<owner, mutex, exists, mode, arg, reading, writing, cancel>>
  BY Zenon DEF Reload, history
<1>2. \A t \in Threads : pc[t] \in {"halted", "again_l", "again_ru", "again_wu", "redo_ru", "redo_wu"}
  <2>1. \A t \in Threads : pc[t] # "redo_l"
    BY Zenon, <1>1 DEF RwInv, PlaceInv, Restoring
  <2> QED BY Zenon, <2>1 DEF Reload
<1>3. \A t \in Threads : /\ pc'[t] = "redo_l" <=> pc[t] = "again_l"
                         /\ pc'[t] = "redo_ru" <=> pc[t] \in {"again_ru", "redo_ru"}
                         /\ pc'[t] = "redo_wu" <=> pc[t] \in {"again_wu", "redo_wu"}
                         /\ pc'[t] \in {"user", "redo_l", "redo_ru", "redo_wu"}
                         /\ pc[t] = "again_l" /\ st[t] = "sleep" => st'[t] = "sleep"
  BY <1>2 DEF Reload
<1>4. /\ rq' \in Seq(Threads) /\ wq' \in Seq(Threads) /\ DOMAIN rq' = {} /\ DOMAIN wq' = {}
      /\ \A u : ~InQueue(rq', u) /\ ~InQueue(wq', u)
  BY <1>1 DEF InQueue
<1>5. TypeOK'
  <2>1. pc' \in [Threads -> Places]
    <3>1. pc' = [t \in Threads |-> pc'[t]]
      BY DEF Reload
    <3>2. \A t \in Threads : pc'[t] \in Places
      BY Zenon, <1>3, PlacesHold
    <3> QED BY <3>1, <3>2
  <2>2. ThreadsTypeOK'
    BY <1>1 DEF Reload, RwInv, TypeOK, ThreadsTypeOK, Status
  <2> QED BY Zenon, <1>1, <1>4, <2>1, <2>2 DEF RwInv, TypeOK
<1>6. QueueInv'
  BY Zenon, <1>3, <1>4 DEF QueueInv, ReadersOnce, WritersOnce, ReadersQueued,
     WritersQueued, QueuedAsleep, RepeatQueued, Queued
<1>7. PlaceInv'
  <2>1. LapsedTimed /\ ReleasesHeld /\ ReadsBounded /\ mutex = None
    BY Zenon DEF RwInv, PlaceInv
  <2>2. LapsedTimed'
    BY Zenon, <1>3 DEF LapsedTimed
  <2>3. ReleasesHeld'
    BY Zenon, <1>1, <1>3, <2>1 DEF ReleasesHeld
  <2>4. ReadsBounded'
    <3>1. \A t \in Threads : pc'[t] \in LockPlaces => pc[t] \in LockPlaces
      BY Zenon, <1>3 DEF LockPlaces
    <3> QED BY Zenon, <1>1, <2>1, <3>1 DEF ReadsBounded
  <2>5. Restoring'
    <3>1. \A t \in Threads : pc[t] = "again_l" => st[t] = "sleep" /\ arg[t] = 0
      BY Zenon, <1>1 DEF UntimedStops, RwInv, QueueInv, QueuedAsleep, RepeatQueued
    <3> QED BY Zenon, <1>1, <1>3, <3>1 DEF Restoring
  <2> QED BY Zenon, <1>1, <2>1, <2>2, <2>3, <2>4, <2>5 DEF PlaceInv
<1>8. BitInv'
  <2>1. BitOfWaiters'
    <3>1. ASSUME NEW t \in Threads, pc[t] = "again_l" PROVE owner.wait
      <4>1. Queued(t)
        BY Zenon, <3>1 DEF RwInv, QueueInv, RepeatQueued
      <4>2. rq # <<>> \/ wq # <<>>
        BY <4>1 DEF Queued, InQueue
      <4> QED BY Zenon, <4>2 DEF RwInv, BitInv, BitOfWaiters
    <3> QED BY Zenon, <1>1, <1>3, <3>1 DEF BitOfWaiters
  <2>2. BitOfHolders'
    BY Zenon, <1>1 DEF RwInv, BitInv, BitOfHolders
  <2>3. BitOfWriters'
    <3> SUFFICES ASSUME owner.wait, owner.readers > 0
                 PROVE  \E t \in Threads : pc'[t] = "redo_l" /\ mode'[t] = "w"
      BY Zenon, <1>1 DEF BitOfWriters
    <3>1. wq # <<>>
      BY Zenon, <1>2 DEF RwInv, BitInv, BitOfWriters
    <3>2. PICK t \in Threads : InQueue(wq, t)
      BY Zenon, <3>1, Types, QueueNotEmpty
    <3>3. pc[t] = "again_l" /\ mode[t] = "w"
      BY Zenon, <1>2, <3>2 DEF RwInv, QueueInv, WritersQueued, QueuePlaces
    <3> QED BY Zenon, <1>1, <1>3, <3>3
  <2> QED BY Zenon, <2>1, <2>2, <2>3 DEF BitInv
<1>9. OwnerMatchesHolders'
  <2>1. \A m : Granted(m) = {} /\ Granted(m)' = {}
    BY Zenon, <1>2, <1>3 DEF Granted
  <2> QED BY Zenon, <1>1, <2>1, HoldersSame
<1> QED BY Zenon, <1>5, <1>6, <1>7, <1>8, <1>9 DEF RwInv

\* RwInv is an invariant of the lock when no savestate stops a timed wait.
THEOREM RwLockInvariant == Spec /\ []UntimedStops => []RwInv
<1>1. ASSUME RwInv, UntimedStops, [Next]_vars PROVE RwInv'
  <2>1. CASE UNCHANGED vars
    <3>1. UNCHANGED <<owner, rq, wq, mutex, exists, stop, pc, mode, arg, reading, writing, st, cancel>>
      BY Zenon, <2>1 DEF vars, lockVars, history, threadVars
    <3>2. TypeOK'
      BY Zenon, <1>1, <3>1 DEF RwInv, TypeOK, ThreadsTypeOK
    <3>3. QueueInv'
      BY Zenon, <1>1, <3>1 DEF RwInv, QueueInv, ReadersOnce, WritersOnce, ReadersQueued,
         WritersQueued, QueuedAsleep, RepeatQueued, Queued
    <3>4. PlaceInv'
      BY Zenon, <1>1, <3>1 DEF RwInv, PlaceInv, LapsedTimed, ReleasesHeld, ReadsBounded,
         Restoring, Queued
    <3>5. BitInv'
      BY Zenon, <1>1, <3>1 DEF RwInv, BitInv, BitOfWaiters, BitOfHolders, BitOfWriters
    <3>6. \A m : Granted(m)' = Granted(m)
      BY Zenon, <3>1 DEF Granted, Queued
    <3>7. OwnerMatchesHolders'
      BY Zenon, <1>1, <3>1, <3>6, HoldersSame
    <3> QED BY Zenon, <3>2, <3>3, <3>4, <3>5, <3>7 DEF RwInv
  <2>2. ASSUME NEW t \in Threads, NEW m \in {"r", "w"}, NEW timeout \in Timeouts, LockAtOnce(t, m, timeout)
        PROVE  RwInv'
    <3>1. /\ Available(m) /\ owner' = OwnedBy(t, m) /\ GrantTo(t, m) /\ pc' = [pc EXCEPT ![t] = "user"]
          /\ UNCHANGED <<rq, wq, mutex, exists, stop, mode, arg, threadVars>>
          /\ pc[t] \in {"user", "redo_l"} /\ (m = "r" /\ pc[t] = "user" => reading[t] < MaxReads)
      BY Zenon, <2>2 DEF LockAtOnce, Entering, Goto
    <3> QED BY Zenon, <1>1, <3>1, TakeInv
  <2>3. ASSUME NEW t \in Threads, NEW m \in {"r", "w"}, TryLock(t, m) PROVE RwInv'
    <3>1. /\ Available(m) /\ owner' = OwnedBy(t, m) /\ GrantTo(t, m) /\ pc' = pc
          /\ UNCHANGED <<rq, wq, mutex, exists, stop, mode, arg, threadVars>>
          /\ pc[t] = "user" /\ (m = "r" => reading[t] < MaxReads)
      BY Zenon, <2>3 DEF TryLock
    <3>2. pc' = [pc EXCEPT ![t] = "user"]
      BY Zenon, <1>1, <3>1, Types
    <3> QED BY Zenon, <1>1, <3>1, <3>2, TakeInv
  <2>4. ASSUME NEW t \in Threads, Lock(t) PROVE RwInv'
    BY Zenon, <1>1, <2>2, <2>4, LockWaitInv, WaitLoopInv, ReaderExpiredInv, WriterExpiredInv DEF Lock
  <2>5. ASSUME NEW t \in Threads, Unlock(t) PROVE RwInv'
    BY Zenon, <1>1, <2>5, RUnlockInv, WUnlockInv DEF Unlock
  <2> QED BY Zenon, <1>1, <2>1, <2>3, <2>4, <2>5, OtherInv, ReloadInv DEF Next
<1> QED BY <1>1, InitInv, PTL DEF Spec

\* owner tells exactly who has the lock: it counts the readers that know they read
\* and those that were let in, and names the writer, whatever let them in, as long
\* as no savestate stops a timed wait.
THEOREM HoldersMatch == Spec /\ []UntimedStops => []OwnerMatchesHolders
<1>1. RwInv => OwnerMatchesHolders
  BY DEF RwInv
<1> QED BY <1>1, RwLockInvariant, PTL

\* Who waits is found: the wait bit is set and somebody has the lock while a thread
\* is queued, and ensure(!rwlock->rq) of sys_rwlock_runlock holds.
THEOREM BitsKept == Spec /\ []UntimedStops => []WaitersKeepBit
<1>1. RwInv => WaitersKeepBit
  <2> SUFFICES ASSUME RwInv PROVE WaitersKeepBit
    OBVIOUS
  <2>1. rq # <<>> \/ wq # <<>> => owner.wait /\ (owner.writer # None \/ owner.readers > 0)
    BY Zenon DEF RwInv, BitInv, BitOfWaiters, BitOfHolders
  <2>2. ASSUME NEW t \in Threads, pc[t] = "ru_lock", owner.readers = 1, owner.wait, wq = <<>>
        PROVE  rq = <<>>
    <3>1. owner.readers > 0
      BY <2>2
    <3>2. \A u \in Threads : pc[u] # "redo_l"
      BY Zenon, <2>2, NobodyRepeats
    <3> QED BY Zenon, <2>2, <3>1, <3>2 DEF RwInv, BitInv, BitOfWriters
  <2> QED BY Zenon, <2>1, <2>2 DEF WaitersKeepBit
<1> QED BY <1>1, RwLockInvariant, PTL

\* A thread that knows it writes is alone with the lock: no other thread writes, and
\* none, itself included, reads.
WritersAlone ==
    \A t, u \in Threads : writing[t] => (writing[u] => u = t) /\ reading[u] = 0

\* Writers exclude each other and all readers.
THEOREM WritersExclude == Spec /\ []UntimedStops => []WritersAlone
<1>1. RwInv => WritersAlone
  <2> SUFFICES ASSUME RwInv, NEW t \in Threads, NEW u \in Threads, writing[t]
               PROVE  (writing[u] => u = t) /\ reading[u] = 0
    BY Zenon DEF WritersAlone
  <2>1. /\ owner.readers = Cardinality(ReadLocks) + Cardinality(Granted("r"))
        /\ owner.writer # None => owner.readers = 0
        /\ \A v \in Threads : owner.writer = v <=> writing[v] \/ v \in Granted("w")
    BY Zenon DEF RwInv, OwnerMatchesHolders
  <2>2. owner.writer = t /\ owner.readers = 0 /\ (writing[u] => u = t)
    BY Zenon, <2>1, RwLockAssumption
  <2>3. Cardinality(ReadLocks) = 0
    BY <2>1, <2>2, HolderCounts
  <2>4. ReadLocks = {}
    BY Zenon, <2>3, HolderCounts, FS_EmptySet
  <2>5. reading[u] \in Nat /\ MaxReads \in Nat \ {0} /\ <<u, 1>> \notin ReadLocks
    BY Zenon, <2>4, Types, RwLockAssumption
  <2>6. reading[u] = 0
    BY <2>5 DEF ReadLocks
  <2> QED BY Zenon, <2>2, <2>6
<1> QED BY <1>1, RwLockInvariant, PTL

=============================================================================
