---------------------------- MODULE Lv2CondProofs ----------------------------
(***************************************************************************)
(* Proofs about sys_mutex.cpp and sys_cond.cpp for any number of threads,  *)
(* any timeouts and any depth of recursion, both protocols, with and       *)
(* without savestates.                                                     *)
(***************************************************************************)
EXTENDS Lv2Cond, Integers, TLAPS

\* The prover of the leaves that cite no other; those about numbers, strings and
\* updates of functions cite SMT.
USE Zenon

\* t is among the waiters that sys_cond_signal_all moves.
Moving(t) == mutex # None /\ InQueue(rest[mutex], t)

\* t waits for the mutex or the condition variable.
Waits(t) == InQueue(sq, t) \/ InQueue(csq, t) \/ Moving(t)

\* t waits, or was made the owner and is about to be awoken.
Pending(t) == Waits(t) \/ (mutex # None /\ heir[mutex] = t)

\* The places of a thread in the queue of the mutex, in that of the condition
\* variable, and among those that are moved.
SqPlaces == {"l_sleep", "waiting", "resched", "l_expired", "again_l", "c_waiting",
             "c_resched", "c_expired", "c_resleep", "c_mutex", "again_c"}

CsqPlaces == {"c_sleep", "c_waiting", "c_resched", "c_expired", "again_c"}

RestPlaces == {"c_waiting", "c_resched", "c_expired"}

\* The places of a thread that may be made the owner while it waits.
HeirPlaces == {"l_sleep", "waiting", "resched", "l_expired", "c_waiting", "c_resched",
               "c_expired", "c_mutex"}

\* The places of a thread that was put to sleep.
SleepPlaces == {"waiting", "again_l", "c_waiting", "c_mutex", "again_c"}

\* The places at which a thread has lv2_mutex::mutex.
MutexPlaces == {"u_awake", "c_sleep", "c_resleep", "s_all", "s_awake"}

\* The places inside sys_mutex_lock before it has the mutex, and those inside
\* sys_cond_wait between giving it up and restoring the recursive value.
LockingPlaces == {"l_own", "l_sleep", "waiting", "resched", "l_expired", "again_l", "redo_l"}

GivenUpPlaces == {"c_sleep", "c_waiting", "c_resched", "c_expired", "c_resleep", "c_mutex",
                  "c_return"}

\* The places of a thread in no queue that moves and awakes nobody, and those of
\* them at which it knows whether it has the mutex.
IdlePlaces == {"user", "halted", "l_own", "l_yield", "redo_l", "u_lock", "again_u", "redo_u",
               "redo_c", "again_s"}

FreePlaces == {"user", "halted", "l_yield", "again_u", "redo_u", "again_s"}

\* The places at which a thread may be after a reload while others have to sleep
\* again, and those of the ones that have to.
RestorePlaces == {"user", "redo_l", "redo_u", "redo_c", "l_own", "l_sleep", "waiting", "c_waiting"}

ResleepPlaces == {"redo_l", "l_own", "l_sleep", "redo_c"}

\* The wait of t is saved, or will be repeated after a reload.
Kept(t) == pc[t] \in {"again_c", "redo_c"} /\ st[t] = "sleep"

-----------------------------------------------------------------------------
\* What holds of one thread.

\* It is in one queue at most, at a place where it waits for what that queue is for,
\* and not the owner.
Placed(t) ==
    /\ InQueue(sq, t) => pc[t] \in SqPlaces
    /\ InQueue(csq, t) => pc[t] \in CsqPlaces /\ ~InQueue(sq, t)
    /\ Moving(t) => pc[t] \in RestPlaces /\ ~InQueue(sq, t) /\ ~InQueue(csq, t)
    /\ Waits(t) => owner # t

\* Who left the queues is the owner.
Fated(t) ==
    /\ pc[t] \in HeirPlaces => Waits(t) \/ owner = t
    /\ pc[t] \in {"again_l", "c_resleep"} => InQueue(sq, t)
    /\ pc[t] = "c_sleep" => InQueue(csq, t)
    /\ pc[t] = "c_return" => owner = t
    /\ pc[t] = "u_lock" => owner = t /\ depth[t] = 1
    /\ pc[t] = "again_c" /\ st[t] = "sleep" => (requeued[t] <=> InQueue(sq, t))

\* It sleeps as long as it waits, also if the sleep is only announced.
Sleeping(t) ==
    /\ pc[t] \in SleepPlaces => (st[t] = "sleep" <=> Pending(t))
    /\ st[t] = "sleep" =>
         pc[t] \in SleepPlaces \cup {"l_own", "l_sleep", "l_yield", "halted", "redo_l", "redo_c"}
    /\ pc[t] = "l_sleep" => cancel[t] = IF Pending(t) THEN 1 ELSE 2
    /\ pc[t] # "l_sleep" => cancel[t] = 0

\* Its calls have told it how often it has locked the mutex.
Counted(t) ==
    /\ pc[t] \in LockingPlaces \cup GivenUpPlaces \/ Kept(t) => depth[t] = 0
    /\ pc[t] \in GivenUpPlaces \/ Kept(t) => held[t] > 0 /\ ret[t] = held[t] - 1
    /\ depth[t] > 0 => owner = t /\ lock_count = depth[t] - 1
    /\ owner = t /\ depth[t] = 0 => pc[t] \in HeirPlaces \cup {"c_return"} /\ lock_count = 0

\* Only a timed wait expires, and only a savestate makes a call be repeated.
Stopped(t) ==
    /\ pc[t] \in {"resched", "c_resched"} => arg[t] # 0
    /\ pc[t] \in {"again_l", "again_c"} => stop
    /\ pc[t] = "redo_l" => st[t] = "sleep"

\* It has lv2_mutex::mutex while it awakes or moves others, or goes to sleep.
Locked(t) ==
    /\ pc[t] \in MutexPlaces <=> mutex = t
    /\ heir[t] # None => mutex = t /\ pc[t] # "c_resleep"
    /\ rest[t] # <<>> => pc[t] = "s_all"

\* All that holds of one thread.
ThreadInv(t) ==
    Placed(t) /\ Fated(t) /\ Sleeping(t) /\ Counted(t) /\ Stopped(t) /\ Locked(t)

-----------------------------------------------------------------------------
\* What holds of all.

\* A thread is in a queue once, and so in each queue of the model.
Once(s) == \A i, j \in DOMAIN s : s[i] = s[j] => i = j

QueuesOnce == Once(sq) /\ Once(csq) /\ \A t \in Threads : Once(rest[t])

\* A mutex without an owner has no waiters and is not locked recursively.
FreeInv == owner = None => sq = <<>> /\ lock_count = 0

\* Who is about to be awoken is the owner and does not know it yet.
HeirInv == mutex # None /\ heir[mutex] # None => owner = heir[mutex] /\ pc[owner] \in HeirPlaces

\* While threads have to sleep again after a reload, nothing else happens: the
\* others have not started, or sleep again without a timeout.
Restoring ==
    FutureSleepers # {} =>
        /\ ~stop /\ mutex = None
        /\ \A t \in Threads :
             /\ pc[t] \in {"user", "redo_l", "redo_u", "redo_c", "l_own", "l_sleep",
                           "waiting", "c_waiting"}
             /\ pc[t] \in {"l_own", "l_sleep", "waiting", "c_waiting"} => st[t] = "sleep"
             /\ arg[t] = 0
        /\ \A t \in FutureSleepers :
             /\ owner # t
             /\ owner = None => pc[t] = "redo_c" /\ ~requeued[t]

\* What emplace(), unqueue() and schedule() do to a queue in which nobody waits
\* twice. These are facts about the operators, QueueLawsHold; the invariant takes
\* them along so that every step may use them.
QueueLaws ==
    /\ \A s \in Seq(Threads), protocol \in {"fifo", "prio"} :
          s # <<>> => ScheduleBy(protocol, s) \in 1..Len(s)
    /\ \A s \in Seq(Threads), t \in Threads : Once(s) /\ ~InQueue(s, t) =>
          /\ Emplace(s, t) \in Seq(Threads) /\ Once(Emplace(s, t))
          /\ \A u : InQueue(Emplace(s, t), u) <=> u = t \/ InQueue(s, u)
    /\ \A s \in Seq(Threads) : Once(s) => \A i \in 1..Len(s) :
          /\ Unlink(s, i) \in Seq(Threads) /\ Once(Unlink(s, i))
          /\ s[i] \in Threads /\ InQueue(s, s[i])
          /\ \A u : InQueue(Unlink(s, i), u) <=> u # s[i] /\ InQueue(s, u)

\* The inductive invariant.
CondInv ==
    /\ QueueLaws /\ CondTypeOK /\ QueuesOnce /\ FreeInv /\ HeirInv /\ Restoring
    /\ \A t \in Threads : ThreadInv(t)

-----------------------------------------------------------------------------
\* Steps that leave a thread alone

\* The step changes nothing of t.
SameThread(t) ==
    /\ pc'[t] = pc[t] /\ arg'[t] = arg[t] /\ st'[t] = st[t] /\ cancel'[t] = cancel[t]
    /\ depth'[t] = depth[t] /\ held'[t] = held[t] /\ ret'[t] = ret[t]
    /\ requeued'[t] = requeued[t] /\ heir'[t] = heir[t] /\ rest'[t] = rest[t]

\* The step changes nothing of what others decide about t.
SameFate(t) ==
    /\ InQueue(sq', t) <=> InQueue(sq, t)
    /\ InQueue(csq', t) <=> InQueue(csq, t)
    /\ Moving(t)' <=> Moving(t)
    /\ Pending(t)' <=> Pending(t)
    /\ owner' = t <=> owner = t
    /\ owner = t => lock_count' = lock_count
    /\ mutex' = t <=> mutex = t

\* A thread that a step leaves alone, in place and in fate, keeps its invariant.
LEMMA Frame ==
    ASSUME NEW t \in Threads, ThreadInv(t), SameThread(t), SameFate(t), stop => stop'
    PROVE  ThreadInv(t)'
<1>1. Waits(t)' <=> Waits(t)
  BY DEF SameFate, Waits
<1> Placed(t)'
  BY <1>1 DEF ThreadInv, Placed, SameThread, SameFate
<1> Fated(t)'
  BY <1>1 DEF ThreadInv, Fated, SameThread, SameFate
<1> Sleeping(t)'
  BY DEF ThreadInv, Sleeping, SameThread, SameFate
<1> Counted(t)'
  BY DEF ThreadInv, Counted, Kept, SameThread, SameFate
<1> Stopped(t)' /\ Locked(t)'
  BY DEF ThreadInv, Stopped, Locked, SameThread, SameFate
<1> QED BY DEF ThreadInv

-----------------------------------------------------------------------------
\* The parts of the invariant

\* The type invariant, a conjunct for every variable.
LEMMA Types ==
    ASSUME CondInv
    PROVE  /\ st \in [Threads -> Status] /\ cancel \in [Threads -> 0..2]
           /\ owner \in Threads \cup {None} /\ mutex \in Threads \cup {None}
           /\ sq \in Seq(Threads) /\ csq \in Seq(Threads) /\ lock_count \in 0..MaxCount
           /\ pc \in [Threads -> CondPlaces] /\ arg \in [Threads -> Nat]
           /\ heir \in [Threads -> Threads \cup {None}] /\ depth \in [Threads -> Nat]
           /\ ret \in [Threads -> 0..MaxCount] /\ requeued \in [Threads -> BOOLEAN]
           /\ rest \in [Threads -> Seq(Threads)] /\ held \in [Threads -> Nat]
           /\ exists \in BOOLEAN /\ stop \in BOOLEAN /\ cexists \in BOOLEAN
BY DEF CondInv, CondTypeOK, ThreadsTypeOK

\* Nobody has to sleep again when a thread is seen at work.
LEMMA NotRestoring ==
    ASSUME CondInv, NEW t \in Threads,
           \/ pc[t] \notin RestorePlaces \/ mutex # None \/ stop \/ arg[t] # 0
           \/ pc[t] \in {"l_own", "l_sleep", "waiting", "c_waiting"} /\ st[t] # "sleep"
           \/ MayEnter(t) /\ (pc[t] \notin ResleepPlaces \/ st[t] # "sleep")
    PROVE  FutureSleepers = {}
<1> ASSUME MayEnter(t), pc[t] \notin ResleepPlaces \/ st[t] # "sleep" PROVE FutureSleepers = {}
  BY DEF MayEnter, FutureSleepers, ResleepPlaces
<1> QED BY DEF CondInv, Restoring, RestorePlaces

\* Who sleeps again after a step did so before.
LEMMA RestoringOver ==
    ASSUME FutureSleepers = {},
           \A u \in Threads : \/ pc'[u] \notin ResleepPlaces \/ st'[u] # "sleep"
                              \/ pc'[u] = pc[u] /\ st'[u] = st[u]
    PROVE  Restoring' /\ FutureSleepers' = {}
<1> FutureSleepers' = {}
  BY DEF FutureSleepers, ResleepPlaces
<1> QED BY DEF Restoring

\* A step of t that leaves all others and what is decided about them alone.
LEMMA StepInv ==
    ASSUME CondInv, NEW t \in Threads, \A u \in Threads \ {t} : SameThread(u) /\ SameFate(u),
           stop => stop', CondTypeOK', QueuesOnce', FreeInv', HeirInv', Restoring', ThreadInv(t)'
    PROVE  CondInv'
<1> ASSUME NEW u \in Threads \ {t} PROVE ThreadInv(u)'
  <2> ThreadInv(u)
    BY DEF CondInv
  <2> QED BY Frame
<1> QED BY DEF CondInv

\* All places of sys_mutex.cpp and sys_cond.cpp are among those of the type invariant.
LEMMA PlacesHold ==
    /\ {"user", "halted", "l_own", "l_sleep", "l_yield", "waiting", "resched", "l_expired",
        "again_l", "redo_l", "u_lock", "u_awake", "again_u", "redo_u"} \subseteq CondPlaces
    /\ {"c_sleep", "c_waiting", "c_resched", "c_expired", "c_resleep", "c_mutex", "c_return",
        "again_c", "redo_c", "s_all", "s_awake", "again_s"} \subseteq CondPlaces
BY SMT DEF CondPlaces, Places, LockPlaces, UnlockPlaces, WaitPlaces, SignalPlaces

\* A thread that enters the queue of the mutex in sys_mutex_lock.
LEMMA LockSleepPlace ==
    /\ "l_own" \in IdlePlaces /\ "l_own" \in LockingPlaces /\ "l_own" \in ResleepPlaces
    /\ "l_sleep" \in SqPlaces /\ "l_sleep" \in HeirPlaces /\ "l_sleep" \in LockingPlaces
    /\ "l_sleep" \in ResleepPlaces /\ "l_sleep" \notin SleepPlaces /\ "l_sleep" \notin GivenUpPlaces
    /\ "l_sleep" \notin MutexPlaces
    /\ "l_sleep" \notin {"again_l", "again_c", "redo_l", "redo_c", "c_resleep", "c_sleep", "c_return",
                         "u_lock", "resched", "c_resched"}
BY SMT DEF IdlePlaces, LockingPlaces, ResleepPlaces, SqPlaces, HeirPlaces, SleepPlaces, GivenUpPlaces,
           MutexPlaces

\* A thread that sleeps in sys_mutex_lock, and the ones that leave it.
LEMMA WaitingPlace ==
    /\ "waiting" \in SleepPlaces /\ "waiting" \in HeirPlaces /\ "waiting" # "l_sleep"
    /\ {"l_own", "l_sleep", "waiting", "l_expired"} \subseteq LockingPlaces
    /\ "waiting" \notin CsqPlaces /\ "l_expired" \notin CsqPlaces /\ "l_expired" # "l_sleep"
    /\ "l_expired" \notin SleepPlaces \cup {"l_own", "l_sleep", "l_yield", "halted", "redo_l", "redo_c"}
    /\ {"user", "halted", "l_yield"} \subseteq FreePlaces
    /\ "onproc" # "sleep" /\ "ready" # "sleep"
BY SMT DEF SleepPlaces, HeirPlaces, LockingPlaces, CsqPlaces, FreePlaces

\* A thread that sleeps in sys_cond_wait.
LEMMA CondWaitingPlace ==
    /\ "redo_c" \in IdlePlaces /\ "redo_c" \in ResleepPlaces
    /\ "c_waiting" \notin ResleepPlaces /\ "c_waiting" \in SqPlaces /\ "c_waiting" \in CsqPlaces
    /\ "c_waiting" \in SleepPlaces /\ "c_waiting" \notin MutexPlaces /\ "c_waiting" \in GivenUpPlaces
    /\ "c_waiting" \notin {"again_l", "again_c", "redo_l", "redo_c", "c_resleep", "c_sleep", "c_return",
                           "u_lock", "s_all", "l_sleep", "resched", "c_resched"}
BY SMT DEF IdlePlaces, ResleepPlaces, SqPlaces, CsqPlaces, SleepPlaces, MutexPlaces, GivenUpPlaces

\* The last places of sys_cond_wait and of the signals, and the first after a reload.
LEMMA EndPlaces ==
    /\ {"redo_c", "redo_l"} \subseteq ResleepPlaces /\ "redo_l" # "redo_c"
    /\ "c_return" \in GivenUpPlaces /\ "s_awake" \in MutexPlaces /\ "s_all" \in MutexPlaces
    /\ \A p \in {"user", "s_all", "s_awake"} : p \notin GivenUpPlaces /\ p \notin {"again_c", "redo_c"}
BY SMT DEF ResleepPlaces, GivenUpPlaces, MutexPlaces

\* A thread that may become the owner waits for the mutex, and its wait is not saved.
LEMMA HeirsWait ==
    HeirPlaces \cup {"c_return"}
      \subseteq (Awaiting \cup CondAwaiting \cup {"c_return"}) \ {"again_l", "again_c"}
BY SMT DEF HeirPlaces, Awaiting, CondAwaiting

\* The numbers the counters start at.
LEMMA SmallNumbers ==
    /\ 0 \in 0..MaxCount /\ 0 \in Nat /\ {0, 1, 2} \subseteq 0..2 /\ 1 # 2 /\ ~(0 > 0)
BY SMT, MutexAssumption

\* The other values of a fresh mutex and condition variable.
LEMMA InitValues ==
    <<>> \in Seq(Threads) /\ "onproc" \in Status /\ "onproc" # "sleep" /\ 0 \in 0..MaxCount
BY SMT, MutexAssumption DEF Status

\* The step of one thread to another place.
LEMMA GotoPlace ==
    ASSUME CondInv, NEW t \in Threads, NEW p \in CondPlaces, Goto(t, p)
    PROVE  /\ pc' \in [Threads -> CondPlaces] /\ pc'[t] = p
           /\ \A u \in Threads \ {t} : pc'[u] = pc[u]
<1> pc' = [pc EXCEPT ![t] = p] /\ pc \in [Threads -> CondPlaces]
  BY Types DEF Goto
<1> QED OBVIOUS

-----------------------------------------------------------------------------
\* Queues

\* A thread enters a queue it is not in.
LEMMA EmplaceFacts ==
    ASSUME CondInv, NEW s \in Seq(Threads), Once(s), NEW t \in Threads, ~InQueue(s, t)
    PROVE  /\ Emplace(s, t) \in Seq(Threads) /\ Once(Emplace(s, t))
           /\ \A u : InQueue(Emplace(s, t), u) <=> u = t \/ InQueue(s, u)
BY DEF CondInv, QueueLaws

\* The thread at i leaves the queue.
LEMMA UnlinkFacts ==
    ASSUME CondInv, NEW s \in Seq(Threads), Once(s), NEW i \in 1..Len(s)
    PROVE  /\ Unlink(s, i) \in Seq(Threads) /\ Once(Unlink(s, i))
           /\ s[i] \in Threads /\ InQueue(s, s[i])
           /\ \A u : InQueue(Unlink(s, i), u) <=> u # s[i] /\ InQueue(s, u)
BY DEF CondInv, QueueLaws

\* schedule() finds a waiter in every nonempty queue.
LEMMA ScheduleFacts ==
    ASSUME CondInv, NEW s \in Seq(Threads), s # <<>>
    PROVE  Schedule(s) \in 1..Len(s) /\ ScheduleBy("prio", s) \in 1..Len(s)
BY MutexAssumption DEF CondInv, QueueLaws, Schedule

\* t leaves the queue.
LEMMA UnqueueFacts ==
    ASSUME CondInv, NEW s \in Seq(Threads), Once(s), NEW t \in Threads, InQueue(s, t)
    PROVE  /\ Unqueue(s, t) \in Seq(Threads) /\ Once(Unqueue(s, t))
           /\ \A u : InQueue(Unqueue(s, t), u) <=> u # t /\ InQueue(s, u)
<1> IndexOf(s, t) \in 1..Len(s) /\ s[IndexOf(s, t)] = t
  BY SMT DEF InQueue, IndexOf
<1> QED BY UnlinkFacts DEF Unqueue

\* A queue with a thread in it is not empty.
LEMMA NotEmpty ==
    ASSUME NEW s, NEW t, InQueue(s, t)
    PROVE  s # <<>>
BY SMT DEF InQueue

-----------------------------------------------------------------------------
\* Steps that decide about another thread

\* A thread that is in no queue and moves or awakes nobody.
LEMMA IdleThread ==
    ASSUME CondInv, NEW t \in Threads, pc[t] \in IdlePlaces
    PROVE  /\ ~Waits(t) /\ ~Pending(t) /\ pc[t] \notin HeirPlaces
           /\ mutex # t /\ heir[t] = None /\ rest[t] = <<>> /\ cancel[t] = 0
           /\ depth[t] > 0 => owner = t /\ lock_count = depth[t] - 1
           /\ owner = t => depth[t] # 0
<1> /\ pc[t] \notin SqPlaces /\ pc[t] \notin CsqPlaces /\ pc[t] \notin RestPlaces
    /\ pc[t] \notin HeirPlaces /\ pc[t] \notin MutexPlaces
    /\ pc[t] # "l_sleep" /\ pc[t] # "s_all" /\ pc[t] # "c_return"
  BY SMT DEF IdlePlaces, SqPlaces, CsqPlaces, RestPlaces, HeirPlaces, MutexPlaces
<1> Placed(t) /\ Sleeping(t) /\ Counted(t) /\ Locked(t) /\ HeirInv /\ None # t
  BY MutexAssumption DEF CondInv, ThreadInv
<1>1. ~Waits(t)
  BY DEF Placed, Waits
<1> ~Pending(t)
  BY <1>1 DEF Pending, HeirInv
<1> mutex # t /\ heir[t] = None /\ rest[t] = <<>> /\ cancel[t] = 0
  BY DEF Locked, Sleeping
<1> /\ depth[t] > 0 => owner = t /\ lock_count = depth[t] - 1
    /\ owner = t => depth[t] # 0
  BY DEF Counted
<1> QED BY <1>1

\* A step of t that also decides about h.
LEMMA StepOnInv ==
    ASSUME CondInv, NEW t \in Threads, NEW h \in Threads,
           \A u \in Threads \ {t, h} : SameThread(u) /\ SameFate(u),
           stop => stop', CondTypeOK', QueuesOnce', FreeInv', HeirInv', Restoring',
           ThreadInv(t)', ThreadInv(h)'
    PROVE  CondInv'
<1> ASSUME NEW u \in Threads \ {t, h} PROVE ThreadInv(u)'
  <2> ThreadInv(u)
    BY DEF CondInv
  <2> QED BY Frame
<1> QED BY DEF CondInv

\* Where a waiter is that nobody else is busy with and that will not repeat its call.
LEMMA WaiterPlace ==
    ASSUME CondInv, NEW h \in Threads, Waits(h), ~Repeating(h), mutex # h
    PROVE  /\ pc[h] \in HeirPlaces /\ pc[h] \in SqPlaces /\ pc[h] \notin MutexPlaces
           /\ pc[h] \notin {"again_l", "again_c", "redo_l", "redo_c", "c_resleep", "c_sleep", "c_return",
                            "u_lock", "s_all"}
           /\ pc[h] \in LockingPlaces \cup GivenUpPlaces
           /\ owner # h /\ depth[h] = 0 /\ ~(depth[h] > 0)
<1> Placed(h) /\ Counted(h) /\ Locked(h)
  BY DEF CondInv, ThreadInv
<1>1. pc[h] \in SqPlaces \cup CsqPlaces \cup RestPlaces /\ owner # h
  BY DEF Placed, Waits
<1>2. pc[h] \notin {"again_l", "again_c"} /\ pc[h] \notin MutexPlaces
  BY DEF Repeating, Locked
<1>3. /\ pc[h] \in HeirPlaces /\ pc[h] \in SqPlaces /\ pc[h] \notin MutexPlaces
      /\ pc[h] \notin {"again_l", "again_c", "redo_l", "redo_c", "c_resleep", "c_sleep", "c_return",
                       "u_lock", "s_all"}
      /\ pc[h] \in LockingPlaces \cup GivenUpPlaces
  BY SMT, <1>1, <1>2 DEF SqPlaces, CsqPlaces, RestPlaces, HeirPlaces, MutexPlaces, LockingPlaces,
                         GivenUpPlaces
<1> depth[h] = 0
  BY <1>3 DEF Counted
<1> QED BY SMT, <1>1, <1>3

\* The waiter that is made the owner.
LEMMA HeirThread ==
    ASSUME CondInv, NEW h \in Threads, Waits(h), ~Repeating(h), mutex # h, SameThread(h),
           owner' = h, lock_count' = 0, ~Waits(h)', Pending(h)', mutex' # h, stop' = stop
    PROVE  ThreadInv(h)'
<1> /\ pc[h] \in HeirPlaces /\ pc[h] \in SqPlaces /\ pc[h] \notin MutexPlaces
    /\ pc[h] \notin {"again_l", "again_c", "redo_l", "redo_c", "c_resleep", "c_sleep", "c_return",
                     "u_lock", "s_all"}
    /\ pc[h] \in LockingPlaces \cup GivenUpPlaces
    /\ owner # h /\ depth[h] = 0 /\ ~(depth[h] > 0)
  BY WaiterPlace
<1> ThreadInv(h) /\ Pending(h)
  BY DEF CondInv, Pending
<1> Placed(h)'
  BY DEF Placed, Waits
<1> Fated(h)'
  BY DEF Fated, SameThread
<1> Sleeping(h)'
  BY DEF ThreadInv, Sleeping, SameThread
<1> Counted(h)'
  BY DEF ThreadInv, Counted, Kept, SameThread
<1> Stopped(h)' /\ Locked(h)'
  BY DEF ThreadInv, Stopped, Locked, SameThread
<1> QED BY DEF ThreadInv

\* A thread that has lv2_mutex::mutex and does not sleep.
LEMMA BusyThread ==
    ASSUME NEW t \in Threads, pc'[t] \in {"u_awake", "s_awake", "s_all"}, mutex' = t, ~Waits(t)',
           cancel'[t] = 0, st'[t] # "sleep", rest'[t] # <<>> => pc'[t] = "s_all",
           depth'[t] > 0 => owner' = t /\ lock_count' = depth'[t] - 1,
           owner' = t => depth'[t] # 0
    PROVE  ThreadInv(t)'
<1> /\ pc'[t] \notin HeirPlaces /\ pc'[t] \notin SleepPlaces /\ pc'[t] \in MutexPlaces
    /\ pc'[t] \notin LockingPlaces \cup GivenUpPlaces
    /\ pc'[t] \notin {"c_return", "again_l", "again_c", "redo_c", "redo_l", "u_lock", "l_sleep",
                      "c_sleep", "c_resleep", "resched", "c_resched"}
  BY SMT DEF HeirPlaces, SleepPlaces, MutexPlaces, LockingPlaces, GivenUpPlaces
<1> Placed(t)'
  BY DEF Placed, Waits
<1> Fated(t)'
  BY DEF Fated
<1> Sleeping(t)'
  BY DEF Sleeping
<1> Counted(t)'
  BY DEF Counted, Kept
<1> Stopped(t)' /\ Locked(t)'
  BY DEF Stopped, Locked
<1> QED BY DEF ThreadInv

\* reown() finds a waiter.
LEMMA NextOwnerFacts ==
    ASSUME CondInv, sq # <<>>
    PROVE  /\ NextOwner \in Threads /\ InQueue(sq, NextOwner)
           /\ Unlink(sq, Schedule(sq)) \in Seq(Threads) /\ Once(Unlink(sq, Schedule(sq)))
           /\ \A u : InQueue(Unlink(sq, Schedule(sq)), u) <=> u # NextOwner /\ InQueue(sq, u)
<1>1. sq \in Seq(Threads) /\ Once(sq) /\ Prio \in [Threads -> Nat] /\ Protocol \in {"fifo", "prio"}
  BY Types, MutexAssumption DEF CondInv, QueuesOnce
<1> Schedule(sq) \in 1..Len(sq)
  BY <1>1, ScheduleFacts
<1> QED BY <1>1, UnlinkFacts DEF NextOwner

\* sys_mutex_unlock hands the mutex over.
LEMMA HandOverInv ==
    ASSUME CondInv, NEW t \in Threads, UNCHANGED condVars, UnlockReown(t), sq # <<>>, ~Repeating(NextOwner)
    PROVE  CondInv'
<1>1. PICK h \in Threads :
        /\ h = NextOwner /\ InQueue(sq, h)
        /\ Unlink(sq, Schedule(sq)) \in Seq(Threads) /\ Once(Unlink(sq, Schedule(sq)))
        /\ \A u : InQueue(Unlink(sq, Schedule(sq)), u) <=> u # h /\ InQueue(sq, u)
  BY NextOwnerFacts
<1> /\ pc[t] = "u_lock" /\ mutex = None /\ owner' = h /\ mutex' = t /\ heir' = [heir EXCEPT ![t] = h]
    /\ sq' \in Seq(Threads) /\ Once(sq') /\ (\A u : InQueue(sq', u) <=> u # h /\ InQueue(sq, u))
    /\ Released(t) /\ Goto(t, "u_awake")
    /\ UNCHANGED <<lock_count, exists, stop, arg, st, cancel>>
    /\ UNCHANGED <<csq, cexists, ret, requeued, rest, held>>
  BY <1>1 DEF UnlockReown, Reown, threadVars, condVars
<1>2. /\ pc' \in [Threads -> CondPlaces] /\ pc'[t] = "u_awake" /\ \A u \in Threads \ {t} : pc'[u] = pc[u]
  BY GotoPlace, PlacesHold
<1>3. heir' \in [Threads -> Threads \cup {None}] /\ heir'[t] = h /\ \A u \in Threads \ {t} : heir'[u] = heir[u]
  BY Types
<1>4. /\ pc[t] \in IdlePlaces /\ pc[t] \notin RestorePlaces /\ pc'[t] \notin ResleepPlaces
      /\ pc[t] \notin SleepPlaces \cup {"l_own", "l_sleep", "l_yield", "halted", "redo_l", "redo_c"}
  BY SMT, <1>2 DEF IdlePlaces, RestorePlaces, ResleepPlaces, SleepPlaces
<1>5. /\ ~Waits(t) /\ pc[t] \notin HeirPlaces /\ rest[t] = <<>> /\ cancel[t] = 0
      /\ depth[t] > 0 => owner = t /\ lock_count = depth[t] - 1
  BY <1>4, IdleThread
<1> owner = t /\ depth[t] = 1 /\ st[t] # "sleep" /\ None # t /\ h # t /\ None # h
  BY <1>1, <1>4, <1>5, MutexAssumption DEF CondInv, ThreadInv, Fated, Sleeping, Waits
<1>6. lock_count = 0
  BY SMT, <1>5
<1>7. depth' \in [Threads -> Nat] /\ depth'[t] = 0 /\ ~(depth'[t] > 0) /\ \A u \in Threads \ {t} : depth'[u] = depth[u]
  <2> depth \in [Threads -> Nat]
    BY Types
  <2> QED BY SMT DEF Released
<1>8. (\A u \in Threads \ {t} : SameThread(u)) /\ CondTypeOK'
  <2> \A u \in Threads \ {t} : SameThread(u)
    BY <1>2, <1>3, <1>7 DEF SameThread
  <2> CondTypeOK'
    BY <1>2, <1>3, <1>7, Types DEF CondTypeOK, ThreadsTypeOK
  <2> QED OBVIOUS
<1>9. \A u : ~Moving(u)' /\ ~Moving(u)
  <2> \A u : ~InQueue(<<>>, u)
    BY NotEmpty
  <2> QED BY <1>5 DEF Moving
<1> \A u \in Threads \ {t, h} : SameFate(u)
  BY MutexAssumption, <1>3, <1>9 DEF SameFate, Pending, Waits
<1>10. Waits(h) /\ ~Waits(h)' /\ Pending(h)' /\ ~Waits(t)'
  <2> Placed(h) /\ Waits(h)
    BY <1>1 DEF CondInv, ThreadInv, Waits
  <2> QED BY <1>1, <1>3, <1>5, <1>9 DEF Placed, Waits, Pending
<1>11. pc[h] \in HeirPlaces /\ ThreadInv(h)'
  <2> mutex # h /\ mutex' # h /\ SameThread(h) /\ ~Repeating(h)
    BY <1>1, <1>8
  <2> QED BY <1>6, <1>10, WaiterPlace, HeirThread
<1> ThreadInv(t)'
  BY <1>2, <1>5, <1>7, <1>10, BusyThread
<1> QueuesOnce' /\ FreeInv' /\ HeirInv'
  <2> QueuesOnce' /\ FreeInv'
    BY DEF CondInv, QueuesOnce, FreeInv
  <2> HeirInv'
    BY <1>2, <1>3, <1>11 DEF HeirInv
  <2> QED OBVIOUS
<1> Restoring'
  <2> FutureSleepers = {}
    BY <1>4, NotRestoring
  <2> QED BY <1>4, <1>8, RestoringOver DEF SameThread
<1> QED BY <1>8, <1>11, StepOnInv

\* sys_cond_wait registers its caller and gives up the mutex.
LEMMA CondWaitInv ==
    ASSUME CondInv, NEW t \in Threads, NEW timeout \in Timeouts, CondWait(t, timeout),
           sq # <<>> => ~Repeating(NextOwner)
    PROVE  CondInv'
<1>1. /\ MayEnter(t) /\ (pc[t] = "user" \/ (pc[t] = "redo_c" /\ st[t] # "sleep"))
      /\ owner = t /\ mutex = None /\ arg' = [arg EXCEPT ![t] = timeout] /\ lock_count' = 0
      /\ csq' = Emplace(csq, t) /\ ret' = [ret EXCEPT ![t] = lock_count] /\ Reown
      /\ heir' = [heir EXCEPT ![t] = IF sq = <<>> THEN None ELSE NextOwner] /\ mutex' = t
      /\ held' = [held EXCEPT ![t] = depth[t]] /\ depth' = [depth EXCEPT ![t] = 0] /\ Goto(t, "c_sleep")
      /\ UNCHANGED <<exists, stop, st, cancel>> /\ UNCHANGED <<cexists, requeued, rest>>
  BY DEF CondWait, threadVars
<1> /\ pc' \in [Threads -> CondPlaces] /\ pc'[t] = "c_sleep" /\ \A u \in Threads \ {t} : pc'[u] = pc[u]
  BY <1>1, GotoPlace, PlacesHold
<1>2. /\ arg' \in [Threads -> Nat] /\ depth' \in [Threads -> Nat] /\ held' \in [Threads -> Nat]
      /\ ret' \in [Threads -> 0..MaxCount] /\ lock_count' \in 0..MaxCount
      /\ depth'[t] = 0 /\ held'[t] = depth[t] /\ ret'[t] = lock_count /\ ~(depth'[t] > 0)
      /\ \A u \in Threads \ {t} : arg'[u] = arg[u] /\ depth'[u] = depth[u] /\ held'[u] = held[u] /\ ret'[u] = ret[u]
  <2>1. /\ timeout \in Nat
        /\ arg \in [Threads -> Nat] /\ depth \in [Threads -> Nat] /\ held \in [Threads -> Nat]
        /\ ret \in [Threads -> 0..MaxCount] /\ lock_count \in 0..MaxCount /\ MaxCount \in Nat
    BY MutexAssumption, Types
  <2> 0 \in 0..MaxCount /\ 0 \in Nat /\ ~(0 > 0)
    BY SMT, <2>1
  <2> QED BY <1>1, <2>1
<1> /\ pc[t] \in IdlePlaces /\ "c_sleep" \in CsqPlaces /\ "c_sleep" \notin HeirPlaces
    /\ "c_sleep" \notin SleepPlaces /\ "c_sleep" \in MutexPlaces /\ "c_sleep" \in GivenUpPlaces
    /\ "c_sleep" \notin ResleepPlaces /\ "user" \notin ResleepPlaces
    /\ "user" \notin SleepPlaces \cup {"l_own", "l_sleep", "l_yield", "halted", "redo_l", "redo_c"}
    /\ "c_sleep" \notin {"again_l", "again_c", "redo_l", "redo_c", "c_resleep", "c_return",
                         "u_lock", "s_all", "l_sleep", "resched", "c_resched"}
  BY SMT, <1>1 DEF IdlePlaces, CsqPlaces, HeirPlaces, SleepPlaces, MutexPlaces, GivenUpPlaces, ResleepPlaces
<1> /\ ~Waits(t) /\ pc[t] \notin HeirPlaces /\ rest[t] = <<>> /\ cancel[t] = 0
    /\ depth[t] > 0 => owner = t /\ lock_count = depth[t] - 1
    /\ owner = t => depth[t] # 0
  BY IdleThread
<1>3. st[t] # "sleep" /\ None # t /\ depth[t] > 0 /\ lock_count = depth[t] - 1
  <2> depth[t] \in Nat /\ depth[t] # 0
    BY <1>1, Types
  <2> st[t] # "sleep" /\ None # t
    BY <1>1, MutexAssumption DEF CondInv, ThreadInv, Sleeping
  <2> QED BY SMT
<1>4. csq' \in Seq(Threads) /\ Once(csq') /\ \A u : InQueue(csq', u) <=> u = t \/ InQueue(csq, u)
  <2> csq \in Seq(Threads) /\ Once(csq) /\ ~InQueue(csq, t)
    BY Types DEF CondInv, QueuesOnce, Waits
  <2> QED BY <1>1, EmplaceFacts
<1>5. PICK h \in Threads \cup {None} :
        /\ owner' = h /\ heir' = [heir EXCEPT ![t] = h]
        /\ sq' \in Seq(Threads) /\ Once(sq') /\ (\A u \in Threads : InQueue(sq', u) <=> u # h /\ InQueue(sq, u))
        /\ h = None => sq' = <<>>
        /\ h # None => InQueue(sq, h) /\ ~Repeating(h)
  <2> CASE sq = <<>>
    <3> owner' = None /\ heir' = [heir EXCEPT ![t] = None] /\ sq' = <<>>
      BY <1>1 DEF Reown
    <3> sq \in Seq(Threads) /\ Once(sq) /\ None \notin Threads
      BY Types, MutexAssumption DEF CondInv, QueuesOnce
    <3> None \in Threads \cup {None}
      OBVIOUS
    <3> QED OBVIOUS
  <2> CASE sq # <<>>
    <3>1. owner' = NextOwner /\ heir' = [heir EXCEPT ![t] = NextOwner] /\ sq' = Unlink(sq, Schedule(sq))
      BY <1>1 DEF Reown
    <3>2. /\ NextOwner \in Threads /\ InQueue(sq, NextOwner) /\ sq' \in Seq(Threads) /\ Once(sq')
          /\ \A u : InQueue(sq', u) <=> u # NextOwner /\ InQueue(sq, u)
      BY <3>1, NextOwnerFacts
    <3> NextOwner # None
      BY <3>2, MutexAssumption
    <3> QED BY <3>1, <3>2
  <2> QED OBVIOUS
<1>6. heir' \in [Threads -> Threads \cup {None}] /\ heir'[t] = h /\ \A u \in Threads \ {t} : heir'[u] = heir[u]
  BY <1>5, Types
<1>7. h # t
  BY <1>3, <1>5 DEF Waits
<1>8. (\A u \in Threads \ {t} : SameThread(u)) /\ CondTypeOK'
  <2> \A u \in Threads \ {t} : SameThread(u)
    BY <1>1, <1>2, <1>6 DEF SameThread
  <2> CondTypeOK'
    BY <1>1, <1>2, <1>4, <1>5, <1>6, Types DEF CondTypeOK, ThreadsTypeOK
  <2> QED OBVIOUS
<1>9. \A u : ~Moving(u)' /\ ~Moving(u)
  <2> \A u : ~InQueue(<<>>, u)
    BY NotEmpty
  <2> QED BY <1>1 DEF Moving
<1>10. \A u \in Threads \ {t, h} : SameFate(u)
  <2> TAKE u \in Threads \ {t, h}
  <2>1. (InQueue(sq', u) <=> InQueue(sq, u)) /\ (InQueue(csq', u) <=> InQueue(csq, u)) /\ u # None
    BY <1>4, <1>5, MutexAssumption
  <2> Pending(u)' <=> Pending(u)
    BY <1>1, <1>3, <1>6, <1>9, <2>1 DEF Pending, Waits
  <2> QED BY <1>1, <1>5, <1>9, <2>1 DEF SameFate
<1>11. ThreadInv(t)'
  <2>1. InQueue(csq', t) /\ ~InQueue(sq', t) /\ Waits(t)'
    BY <1>4, <1>5 DEF Waits
  <2> Placed(t)'
    BY <1>5, <1>7, <1>9, <2>1 DEF Placed
  <2> Fated(t)'
    BY <2>1 DEF Fated
  <2> Sleeping(t)'
    BY <1>1, <1>3 DEF Sleeping
  <2> Counted(t)'
    BY <1>2, <1>3, <1>5, <1>7 DEF Counted, Kept
  <2> Stopped(t)' /\ Locked(t)'
    BY <1>1 DEF Stopped, Locked
  <2> QED BY DEF ThreadInv
<1>12. QueuesOnce' /\ FreeInv'
  BY <1>1, <1>4, <1>5 DEF CondInv, QueuesOnce, FreeInv
<1>13. Restoring'
  <2> FutureSleepers = {}
    BY <1>1, NotRestoring
  <2> QED BY <1>8, RestoringOver DEF SameThread
<1> CASE h = None
  <2> HeirInv'
    BY <1>1, <1>6 DEF HeirInv
  <2> \A u \in Threads \ {t} : SameFate(u)
    BY <1>10, MutexAssumption
  <2> QED BY <1>1, <1>8, <1>11, <1>12, <1>13, StepInv
<1> CASE h # None
  <2>1. Waits(h) /\ ~Repeating(h) /\ SameThread(h) /\ mutex # h /\ mutex' # h /\ h \in Threads
    BY <1>1, <1>5, <1>7, <1>8 DEF Waits
  <2>2. ~Waits(h)' /\ Pending(h)'
    <3> ~InQueue(csq', h)
      BY <1>4, <1>5, <1>7, <2>1 DEF CondInv, ThreadInv, Placed
    <3> QED BY <1>1, <1>3, <1>5, <1>6, <1>9, <2>1 DEF Waits, Pending
  <2>3. pc[h] \in HeirPlaces /\ ThreadInv(h)'
    BY <1>1, <1>5, <2>1, <2>2, WaiterPlace, HeirThread
  <2> HeirInv'
    BY <1>1, <1>5, <1>6, <1>7, <2>1, <2>3 DEF HeirInv
  <2> QED BY <1>1, <1>8, <1>10, <1>11, <1>12, <1>13, <2>1, <2>3, StepOnInv
<1> QED OBVIOUS

\* A timed wait takes a free mutex.
LEMMA CondExpiredOwnInv ==
    ASSUME CondInv, NEW t \in Threads, CondExpired(t), InQueue(csq, t), owner = None
    PROVE  CondInv'
<1> /\ pc[t] = "c_expired" /\ mutex = None /\ csq' = Unqueue(csq, t) /\ owner' = t /\ Goto(t, "c_return")
    /\ UNCHANGED <<sq, lock_count, mutex, exists, stop, arg, heir, depth, st, cancel>>
    /\ UNCHANGED <<cexists, ret, requeued, rest, held>>
  BY DEF CondExpired, threadVars
<1> /\ pc' \in [Threads -> CondPlaces] /\ pc'[t] = "c_return" /\ \A u \in Threads \ {t} : pc'[u] = pc[u]
  BY GotoPlace, PlacesHold
<1> /\ pc[t] \notin RestorePlaces /\ pc[t] \notin MutexPlaces /\ pc[t] \in GivenUpPlaces
    /\ pc[t] \notin SleepPlaces \cup {"l_own", "l_sleep", "l_yield", "halted", "redo_l", "redo_c"}
    /\ pc[t] # "s_all" /\ pc[t] # "l_sleep" /\ "c_return" \notin HeirPlaces
    /\ "c_return" \notin ResleepPlaces /\ "c_return" \notin SleepPlaces /\ "c_return" \notin MutexPlaces
    /\ "c_return" \in GivenUpPlaces
    /\ "c_return" \notin {"again_l", "again_c", "redo_l", "redo_c", "c_resleep", "c_sleep",
                          "u_lock", "s_all", "l_sleep", "resched", "c_resched"}
  BY SMT DEF RestorePlaces, MutexPlaces, GivenUpPlaces, SleepPlaces, HeirPlaces, ResleepPlaces
<1> ThreadInv(t) /\ None # t /\ lock_count = 0 /\ sq = <<>>
  BY MutexAssumption DEF CondInv, FreeInv
<1> /\ ~InQueue(sq, t) /\ depth[t] = 0 /\ held[t] > 0 /\ ret[t] = held[t] - 1 /\ heir[t] = None
    /\ rest[t] = <<>> /\ cancel[t] = 0 /\ st[t] # "sleep" /\ ~(depth[t] > 0)
  <2> /\ ~InQueue(sq, t) /\ depth[t] = 0 /\ held[t] > 0 /\ ret[t] = held[t] - 1 /\ heir[t] = None
      /\ rest[t] = <<>> /\ cancel[t] = 0 /\ st[t] # "sleep"
    BY DEF ThreadInv, Placed, Counted, Locked, Sleeping
  <2> QED BY SMT
<1> csq' \in Seq(Threads) /\ Once(csq') /\ \A u : InQueue(csq', u) <=> u # t /\ InQueue(csq, u)
  <2> Once(csq) /\ csq \in Seq(Threads)
    BY Types DEF CondInv, QueuesOnce
  <2> QED BY UnqueueFacts
<1>1. (\A u \in Threads \ {t} : SameThread(u)) /\ CondTypeOK'
  <2> \A u \in Threads \ {t} : SameThread(u)
    BY DEF SameThread
  <2> CondTypeOK'
    BY Types DEF CondTypeOK, ThreadsTypeOK
  <2> QED OBVIOUS
<1> \A u \in Threads \ {t} : SameFate(u)
  BY MutexAssumption DEF SameFate, Pending, Waits, Moving
<1> QueuesOnce' /\ FreeInv' /\ HeirInv'
  BY DEF CondInv, QueuesOnce, FreeInv, HeirInv
<1> ThreadInv(t)'
  <2> Placed(t)'
    BY DEF Placed, Waits, Moving
  <2> Fated(t)'
    BY DEF Fated
  <2> Sleeping(t)'
    BY DEF Sleeping
  <2> Counted(t)'
    BY DEF Counted, Kept
  <2> Stopped(t)' /\ Locked(t)'
    BY DEF Stopped, Locked
  <2> QED BY DEF ThreadInv
<1> Restoring'
  <2> FutureSleepers = {}
    BY NotRestoring
  <2> QED BY <1>1, RestoringOver DEF SameThread
<1> QED BY <1>1, StepInv

\* A timed wait has to wait for the mutex.
LEMMA CondExpiredQueueInv ==
    ASSUME CondInv, NEW t \in Threads, CondExpired(t),
           (InQueue(csq, t) /\ owner # None) \/ (~InQueue(csq, t) /\ owner # t)
    PROVE  CondInv'
<1> /\ pc[t] = "c_expired" /\ mutex = None /\ mutex' = t /\ Goto(t, "c_resleep")
    /\ \/ InQueue(csq, t) /\ owner # None /\ csq' = Unqueue(csq, t) /\ sq' = Emplace(sq, t)
       \/ ~InQueue(csq, t) /\ owner # t /\ csq' = csq /\ sq' = sq
    /\ UNCHANGED <<owner, lock_count, exists, stop, arg, heir, depth, st, cancel>>
    /\ UNCHANGED <<cexists, ret, requeued, rest, held>>
  BY DEF CondExpired, threadVars
<1> /\ pc' \in [Threads -> CondPlaces] /\ pc'[t] = "c_resleep" /\ \A u \in Threads \ {t} : pc'[u] = pc[u]
  BY GotoPlace, PlacesHold
<1> /\ pc[t] \notin RestorePlaces /\ pc[t] \notin MutexPlaces /\ pc[t] \in GivenUpPlaces /\ pc[t] \in HeirPlaces
    /\ pc[t] \notin SleepPlaces \cup {"l_own", "l_sleep", "l_yield", "halted", "redo_l", "redo_c"}
    /\ pc[t] # "s_all" /\ pc[t] # "l_sleep" /\ "c_resleep" \notin HeirPlaces /\ "c_resleep" \in SqPlaces
    /\ "c_resleep" \notin ResleepPlaces /\ "c_resleep" \notin SleepPlaces /\ "c_resleep" \in MutexPlaces
    /\ "c_resleep" \in GivenUpPlaces
    /\ "c_resleep" \notin {"again_l", "again_c", "redo_l", "redo_c", "c_return", "c_sleep",
                          "u_lock", "s_all", "l_sleep", "resched", "c_resched"}
  BY SMT DEF RestorePlaces, MutexPlaces, GivenUpPlaces, SleepPlaces, HeirPlaces, SqPlaces, ResleepPlaces
<1>1. ThreadInv(t) /\ None # t
  BY MutexAssumption DEF CondInv
<1> /\ depth[t] = 0 /\ held[t] > 0 /\ ret[t] = held[t] - 1 /\ heir[t] = None /\ owner # t
    /\ rest[t] = <<>> /\ cancel[t] = 0 /\ st[t] # "sleep" /\ ~(depth[t] > 0)
    /\ InQueue(csq, t) => ~InQueue(sq, t)
    /\ ~InQueue(csq, t) => InQueue(sq, t)
  <2> /\ depth[t] = 0 /\ held[t] > 0 /\ ret[t] = held[t] - 1 /\ heir[t] = None
      /\ rest[t] = <<>> /\ cancel[t] = 0 /\ st[t] # "sleep"
      /\ InQueue(csq, t) => ~InQueue(sq, t)
    BY <1>1 DEF ThreadInv, Placed, Counted, Locked, Sleeping
  <2> owner # t /\ (~InQueue(csq, t) => InQueue(sq, t))
    BY <1>1 DEF ThreadInv, Placed, Fated, Waits, Moving
  <2> QED BY SMT
<1> /\ sq' \in Seq(Threads) /\ Once(sq') /\ csq' \in Seq(Threads) /\ Once(csq')
    /\ InQueue(sq', t) /\ ~InQueue(csq', t) /\ (owner = None => sq' = sq)
    /\ \A u \in Threads \ {t} : (InQueue(sq', u) <=> InQueue(sq, u)) /\ (InQueue(csq', u) <=> InQueue(csq, u))
  <2>1. /\ sq \in Seq(Threads) /\ Once(sq) /\ csq \in Seq(Threads) /\ Once(csq)
    BY Types DEF CondInv, QueuesOnce
  <2> CASE InQueue(csq, t) /\ owner # None /\ csq' = Unqueue(csq, t) /\ sq' = Emplace(sq, t)
    BY <2>1, EmplaceFacts, UnqueueFacts
  <2> CASE ~InQueue(csq, t) /\ csq' = csq /\ sq' = sq
    BY <2>1
  <2> QED OBVIOUS
<1>2. (\A u \in Threads \ {t} : SameThread(u)) /\ CondTypeOK'
  <2> \A u \in Threads \ {t} : SameThread(u)
    BY DEF SameThread
  <2> CondTypeOK'
    BY Types DEF CondTypeOK, ThreadsTypeOK
  <2> QED OBVIOUS
<1> \A u : ~Moving(u)' /\ ~Moving(u)
  <2> \A u : ~InQueue(<<>>, u)
    BY NotEmpty
  <2> QED BY DEF Moving
<1> \A u \in Threads \ {t} : SameFate(u)
  <2> TAKE u \in Threads \ {t}
  <2>1. u # None
    BY MutexAssumption
  <2> Pending(u)' <=> Pending(u)
    BY <2>1 DEF Pending, Waits
  <2> QED BY <2>1 DEF SameFate
<1> QueuesOnce' /\ FreeInv' /\ HeirInv'
  BY DEF CondInv, QueuesOnce, FreeInv, HeirInv
<1> ThreadInv(t)'
  <2> Placed(t)'
    BY DEF Placed
  <2> Fated(t)'
    BY DEF Fated
  <2> Sleeping(t)'
    BY DEF Sleeping
  <2> Counted(t)'
    BY DEF Counted, Kept
  <2> Stopped(t)' /\ Locked(t)'
    BY DEF Stopped, Locked
  <2> QED BY DEF ThreadInv
<1> Restoring'
  <2> FutureSleepers = {}
    BY NotRestoring
  <2> QED BY <1>2, RestoringOver DEF SameThread
<1> QED BY <1>2, StepInv

-----------------------------------------------------------------------------
\* sys_cond_signal, sys_cond_signal_to, sys_cond_signal_all

\* A thread that waits for nothing, and knows whether it has the mutex.
LEMMA FreeThread ==
    ASSUME NEW t \in Threads, pc'[t] \in FreePlaces, ~Waits(t)',
           mutex' # t, heir'[t] = None, rest'[t] = <<>>, cancel'[t] = 0,
           st'[t] = "sleep" => pc'[t] \in {"l_yield", "halted"},
           depth'[t] > 0 => owner' = t /\ lock_count' = depth'[t] - 1,
           owner' = t => depth'[t] # 0
    PROVE  ThreadInv(t)'
<1> /\ pc'[t] \notin SqPlaces /\ pc'[t] \notin CsqPlaces /\ pc'[t] \notin RestPlaces
    /\ pc'[t] \notin HeirPlaces /\ pc'[t] \notin SleepPlaces /\ pc'[t] \notin MutexPlaces
    /\ pc'[t] \notin LockingPlaces /\ pc'[t] \notin GivenUpPlaces
    /\ pc'[t] \notin {"c_return", "again_l", "again_c", "redo_c", "redo_l", "u_lock", "l_sleep",
                      "c_sleep", "c_resleep", "resched", "c_resched"}
  BY SMT DEF FreePlaces, SqPlaces, CsqPlaces, RestPlaces, HeirPlaces, SleepPlaces, MutexPlaces,
             LockingPlaces, GivenUpPlaces
<1> Placed(t)'
  BY DEF Placed, Waits
<1> Fated(t)'
  BY DEF Fated
<1> Sleeping(t)'
  BY DEF Sleeping
<1> Counted(t)'
  BY DEF Counted, Kept
<1> Stopped(t)' /\ Locked(t)'
  BY DEF Stopped, Locked
<1> QED BY DEF ThreadInv

\* The waiter that enters the queue of the mutex in its sleep.
LEMMA MovedThread ==
    ASSUME CondInv, NEW h \in Threads, Waits(h), ~Repeating(h), mutex # h, SameThread(h),
           owner' = owner, lock_count' = lock_count, InQueue(sq', h), ~InQueue(csq', h), ~Moving(h)',
           mutex' # h, stop' = stop
    PROVE  ThreadInv(h)'
<1> /\ pc[h] \in HeirPlaces /\ pc[h] \in SqPlaces /\ pc[h] \notin MutexPlaces
    /\ pc[h] \notin {"again_l", "again_c", "redo_l", "redo_c", "c_resleep", "c_sleep", "c_return",
                     "u_lock", "s_all"}
    /\ pc[h] \in LockingPlaces \cup GivenUpPlaces
    /\ owner # h /\ depth[h] = 0 /\ ~(depth[h] > 0)
  BY WaiterPlace
<1> ThreadInv(h) /\ Pending(h) /\ Pending(h)' /\ Waits(h)'
  BY DEF CondInv, Pending, Waits
<1> Placed(h)'
  BY DEF Placed, SameThread
<1> Fated(h)'
  BY DEF Fated, SameThread
<1> Sleeping(h)'
  BY DEF ThreadInv, Sleeping, SameThread
<1> Counted(h)'
  BY DEF ThreadInv, Counted, Kept, SameThread
<1> Stopped(h)' /\ Locked(h)'
  BY DEF ThreadInv, Stopped, Locked, SameThread
<1> QED BY DEF ThreadInv

\* A waiter is made the owner of the free mutex, or moved to its queue.
LEMMA SignalAtInv ==
    ASSUME CondInv, NEW t \in Threads, NEW i \in 1..Len(csq), SignalAt(t, i), ~Repeating(csq[i])
    PROVE  CondInv'
<1>1. /\ csq \in Seq(Threads) /\ sq \in Seq(Threads) /\ Once(csq) /\ Once(sq)
  BY Types DEF CondInv, QueuesOnce
<1> PICK h \in Threads :
      /\ h = csq[i] /\ InQueue(csq, h) /\ Unlink(csq, i) \in Seq(Threads) /\ Once(Unlink(csq, i))
      /\ \A u : InQueue(Unlink(csq, i), u) <=> u # h /\ InQueue(csq, u)
  <2> /\ Unlink(csq, i) \in Seq(Threads) /\ Once(Unlink(csq, i))
      /\ csq[i] \in Threads /\ InQueue(csq, csq[i])
      /\ \A u : InQueue(Unlink(csq, i), u) <=> u # csq[i] /\ InQueue(csq, u)
    BY <1>1, UnlinkFacts
  <2> QED OBVIOUS
<1> /\ MayEnter(t) /\ pc[t] = "user" /\ mutex = None /\ csq' = Unlink(csq, i) /\ TryOwnFor(t, h)
    /\ mutex' = (IF owner = None THEN t ELSE None)
    /\ Goto(t, IF owner = None THEN "s_awake" ELSE "user") /\ ~Repeating(h)
    /\ UNCHANGED <<lock_count, exists, stop, arg, depth, st, cancel>>
    /\ UNCHANGED <<cexists, ret, requeued, rest, held>>
  BY DEF SignalAt, Signaling, threadVars
<1> /\ pc' \in [Threads -> CondPlaces] /\ pc'[t] = (IF owner = None THEN "s_awake" ELSE "user")
    /\ \A u \in Threads \ {t} : pc'[u] = pc[u]
  <2> (IF owner = None THEN "s_awake" ELSE "user") \in CondPlaces
    BY PlacesHold
  <2> QED BY GotoPlace
<1> /\ pc[t] \in IdlePlaces /\ "user" \in FreePlaces /\ "user" \notin ResleepPlaces /\ "s_awake" \notin ResleepPlaces
    /\ pc[t] \notin SleepPlaces \cup {"l_own", "l_sleep", "l_yield", "halted", "redo_l", "redo_c"}
  BY SMT DEF IdlePlaces, FreePlaces, ResleepPlaces, SleepPlaces
<1> /\ ~Waits(t) /\ pc[t] \notin HeirPlaces /\ mutex # t /\ heir[t] = None /\ rest[t] = <<>> /\ cancel[t] = 0
    /\ depth[t] > 0 => owner = t /\ lock_count = depth[t] - 1
    /\ owner = t => depth[t] # 0
  BY IdleThread
<1> Waits(h) /\ h # t /\ st[t] # "sleep" /\ None # t /\ None # h /\ owner # h /\ ~InQueue(sq, h) /\ pc[h] \in HeirPlaces
  <2> Waits(h) /\ Placed(h) /\ Sleeping(t) /\ None # t /\ None # h
    BY MutexAssumption DEF CondInv, ThreadInv, Waits
  <2> QED BY WaiterPlace DEF Placed, Sleeping
<1>2. FutureSleepers = {}
  BY NotRestoring
<1> \A u : ~Moving(u)' /\ ~Moving(u)
  <2> \A u : ~InQueue(<<>>, u)
    BY NotEmpty
  <2> QED BY DEF Moving
<1>3. Restoring'
  <2> \A u \in Threads : pc'[u] \notin ResleepPlaces \/ (pc'[u] = pc[u] /\ st'[u] = st[u])
    OBVIOUS
  <2> QED BY <1>2, RestoringOver
<1> CASE owner = None
  <2> owner' = h /\ heir' = [heir EXCEPT ![t] = h] /\ sq' = sq /\ mutex' = t /\ pc'[t] = "s_awake"
    BY DEF TryOwnFor
  <2> heir' \in [Threads -> Threads \cup {None}] /\ heir'[t] = h /\ \A u \in Threads \ {t} : heir'[u] = heir[u]
    BY Types
  <2>1. (\A u \in Threads \ {t} : SameThread(u)) /\ CondTypeOK'
    <3> \A u \in Threads \ {t} : SameThread(u)
      BY DEF SameThread
    <3> CondTypeOK'
      BY Types DEF CondTypeOK, ThreadsTypeOK
    <3> QED OBVIOUS
  <2> \A u \in Threads \ {t, h} : SameFate(u)
    <3> TAKE u \in Threads \ {t, h}
    <3>1. u # None /\ (InQueue(csq', u) <=> InQueue(csq, u))
      BY MutexAssumption
    <3> Pending(u)' <=> Pending(u)
      BY <3>1 DEF Pending, Waits
    <3> QED BY <3>1 DEF SameFate
  <2>2. ~Waits(h)' /\ Pending(h)' /\ ~Waits(t)'
    BY DEF Waits, Pending
  <2>3. lock_count = 0
    BY DEF CondInv, FreeInv
  <2> ThreadInv(h)'
    BY <2>1, <2>2, <2>3, HeirThread
  <2> ThreadInv(t)'
    BY <2>2, BusyThread
  <2> QueuesOnce' /\ FreeInv' /\ HeirInv'
    <3> QueuesOnce' /\ FreeInv'
      BY DEF CondInv, QueuesOnce, FreeInv
    <3> HeirInv'
      BY DEF HeirInv
    <3> QED OBVIOUS
  <2> QED BY <1>3, <2>1, StepOnInv
<1> CASE owner # None
  <2> owner' = owner /\ heir' = heir /\ sq' = Emplace(sq, h) /\ mutex' = None /\ pc'[t] = "user"
    BY DEF TryOwnFor
  <2> sq' \in Seq(Threads) /\ Once(sq') /\ \A u : InQueue(sq', u) <=> u = h \/ InQueue(sq, u)
    BY <1>1, EmplaceFacts
  <2>1. (\A u \in Threads \ {t} : SameThread(u)) /\ CondTypeOK'
    <3> \A u \in Threads \ {t} : SameThread(u)
      BY DEF SameThread
    <3> CondTypeOK'
      BY Types DEF CondTypeOK, ThreadsTypeOK
    <3> QED OBVIOUS
  <2> \A u \in Threads \ {t, h} : SameFate(u)
    BY DEF SameFate, Pending, Waits
  <2> ThreadInv(h)'
    <3> InQueue(sq', h) /\ ~InQueue(csq', h) /\ ~Moving(h)' /\ mutex # h /\ mutex' # h
      OBVIOUS
    <3> QED BY <2>1, MovedThread
  <2> ThreadInv(t)'
    <3> ~Waits(t)'
      BY DEF Waits
    <3> QED BY FreeThread
  <2> QueuesOnce' /\ FreeInv' /\ HeirInv'
    BY DEF CondInv, QueuesOnce, FreeInv, HeirInv
  <2> QED BY <1>3, <2>1, StepOnInv
<1> QED OBVIOUS

\* A waiter that sys_cond_signal_all takes out of the queue, to move it.
LEMMA TakenThread ==
    ASSUME CondInv, NEW u \in Threads, InQueue(csq, u), ~Repeating(u), mutex = None, SameThread(u),
           owner' = owner, lock_count' = lock_count, sq' = sq, ~InQueue(csq', u), Moving(u)',
           mutex' # u, stop' = stop
    PROVE  ThreadInv(u)'
<1> Waits(u) /\ mutex # u /\ ThreadInv(u)
  BY MutexAssumption DEF Waits, CondInv
<1> /\ pc[u] \in HeirPlaces /\ pc[u] \notin MutexPlaces
    /\ pc[u] \notin {"again_l", "again_c", "redo_l", "redo_c", "c_resleep", "c_sleep", "c_return",
                     "u_lock", "s_all"}
    /\ owner # u /\ depth[u] = 0 /\ ~(depth[u] > 0)
  BY WaiterPlace
<1>1. pc[u] \in CsqPlaces /\ ~InQueue(sq, u)
  BY DEF ThreadInv, Placed
<1>2. pc[u] \in RestPlaces
  BY SMT, <1>1 DEF CsqPlaces, RestPlaces
<1>3. Waits(u)' /\ Pending(u)' /\ Pending(u)
  BY DEF Waits, Pending
<1> Placed(u)'
  BY <1>1, <1>2 DEF Placed, SameThread
<1> Fated(u)'
  BY <1>3 DEF Fated, SameThread
<1> Sleeping(u)'
  BY <1>3 DEF ThreadInv, Sleeping, SameThread
<1> Counted(u)'
  BY DEF ThreadInv, Counted, Kept, SameThread
<1> Stopped(u)' /\ Locked(u)'
  BY DEF ThreadInv, Stopped, Locked, SameThread
<1> QED BY DEF ThreadInv

\* sys_cond_signal_all takes the whole queue.
LEMMA SignalAllInv ==
    ASSUME CondInv, NEW t \in Threads, SignalAll(t), \A i \in DOMAIN csq : ~Repeating(csq[i])
    PROVE  CondInv'
<1> /\ MayEnter(t) /\ pc[t] = "user" /\ mutex = None /\ rest' = [rest EXCEPT ![t] = csq] /\ csq' = <<>>
    /\ mutex' = t /\ Goto(t, "s_all")
    /\ UNCHANGED <<owner, sq, lock_count, exists, stop, arg, heir, depth, st, cancel>>
    /\ UNCHANGED <<cexists, ret, requeued, held>>
  BY DEF SignalAll, Signaling, threadVars
<1>1. /\ pc' \in [Threads -> CondPlaces] /\ pc'[t] = "s_all" /\ \A u \in Threads \ {t} : pc'[u] = pc[u]
  BY GotoPlace, PlacesHold
<1>2. rest' \in [Threads -> Seq(Threads)] /\ rest'[t] = csq /\ \A u \in Threads \ {t} : rest'[u] = rest[u]
  BY Types
<1>3. /\ pc[t] \in IdlePlaces /\ "user" \notin ResleepPlaces /\ "s_all" \notin ResleepPlaces
      /\ pc[t] \notin SleepPlaces \cup {"l_own", "l_sleep", "l_yield", "halted", "redo_l", "redo_c"}
  BY SMT DEF IdlePlaces, ResleepPlaces, SleepPlaces
<1>4. /\ ~Waits(t) /\ heir[t] = None /\ cancel[t] = 0
      /\ depth[t] > 0 => owner = t /\ lock_count = depth[t] - 1
      /\ owner = t => depth[t] # 0
  BY <1>3, IdleThread
<1>5. st[t] # "sleep" /\ None # t /\ QueuesOnce /\ FreeInv
  BY <1>3, MutexAssumption DEF CondInv, ThreadInv, Sleeping
<1>6. /\ <<>> \in Seq(Threads) /\ Once(<<>>) /\ \A u : ~InQueue(<<>>, u)
  <2> \A u : ~InQueue(<<>>, u)
    BY NotEmpty
  <2> <<>> \in Seq(Threads) /\ Once(<<>>)
    BY SMT DEF Once
  <2> QED OBVIOUS
<1>7. (\A u \in Threads \ {t} : SameThread(u)) /\ CondTypeOK'
  <2> \A u \in Threads \ {t} : SameThread(u)
    BY <1>1, <1>2 DEF SameThread
  <2> CondTypeOK'
    BY <1>1, <1>2, <1>6, Types DEF CondTypeOK, ThreadsTypeOK
  <2> QED OBVIOUS
<1>8. \A u : (Moving(u)' <=> InQueue(csq, u)) /\ ~Moving(u)
  BY <1>2, <1>5 DEF Moving
<1> ThreadInv(t)'
  <2> ~Waits(t)'
    BY <1>4, <1>6, <1>8 DEF Waits
  <2> QED BY <1>1, <1>4, <1>5, BusyThread
<1> ASSUME NEW u \in Threads \ {t} PROVE ThreadInv(u)'
  <2>1. SameThread(u) /\ ThreadInv(u) /\ u # None
    BY <1>7, MutexAssumption DEF CondInv
  <2> CASE InQueue(csq, u)
    <3> ~Repeating(u)
      BY DEF InQueue
    <3> QED BY <1>6, <1>8, <2>1, TakenThread
  <2> CASE ~InQueue(csq, u)
    <3> SameFate(u)
      BY <1>4, <1>6, <1>8, <2>1 DEF SameFate, Pending, Waits
    <3> QED BY <2>1, Frame
  <2> QED OBVIOUS
<1> QueuesOnce' /\ FreeInv' /\ HeirInv'
  BY <1>2, <1>4, <1>5, <1>6 DEF QueuesOnce, FreeInv, HeirInv
<1> Restoring'
  <2> FutureSleepers = {}
    BY <1>3, NotRestoring
  <2> QED BY <1>1, <1>3, <1>7, RestoringOver DEF SameThread
<1> QED BY <1>7 DEF CondInv

\* sys_cond_signal_all moves one of the waiters it took.
LEMMA SignalAllNextInv ==
    ASSUME CondInv, NEW t \in Threads, SignalAllNext(t)
    PROVE  CondInv'
<1>1. PICK i : /\ i = ScheduleBy("prio", rest[t]) /\ TryOwnFor(t, rest[t][i])
               /\ rest' = [rest EXCEPT ![t] = Unlink(@, i)]
  BY DEF SignalAllNext
<1> /\ pc[t] = "s_all" /\ rest[t] # <<>>
    /\ UNCHANGED <<lock_count, mutex, exists, stop, pc, arg, depth, st, cancel>>
    /\ UNCHANGED <<csq, cexists, ret, requeued, held>>
  BY DEF SignalAllNext, threadVars
<1>2. /\ rest[t] \in Seq(Threads) /\ Once(rest[t]) /\ rest \in [Threads -> Seq(Threads)]
      /\ Prio \in [Threads -> Nat] /\ "prio" \in {"fifo", "prio"} /\ sq \in Seq(Threads) /\ Once(sq)
  BY Types, MutexAssumption DEF CondInv, QueuesOnce
<1>3. i \in 1..Len(rest[t])
  BY <1>1, <1>2, ScheduleFacts
<1>4. PICK h \in Threads :
        /\ h = rest[t][i] /\ InQueue(rest[t], h) /\ Unlink(rest[t], i) \in Seq(Threads) /\ Once(Unlink(rest[t], i))
        /\ \A u : InQueue(Unlink(rest[t], i), u) <=> u # h /\ InQueue(rest[t], u)
  <2> /\ Unlink(rest[t], i) \in Seq(Threads) /\ Once(Unlink(rest[t], i))
      /\ rest[t][i] \in Threads /\ InQueue(rest[t], rest[t][i])
      /\ \A u : InQueue(Unlink(rest[t], i), u) <=> u # rest[t][i] /\ InQueue(rest[t], u)
    BY <1>2, <1>3, UnlinkFacts
  <2> QED OBVIOUS
<1> /\ rest' \in [Threads -> Seq(Threads)] /\ (\A u \in Threads \ {t} : rest'[u] = rest[u]) /\ Once(rest'[t])
    /\ \A u : InQueue(rest'[t], u) <=> u # h /\ InQueue(rest[t], u)
  <2> rest' \in [Threads -> Seq(Threads)] /\ (\A u \in Threads \ {t} : rest'[u] = rest[u]) /\ rest'[t] = Unlink(rest[t], i)
    BY <1>1, <1>2, <1>4
  <2> QED BY <1>4
<1>5. /\ pc[t] \in MutexPlaces /\ pc[t] \notin RestorePlaces
      /\ pc[t] \notin SqPlaces /\ pc[t] \notin CsqPlaces /\ pc[t] \notin RestPlaces
      /\ pc[t] \notin SleepPlaces \cup {"l_own", "l_sleep", "l_yield", "halted", "redo_l", "redo_c"}
      /\ pc[t] \notin HeirPlaces \cup {"c_return"} /\ pc[t] # "l_sleep"
      /\ {"again_l", "again_c"} \cap RestPlaces = {}
  BY SMT DEF MutexPlaces, RestorePlaces, SqPlaces, CsqPlaces, RestPlaces, SleepPlaces, HeirPlaces
<1> ThreadInv(t) /\ ThreadInv(h) /\ HeirInv /\ FreeInv /\ QueuesOnce /\ None # t /\ None # h
  BY MutexAssumption DEF CondInv
<1> mutex = t /\ cancel[t] = 0 /\ st[t] # "sleep" /\ ~Waits(t)
  BY <1>5 DEF ThreadInv, Locked, Sleeping, Placed, Waits
<1> \A u : (Moving(u) <=> InQueue(rest[t], u)) /\ (Moving(u)' <=> u # h /\ InQueue(rest[t], u))
  BY DEF Moving
<1> Moving(h) /\ Waits(h) /\ h # t /\ ~InQueue(sq, h) /\ ~InQueue(csq, h) /\ ~Repeating(h) /\ mutex # h
    /\ owner # h /\ pc[h] \in HeirPlaces
  <2>1. Moving(h) /\ Waits(h) /\ h # t
    BY <1>4 DEF Waits
  <2>2. ~InQueue(sq, h) /\ ~InQueue(csq, h) /\ pc[h] \in RestPlaces
    BY <2>1 DEF ThreadInv, Placed
  <2> ~Repeating(h)
    BY SMT, <1>5, <2>2 DEF Repeating
  <2> QED BY <2>1, <2>2, WaiterPlace
<1>6. /\ depth[t] > 0 => owner = t /\ lock_count = depth[t] - 1
      /\ owner = t => depth[t] # 0
  BY <1>5 DEF ThreadInv, Counted
<1>7. Restoring'
  <2> FutureSleepers = {}
    BY <1>5, NotRestoring
  <2> QED BY RestoringOver
<1> CASE owner = None
  <2> owner' = h /\ heir' = [heir EXCEPT ![t] = h] /\ sq' = sq
    BY <1>1, <1>4 DEF TryOwnFor
  <2>1. heir' \in [Threads -> Threads \cup {None}] /\ heir'[t] = h /\ \A u \in Threads \ {t} : heir'[u] = heir[u]
    BY Types
  <2>2. (\A u \in Threads \ {t} : SameThread(u)) /\ CondTypeOK'
    <3> \A u \in Threads \ {t} : SameThread(u)
      BY <2>1 DEF SameThread
    <3> CondTypeOK'
      BY <2>1, Types DEF CondTypeOK, ThreadsTypeOK
    <3> QED OBVIOUS
  <2>3. heir[t] = None
    BY DEF HeirInv
  <2> \A u \in Threads \ {t, h} : SameFate(u)
    <3> TAKE u \in Threads \ {t, h}
    <3>1. u # None /\ (Moving(u)' <=> Moving(u))
      BY MutexAssumption
    <3> Pending(u)' <=> Pending(u)
      BY <2>1, <2>3, <3>1 DEF Pending, Waits
    <3> QED BY <3>1 DEF SameFate
  <2>4. ~Waits(h)' /\ Pending(h)' /\ ~Waits(t)'
    BY <2>1 DEF Waits, Pending
  <2>5. lock_count = 0
    BY DEF FreeInv
  <2> ThreadInv(h)'
    BY <2>2, <2>4, <2>5, HeirThread
  <2> ThreadInv(t)'
    BY <1>6, <2>4, BusyThread
  <2> QueuesOnce' /\ FreeInv' /\ HeirInv'
    <3> QueuesOnce' /\ FreeInv'
      BY DEF QueuesOnce, FreeInv
    <3> HeirInv'
      BY <2>1 DEF HeirInv
    <3> QED OBVIOUS
  <2> QED BY <1>7, <2>2, StepOnInv
<1> CASE owner # None
  <2> owner' = owner /\ heir' = heir /\ sq' = Emplace(sq, h)
    BY <1>1, <1>4 DEF TryOwnFor
  <2>1. sq' \in Seq(Threads) /\ Once(sq') /\ \A u : InQueue(sq', u) <=> u = h \/ InQueue(sq, u)
    BY <1>2, EmplaceFacts
  <2>2. (\A u \in Threads \ {t} : SameThread(u)) /\ CondTypeOK'
    <3> \A u \in Threads \ {t} : SameThread(u)
      BY DEF SameThread
    <3> CondTypeOK'
      BY <2>1, Types DEF CondTypeOK, ThreadsTypeOK
    <3> QED OBVIOUS
  <2> \A u \in Threads \ {t, h} : SameFate(u)
    <3> TAKE u \in Threads \ {t, h}
    <3> Moving(u)' <=> Moving(u)
      OBVIOUS
    <3> QED BY <2>1 DEF SameFate, Pending, Waits
  <2> ThreadInv(h)'
    BY <2>1, <2>2, MovedThread
  <2> ThreadInv(t)'
    <3> ~Waits(t)'
      BY <2>1 DEF Waits
    <3> QED BY <1>6, BusyThread
  <2> QueuesOnce' /\ FreeInv' /\ HeirInv'
    BY <2>1 DEF QueuesOnce, FreeInv, HeirInv
  <2> QED BY <1>7, <2>2, StepOnInv
<1> QED OBVIOUS

-----------------------------------------------------------------------------
\* Steps that leave the queues and the owner alone

\* A step that changes neither the queues nor the owner decides about no thread.
LEMMA UnchangedFate ==
    ASSUME UNCHANGED <<owner, sq, lock_count, mutex, csq, rest, heir>>
    PROVE  /\ \A u : SameFate(u) /\ (Waits(u)' <=> Waits(u))
           /\ (QueuesOnce => QueuesOnce') /\ (FreeInv => FreeInv')
<1> \A u : (Moving(u)' <=> Moving(u)) /\ (Waits(u)' <=> Waits(u)) /\ (Pending(u)' <=> Pending(u))
  BY DEF Pending, Waits, Moving
<1> QED BY DEF SameFate, QueuesOnce, FreeInv

\* A step of t that touches neither the queues nor the owner.
LEMMA QuietStep ==
    ASSUME CondInv, NEW t \in Threads, UNCHANGED <<owner, sq, lock_count, mutex, csq, rest, heir>>,
           \A u \in Threads \ {t} : SameThread(u),
           pc[t] \notin HeirPlaces \/ pc'[t] \in HeirPlaces \/ mutex = None \/ ~Pending(t),
           stop => stop', CondTypeOK', Restoring', ThreadInv(t)'
    PROVE  CondInv'
<1> /\ \A u \in Threads \ {t} : SameThread(u) /\ SameFate(u)
    /\ QueuesOnce' /\ FreeInv'
  BY UnchangedFate DEF CondInv
<1> HeirInv'
  <2> CASE mutex # None /\ heir[mutex] # None
    <3> owner = heir[mutex] /\ pc[owner] \in HeirPlaces /\ owner \in Threads
      BY Types DEF CondInv, HeirInv
    <3> pc'[owner] \in HeirPlaces
      <4> CASE owner = t
        BY DEF Pending
      <4> CASE owner # t
        BY DEF SameThread
      <4> QED OBVIOUS
    <3> QED BY DEF HeirInv
  <2> CASE ~(mutex # None /\ heir[mutex] # None)
    BY DEF HeirInv
  <2> QED OBVIOUS
<1> QED BY StepInv

\* sys_mutex_lock finds the mutex owned.
LEMMA LockBusyInv ==
    ASSUME CondInv, NEW t \in Threads, NEW timeout \in Timeouts, LockBusy(t, timeout), UNCHANGED condVars
    PROVE  CondInv'
<1> /\ MayEnter(t) /\ (pc[t] = "user" \/ (pc[t] = "redo_l" /\ timeout = arg[t]))
    /\ owner # None /\ owner # t /\ Goto(t, "l_own") /\ arg' = [arg EXCEPT ![t] = timeout]
    /\ UNCHANGED <<owner, sq, lock_count, mutex, exists, stop, heir, depth, st, cancel>>
    /\ UNCHANGED <<csq, cexists, ret, requeued, rest, held>>
  BY DEF LockBusy, Entering, mutexVars, threadVars, condVars
<1> /\ pc' \in [Threads -> CondPlaces] /\ pc'[t] = "l_own" /\ \A u \in Threads \ {t} : pc'[u] = pc[u]
  BY GotoPlace, PlacesHold
<1> timeout \in Nat /\ arg' \in [Threads -> Nat] /\ arg'[t] = timeout /\ \A u \in Threads \ {t} : arg'[u] = arg[u]
  <2> timeout \in Nat /\ arg \in [Threads -> Nat]
    BY MutexAssumption, Types
  <2> QED OBVIOUS
<1> \A u \in Threads \ {t} : SameThread(u)
  BY DEF SameThread
<1> CondTypeOK'
  BY Types DEF CondTypeOK, ThreadsTypeOK
<1> ThreadInv(t) /\ SameFate(t) /\ (Waits(t)' <=> Waits(t))
  BY UnchangedFate DEF CondInv
<1> /\ pc[t] \notin SqPlaces /\ pc[t] \notin CsqPlaces /\ pc[t] \notin RestPlaces
    /\ pc[t] \notin HeirPlaces /\ pc[t] \notin MutexPlaces /\ pc[t] \notin SleepPlaces
    /\ pc[t] # "l_sleep" /\ pc[t] # "s_all"
  BY SMT DEF SqPlaces, CsqPlaces, RestPlaces, HeirPlaces, SleepPlaces, MutexPlaces
<1> /\ "l_own" \notin HeirPlaces /\ "l_own" \notin SleepPlaces /\ "l_own" \notin MutexPlaces
    /\ "l_own" \notin GivenUpPlaces /\ "l_own" # "l_sleep"
  BY SMT DEF HeirPlaces, SleepPlaces, MutexPlaces, GivenUpPlaces
<1>1. ~Waits(t)
  BY DEF ThreadInv, Placed, Waits
<1>2. depth[t] = 0
  <2> ~(depth[t] > 0) /\ depth[t] \in Nat
    BY Types DEF ThreadInv, Counted
  <2> QED BY SMT
<1> ThreadInv(t)'
  <2> Placed(t)'
    BY <1>1 DEF Placed, Waits
  <2> Fated(t)'
    BY DEF Fated
  <2> Sleeping(t)'
    BY DEF ThreadInv, Sleeping
  <2> Counted(t)'
    BY <1>2 DEF ThreadInv, Counted, Kept
  <2> Stopped(t)' /\ Locked(t)'
    BY DEF ThreadInv, Stopped, Locked
  <2> QED BY DEF ThreadInv
<1> Restoring'
  <2> CASE FutureSleepers = {}
    <3> st[t] # "sleep"
      BY DEF FutureSleepers, ThreadInv, Sleeping, Stopped
    <3> QED BY RestoringOver
  <2> CASE FutureSleepers # {}
    <3>1. t \in FutureSleepers /\ pc[t] = "redo_l" /\ st[t] = "sleep"
      BY DEF MayEnter, FutureSleepers
    <3> FutureSleepers' = FutureSleepers
      BY SMT, <3>1 DEF FutureSleepers
    <3> \A u \in FutureSleepers : owner # u /\ u \in Threads
      BY DEF CondInv, Restoring, FutureSleepers
    <3> \A u \in Threads : /\ pc'[u] \in RestorePlaces /\ arg'[u] = 0
                           /\ pc'[u] \in {"l_own", "l_sleep", "waiting", "c_waiting"} => st'[u] = "sleep"
      BY <3>1 DEF CondInv, Restoring, RestorePlaces
    <3> ~stop /\ mutex = None
      BY DEF CondInv, Restoring
    <3> QED BY DEF Restoring, RestorePlaces
  <2> QED OBVIOUS
<1> QED BY QuietStep

\* sys_mutex_unlock finds waiters.
LEMMA UnlockWaitersInv ==
    ASSUME CondInv, NEW t \in Threads, UNCHANGED condVars, Unlock(t), ~(lock_count > 0), sq # <<>>
    PROVE  CondInv'
<1> /\ MayEnter(t) /\ pc[t] \in {"user", "redo_u"} /\ owner = t /\ Goto(t, "u_lock") /\ lock_count = 0
    /\ UNCHANGED <<owner, sq, lock_count, mutex, exists, stop, arg, heir, depth, st, cancel>>
    /\ UNCHANGED <<csq, cexists, ret, requeued, rest, held>>
  BY DEF Unlock, threadVars, condVars
<1> /\ pc' \in [Threads -> CondPlaces] /\ pc'[t] = "u_lock" /\ \A u \in Threads \ {t} : pc'[u] = pc[u]
  BY GotoPlace, PlacesHold
<1> /\ pc[t] \in IdlePlaces /\ pc[t] \notin ResleepPlaces /\ "u_lock" \notin ResleepPlaces
    /\ pc[t] \notin SleepPlaces \cup {"l_own", "l_sleep", "l_yield", "halted", "redo_l", "redo_c"}
    /\ "u_lock" \notin HeirPlaces /\ "u_lock" \notin SleepPlaces /\ "u_lock" \notin MutexPlaces
    /\ "u_lock" \notin LockingPlaces \cup GivenUpPlaces
    /\ "u_lock" \notin {"again_l", "again_c", "redo_c", "redo_l", "c_resleep", "c_sleep", "c_return",
                        "l_sleep", "resched", "c_resched"}
  BY SMT DEF IdlePlaces, ResleepPlaces, SleepPlaces, HeirPlaces, MutexPlaces, LockingPlaces, GivenUpPlaces
<1> /\ ~Waits(t) /\ pc[t] \notin HeirPlaces /\ mutex # t /\ heir[t] = None /\ rest[t] = <<>> /\ cancel[t] = 0
    /\ depth[t] > 0 => owner = t /\ lock_count = depth[t] - 1
    /\ owner = t => depth[t] # 0
  BY IdleThread
<1>1. depth[t] = 1
  <2> depth[t] \in Nat /\ depth[t] # 0
    BY Types
  <2> QED BY SMT
<1>2. (\A u \in Threads \ {t} : SameThread(u)) /\ CondTypeOK'
  <2> \A u \in Threads \ {t} : SameThread(u)
    BY DEF SameThread
  <2> CondTypeOK'
    BY Types DEF CondTypeOK, ThreadsTypeOK
  <2> QED OBVIOUS
<1>3. st[t] # "sleep" /\ ~Waits(t)'
  BY UnchangedFate DEF CondInv, ThreadInv, Sleeping
<1> ThreadInv(t)'
  <2> Placed(t)'
    BY <1>3 DEF Placed, Waits
  <2> Fated(t)'
    BY <1>1 DEF Fated
  <2> Sleeping(t)'
    BY <1>3 DEF Sleeping
  <2> Counted(t)'
    <3> 1 # 0
      BY SMT
    <3> QED BY <1>1 DEF Counted, Kept
  <2> Stopped(t)' /\ Locked(t)'
    BY DEF Stopped, Locked
  <2> QED BY DEF ThreadInv
<1> Restoring'
  <2> FutureSleepers = {}
    BY NotRestoring
  <2> QED BY <1>2, RestoringOver DEF SameThread
<1> QED BY <1>2, QuietStep

\* The next owner will repeat its call, and so does this one.
LEMMA CondWaitGivesWayInv ==
    ASSUME CondInv, PlainStops, NEW t \in Threads, NEW timeout \in Timeouts, CondWait(t, timeout),
           sq # <<>>, Repeating(NextOwner)
    PROVE  CondInv'
<1> /\ pc[t] = "user" \/ (pc[t] = "redo_c" /\ st[t] # "sleep")
    /\ owner = t /\ mutex = None /\ arg' = [arg EXCEPT ![t] = timeout] /\ lock_count' = 0
    /\ Goto(t, "again_c")
    /\ UNCHANGED <<owner, sq, mutex, exists, stop, heir, depth, st, cancel>>
    /\ UNCHANGED <<csq, cexists, ret, requeued, rest, held>>
  BY DEF CondWait, threadVars
<1> /\ pc' \in [Threads -> CondPlaces] /\ pc'[t] = "again_c" /\ \A u \in Threads \ {t} : pc'[u] = pc[u]
  BY GotoPlace, PlacesHold
<1>1. arg' \in [Threads -> Nat] /\ \A u \in Threads \ {t} : arg'[u] = arg[u]
  <2> timeout \in Nat /\ arg \in [Threads -> Nat]
    BY MutexAssumption, Types
  <2> QED OBVIOUS
<1> stop
  <2> NextOwner \in Threads
    BY NextOwnerFacts
  <2> QED BY DEF Repeating, CondInv, ThreadInv, Stopped
<1> /\ pc[t] \in IdlePlaces /\ "again_c" \in SleepPlaces /\ "again_c" \notin HeirPlaces
    /\ "again_c" \notin MutexPlaces /\ "again_c" \notin LockingPlaces \cup GivenUpPlaces
    /\ "again_c" \notin ResleepPlaces
    /\ "user" \notin SleepPlaces \cup {"l_own", "l_sleep", "l_yield", "halted", "redo_l", "redo_c"}
    /\ "again_c" \notin {"again_l", "redo_l", "redo_c", "c_resleep", "c_sleep", "c_return",
                         "u_lock", "s_all", "l_sleep", "resched", "c_resched"}
  BY SMT DEF IdlePlaces, SleepPlaces, HeirPlaces, MutexPlaces, LockingPlaces, GivenUpPlaces, ResleepPlaces
<1> /\ ~Waits(t) /\ ~Pending(t) /\ pc[t] \notin HeirPlaces
    /\ mutex # t /\ heir[t] = None /\ rest[t] = <<>> /\ cancel[t] = 0
    /\ depth[t] > 0 => owner = t /\ lock_count = depth[t] - 1
    /\ owner = t => depth[t] # 0
  BY IdleThread
<1> depth[t] = 1 /\ lock_count' = lock_count /\ lock_count = depth[t] - 1
  <2> depth[t] \in Nat /\ depth[t] # 0 /\ depth[t] < 2
    BY Types DEF PlainStops
  <2> QED BY SMT
<1> st[t] # "sleep"
  BY DEF CondInv, ThreadInv, Sleeping
<1>2. (\A u \in Threads \ {t} : SameThread(u)) /\ CondTypeOK'
  <2> \A u \in Threads \ {t} : SameThread(u)
    BY <1>1 DEF SameThread
  <2> CondTypeOK'
    BY <1>1, Types DEF CondTypeOK, ThreadsTypeOK
  <2> QED OBVIOUS
<1> ThreadInv(t)'
  <2>1. ~Waits(t)' /\ ~Pending(t)'
    BY UnchangedFate DEF SameFate
  <2> Placed(t)'
    BY <2>1 DEF Placed, Waits
  <2> Fated(t)'
    BY DEF Fated
  <2> Sleeping(t)'
    BY <2>1 DEF Sleeping
  <2> Counted(t)'
    BY DEF Counted, Kept
  <2> Stopped(t)' /\ Locked(t)'
    BY DEF Stopped, Locked
  <2> QED BY DEF ThreadInv
<1> Restoring'
  <2> FutureSleepers = {}
    BY NotRestoring
  <2> QED BY <1>2, RestoringOver DEF SameThread
<1> QED BY <1>2, QuietStep

\* A savestate stops a thread that is in a queue.
LEMMA StoppedInv ==
    ASSUME CondInv, NEW t \in Threads,
           \/ WaitStopped(t) /\ InQueue(sq, t) /\ UNCHANGED condVars
           \/ CondStopped(t) /\ (InQueue(csq, t) \/ InQueue(sq, t))
    PROVE  CondInv'
<1> /\ stop /\ mutex = None
    /\ \/ pc[t] = "waiting" /\ Goto(t, "again_l") /\ InQueue(sq, t) /\ UNCHANGED requeued
       \/ /\ pc[t] \in {"c_waiting", "c_mutex"} /\ Goto(t, "again_c")
          /\ requeued' = [requeued EXCEPT ![t] = InQueue(sq, t)]
          /\ InQueue(csq, t) \/ InQueue(sq, t)
    /\ UNCHANGED <<owner, sq, lock_count, mutex, exists, stop, arg, heir, depth, st, cancel>>
    /\ UNCHANGED <<csq, cexists, ret, rest, held>>
  BY DEF WaitStopped, CondStopped, mutexVars, threadVars, condVars
<1> /\ pc' \in [Threads -> CondPlaces] /\ \A u \in Threads \ {t} : pc'[u] = pc[u]
    /\ \/ pc[t] = "waiting" /\ pc'[t] = "again_l"
       \/ pc[t] \in {"c_waiting", "c_mutex"} /\ pc'[t] = "again_c"
  BY GotoPlace, PlacesHold
<1> /\ requeued' \in [Threads -> BOOLEAN] /\ \A u \in Threads \ {t} : requeued'[u] = requeued[u]
    /\ pc'[t] = "again_c" => (requeued'[t] <=> InQueue(sq, t))
  <2>1. InQueue(sq, t) \in BOOLEAN /\ "again_l" # "again_c" /\ requeued \in [Threads -> BOOLEAN]
    BY SMT, Types DEF InQueue
  <2> CASE requeued' = requeued /\ Goto(t, "again_l")
    <3> pc'[t] = "again_l"
      BY GotoPlace, PlacesHold
    <3> QED BY <2>1
  <2> CASE requeued' = [requeued EXCEPT ![t] = InQueue(sq, t)]
    BY <2>1
  <2> QED OBVIOUS
<1>1. (\A u \in Threads \ {t} : SameThread(u)) /\ CondTypeOK'
  <2> \A u \in Threads \ {t} : SameThread(u)
    BY DEF SameThread
  <2> CondTypeOK'
    BY Types DEF CondTypeOK, ThreadsTypeOK
  <2> QED OBVIOUS
<1> /\ pc'[t] \in SqPlaces /\ (pc[t] \in CsqPlaces => pc'[t] \in CsqPlaces)
    /\ pc'[t] \notin HeirPlaces /\ pc[t] \in SleepPlaces /\ pc'[t] \in SleepPlaces
    /\ pc[t] \in LockingPlaces \cup GivenUpPlaces /\ pc'[t] \notin GivenUpPlaces
    /\ (pc'[t] = "again_c" => pc[t] \in GivenUpPlaces)
    /\ pc[t] \notin MutexPlaces /\ pc'[t] \notin MutexPlaces /\ pc[t] # "s_all"
    /\ pc'[t] \notin ResleepPlaces /\ pc[t] # "l_sleep"
    /\ pc'[t] \notin {"c_return", "redo_c", "redo_l", "u_lock", "l_sleep", "c_sleep", "c_resleep",
                      "resched", "c_resched"}
  BY SMT DEF SqPlaces, CsqPlaces, HeirPlaces, SleepPlaces, LockingPlaces, GivenUpPlaces, MutexPlaces,
             ResleepPlaces
<1> ThreadInv(t) /\ SameFate(t) /\ Waits(t)
  BY UnchangedFate DEF CondInv, Waits
<1>2. owner # t /\ ~Moving(t) /\ depth[t] = 0 /\ ~(depth[t] > 0)
  <2> owner # t /\ ~Moving(t) /\ depth[t] = 0
    BY DEF ThreadInv, Placed, Moving, Counted
  <2> QED BY SMT
<1> ThreadInv(t)'
  <2> Placed(t)'
    BY <1>2 DEF ThreadInv, Placed, SameFate
  <2> Fated(t)'
    BY DEF Fated
  <2> Sleeping(t)'
    BY DEF ThreadInv, Sleeping, SameFate
  <2> Counted(t)'
    BY <1>2 DEF ThreadInv, Counted, Kept
  <2> Stopped(t)' /\ Locked(t)'
    BY DEF ThreadInv, Stopped, Locked
  <2> QED BY DEF ThreadInv
<1> Restoring'
  <2> FutureSleepers = {}
    BY NotRestoring
  <2> QED BY <1>1, RestoringOver DEF SameThread
<1> QED BY <1>1, QuietStep

-----------------------------------------------------------------------------
\* Steps that awake another thread

\* The next owner is awoken and lv2_mutex::mutex unlocked.
LEMMA AwakeInv ==
    ASSUME CondInv, NEW t \in Threads, mutex = t, mutex' = None, rest[t] = <<>>,
           heir' = [heir EXCEPT ![t] = None],
           UNCHANGED <<owner, sq, lock_count, stop, depth, arg, csq, rest, ret, requeued, held>>,
           \A u \in Threads \ {t} :
              /\ pc'[u] = pc[u]
              /\ st'[u] = IF u = heir[t] /\ st[u] = "sleep" THEN "ready" ELSE st[u]
              /\ cancel'[u] = IF u = heir[t] /\ st[u] # "sleep" /\ cancel[u] = 1 THEN 2 ELSE cancel[u],
           pc'[t] \notin ResleepPlaces, CondTypeOK', ThreadInv(t)'
    PROVE  CondInv'
<1> None # t /\ Locked(t)
  BY MutexAssumption DEF CondInv, ThreadInv
<1>1. heir'[t] = None /\ \A u \in Threads \ {t} : heir'[u] = heir[u]
  BY Types
<1>2. FutureSleepers = {}
  BY NotRestoring
<1>3. \A u : ~Moving(u)' /\ ~Moving(u)
  <2> \A u : ~InQueue(<<>>, u)
    BY NotEmpty
  <2> QED BY DEF Moving
<1>4. \A u : (Waits(u)' <=> Waits(u)) /\ (Pending(u)' <=> Waits(u)) /\ (u # heir[t] => (Pending(u) <=> Waits(u)))
  BY <1>3 DEF Waits, Pending
<1> ASSUME NEW u \in Threads \ {t}, u # heir[t] PROVE ThreadInv(u)'
  <2> SameThread(u)
    BY <1>1 DEF SameThread
  <2> SameFate(u)
    BY <1>3, <1>4, MutexAssumption DEF SameFate
  <2> ThreadInv(u) /\ (stop => stop')
    BY DEF CondInv
  <2> QED BY Frame
<1> ASSUME NEW h \in Threads \ {t}, h = heir[t] PROVE ThreadInv(h)'
  <2> ThreadInv(h) /\ owner = h /\ pc[h] \in HeirPlaces /\ None # h
    BY MutexAssumption DEF CondInv, HeirInv
  <2>1. ~Waits(h) /\ Pending(h) /\ ~Pending(h)' /\ ~Waits(h)'
    BY <1>4 DEF ThreadInv, Placed, Pending
  <2>2. /\ pc'[h] = pc[h] /\ arg'[h] = arg[h] /\ depth'[h] = depth[h] /\ held'[h] = held[h]
        /\ ret'[h] = ret[h] /\ requeued'[h] = requeued[h] /\ rest'[h] = rest[h] /\ heir'[h] = heir[h]
    BY <1>1
  <2>3. /\ pc[h] \notin {"again_l", "again_c", "redo_l", "redo_c", "c_resleep", "c_sleep", "c_return",
                         "u_lock", "s_all"}
        /\ pc[h] \notin MutexPlaces
    BY SMT DEF HeirPlaces, MutexPlaces
  <2> Placed(h)'
    BY <2>1 DEF Placed, Waits
  <2> Fated(h)'
    BY <2>2, <2>3 DEF Fated
  <2> Sleeping(h)'
    <3> CASE pc[h] = "l_sleep"
      <4>1. st[h] # "sleep" /\ cancel[h] = 1
        BY <1>2, <2>1 DEF FutureSleepers, ThreadInv, Sleeping
      <4> cancel'[h] = 2 /\ st'[h] # "sleep" /\ "l_sleep" \notin SleepPlaces
        <5> cancel'[h] = 2 /\ st'[h] # "sleep"
          BY <4>1
        <5> "l_sleep" \notin SleepPlaces
          BY SMT DEF SleepPlaces
        <5> QED OBVIOUS
      <4> QED BY <2>1, <2>2 DEF Sleeping
    <3> CASE pc[h] # "l_sleep"
      <4>1. cancel[h] = 0 /\ "ready" # "sleep" /\ 0 # 1
        BY SMT DEF ThreadInv, Sleeping
      <4> cancel'[h] = 0 /\ st'[h] # "sleep"
        BY <4>1
      <4> QED BY <2>1, <2>2 DEF Sleeping
    <3> QED OBVIOUS
  <2> Counted(h)'
    BY <2>2, <2>3 DEF ThreadInv, Counted, Kept
  <2> Stopped(h)' /\ Locked(h)'
    BY <2>2, <2>3 DEF ThreadInv, Stopped, Locked
  <2> QED BY DEF ThreadInv
<1> QueuesOnce' /\ FreeInv' /\ HeirInv'
  BY DEF CondInv, QueuesOnce, FreeInv, HeirInv
<1> Restoring'
  <2> "ready" # "sleep"
    BY SMT
  <2> QED BY <1>2, RestoringOver
<1> QED BY DEF CondInv

\* awake() of the next owner.
LEMMA AwakeStep ==
    ASSUME CondInv, NEW t \in Threads, Awake({heir[t]})
    PROVE  /\ st' \in [Threads -> Status] /\ cancel' \in [Threads -> 0..2]
           /\ \A u \in Threads :
                /\ st'[u] = IF u = heir[t] /\ st[u] = "sleep" THEN "ready" ELSE st[u]
                /\ cancel'[u] = IF u = heir[t] /\ st[u] # "sleep" /\ cancel[u] = 1 THEN 2 ELSE cancel[u]
<1> /\ st \in [Threads -> Status] /\ cancel \in [Threads -> 0..2] /\ "ready" \in Status /\ 2 \in 0..2
  BY Types, SmallNumbers DEF Status
<1> QED BY SMT DEF Awake

\* sleep() of a thread that awakes the next owner.
LEMMA SleepAndAwakeStep ==
    ASSUME CondInv, NEW t \in Threads, SleepAndAwake(t, {heir[t]})
    PROVE  /\ st' \in [Threads -> Status] /\ cancel' \in [Threads -> 0..2] /\ st'[t] = "sleep" /\ cancel'[t] = 0
           /\ \A u \in Threads \ {t} :
                /\ st'[u] = IF u = heir[t] /\ st[u] = "sleep" THEN "ready" ELSE st[u]
                /\ cancel'[u] = IF u = heir[t] /\ st[u] # "sleep" /\ cancel[u] = 1 THEN 2 ELSE cancel[u]
<1> /\ st \in [Threads -> Status] /\ cancel \in [Threads -> 0..2] /\ {"ready", "sleep"} \subseteq Status
    /\ 0 \in 0..2 /\ 2 \in 0..2
  BY Types, SmallNumbers DEF Status
<1> QED BY SMT DEF SleepAndAwake

\* sys_mutex_unlock, sys_cond_signal and sys_cond_signal_all end.
LEMMA CallAwakeInv ==
    ASSUME CondInv, NEW t \in Threads, (UnlockAwake(t) /\ UNCHANGED condVars) \/ SignalAwake(t)
    PROVE  CondInv'
<1>1. Awake({heir[t]})
  BY DEF UnlockAwake, SignalAwake
<1> /\ st' \in [Threads -> Status] /\ cancel' \in [Threads -> 0..2]
    /\ \A u \in Threads :
         /\ st'[u] = IF u = heir[t] /\ st[u] = "sleep" THEN "ready" ELSE st[u]
         /\ cancel'[u] = IF u = heir[t] /\ st[u] # "sleep" /\ cancel[u] = 1 THEN 2 ELSE cancel[u]
  BY <1>1, AwakeStep
<1> /\ pc[t] \in {"u_awake", "s_awake", "s_all"} /\ (pc[t] = "s_all" => rest[t] = <<>>)
    /\ heir' = [heir EXCEPT ![t] = None] /\ mutex' = None /\ Goto(t, "user")
    /\ UNCHANGED <<owner, sq, lock_count, exists, stop, arg, depth>>
    /\ UNCHANGED <<csq, cexists, ret, requeued, rest, held>>
  <2> "u_awake" # "s_all" /\ "s_awake" # "s_all"
    BY SMT
  <2> QED BY DEF UnlockAwake, SignalAwake, condVars
<1> /\ pc' \in [Threads -> CondPlaces] /\ pc'[t] = "user" /\ \A u \in Threads \ {t} : pc'[u] = pc[u]
  BY GotoPlace, PlacesHold
<1>2. heir' \in [Threads -> Threads \cup {None}] /\ heir'[t] = None
  BY Types
<1> /\ pc[t] \in MutexPlaces /\ pc'[t] \in FreePlaces /\ pc'[t] \notin ResleepPlaces
    /\ pc[t] \notin SqPlaces /\ pc[t] \notin CsqPlaces /\ pc[t] \notin RestPlaces
    /\ pc[t] \notin SleepPlaces \cup {"l_own", "l_sleep", "l_yield", "halted", "redo_l", "redo_c"}
    /\ pc[t] \notin HeirPlaces \cup {"c_return"} /\ pc[t] # "l_sleep"
  BY SMT DEF MutexPlaces, FreePlaces, ResleepPlaces, SqPlaces, CsqPlaces, RestPlaces, SleepPlaces,
             HeirPlaces
<1> ThreadInv(t) /\ HeirInv /\ None # t
  BY MutexAssumption DEF CondInv
<1> mutex = t /\ rest[t] = <<>> /\ cancel[t] = 0 /\ st[t] # "sleep" /\ ~Waits(t) /\ heir[t] # t
  BY DEF ThreadInv, Locked, Sleeping, Placed, Waits, HeirInv
<1> st'[t] = st[t] /\ cancel'[t] = cancel[t]
  OBVIOUS
<1> CondTypeOK'
  BY <1>2, Types DEF CondTypeOK, ThreadsTypeOK
<1> ThreadInv(t)'
  <2> ~Waits(t)'
    BY DEF Waits, Moving
  <2> /\ depth[t] > 0 => owner = t /\ lock_count = depth[t] - 1
      /\ owner = t => depth[t] # 0
    BY DEF ThreadInv, Counted
  <2> QED BY <1>2, FreeThread
<1> QED BY AwakeInv

\* sys_cond_wait goes to sleep and awakes the next owner.
LEMMA CondSleepInv ==
    ASSUME CondInv, NEW t \in Threads, CondSleep(t)
    PROVE  CondInv'
<1> /\ pc[t] = "c_sleep" /\ SleepAndAwake(t, {heir[t]})
    /\ heir' = [heir EXCEPT ![t] = None] /\ mutex' = None /\ Goto(t, "c_waiting")
    /\ UNCHANGED <<owner, sq, lock_count, exists, stop, arg, depth>>
    /\ UNCHANGED <<csq, cexists, ret, requeued, rest, held>>
  BY DEF CondSleep, condVars
<1> /\ pc' \in [Threads -> CondPlaces] /\ pc'[t] = "c_waiting" /\ \A u \in Threads \ {t} : pc'[u] = pc[u]
  BY GotoPlace, PlacesHold
<1>1. heir' \in [Threads -> Threads \cup {None}] /\ heir'[t] = None
  BY Types
<1> /\ pc[t] \in MutexPlaces /\ pc[t] \notin SqPlaces /\ pc[t] \in GivenUpPlaces /\ pc[t] # "s_all"
    /\ "c_waiting" \notin ResleepPlaces /\ "c_waiting" \in CsqPlaces /\ "c_waiting" \in SleepPlaces
    /\ "c_waiting" \notin MutexPlaces /\ "c_waiting" \in GivenUpPlaces
    /\ "c_waiting" \notin {"again_l", "again_c", "redo_l", "redo_c", "c_resleep", "c_sleep", "c_return",
                           "u_lock", "s_all", "l_sleep", "resched", "c_resched"}
  BY SMT DEF MutexPlaces, SqPlaces, ResleepPlaces, CsqPlaces, SleepPlaces, GivenUpPlaces
<1>2. ThreadInv(t) /\ None # t
  BY MutexAssumption DEF CondInv
<1> mutex = t /\ rest[t] = <<>> /\ InQueue(csq, t) /\ ~InQueue(sq, t) /\ owner # t /\ depth[t] = 0
    /\ held[t] > 0 /\ ret[t] = held[t] - 1 /\ ~(depth[t] > 0)
  <2> mutex = t /\ rest[t] = <<>> /\ InQueue(csq, t) /\ ~InQueue(sq, t) /\ owner # t /\ depth[t] = 0
      /\ held[t] > 0 /\ ret[t] = held[t] - 1
    BY <1>2 DEF ThreadInv, Locked, Fated, Placed, Waits, Counted
  <2> QED BY SmallNumbers
<1> /\ st' \in [Threads -> Status] /\ cancel' \in [Threads -> 0..2] /\ st'[t] = "sleep" /\ cancel'[t] = 0
    /\ \A u \in Threads \ {t} :
         /\ st'[u] = IF u = heir[t] /\ st[u] = "sleep" THEN "ready" ELSE st[u]
         /\ cancel'[u] = IF u = heir[t] /\ st[u] # "sleep" /\ cancel[u] = 1 THEN 2 ELSE cancel[u]
  BY SleepAndAwakeStep
<1> CondTypeOK'
  BY <1>1, Types DEF CondTypeOK, ThreadsTypeOK
<1> ThreadInv(t)'
  <2> InQueue(csq', t) /\ ~InQueue(sq', t) /\ ~Moving(t)' /\ Waits(t)' /\ Pending(t)' /\ owner' # t
    BY DEF Moving, Waits, Pending
  <2> Placed(t)'
    BY DEF Placed
  <2> Fated(t)'
    BY DEF Fated
  <2> Sleeping(t)'
    BY DEF Sleeping
  <2> Counted(t)'
    BY DEF Counted, Kept
  <2> Stopped(t)' /\ Locked(t)'
    BY <1>1, <1>2 DEF Stopped, Locked
  <2> QED BY DEF ThreadInv
<1> QED BY AwakeInv

-----------------------------------------------------------------------------
\* Steps that take and release the mutex

\* What is decided about a thread when only the queue of the mutex changes.
LEMMA SqFate ==
    ASSUME NEW u, InQueue(sq', u) <=> InQueue(sq, u), owner' = u <=> owner = u,
           owner = u => lock_count' = lock_count, UNCHANGED <<mutex, csq, rest, heir>>
    PROVE  SameFate(u)
<1> Moving(u)' <=> Moving(u)
  BY DEF Moving
<1> QED BY DEF SameFate, Pending, Waits

\* sys_mutex_unlock gives up one level of the lock, or a mutex nobody waits for.
LEMMA ReleaseInv ==
    ASSUME CondInv, NEW t \in Threads, UNCHANGED condVars,
           \/ Unlock(t) /\ (lock_count > 0 \/ sq = <<>>)
           \/ UnlockReown(t) /\ sq = <<>>
    PROVE  CondInv'
<1>1. Counted(t) /\ Fated(t) /\ Sleeping(t) /\ HeirInv /\ QueuesOnce /\ None # t
  BY MutexAssumption DEF CondInv, ThreadInv
<1>2. lock_count \in Nat /\ MaxCount \in Nat /\ lock_count <= MaxCount /\ depth[t] \in Nat
  BY SMT, Types, MutexAssumption
<1> /\ (pc[t] \in {"user", "redo_u"} /\ MayEnter(t)) \/ pc[t] = "u_lock"
    /\ owner = t /\ Released(t) /\ Goto(t, "user")
    /\ \/ lock_count > 0 /\ lock_count' = lock_count - 1 /\ owner' = owner
       \/ ~(lock_count > 0) /\ sq = <<>> /\ owner' = None /\ lock_count' = lock_count
    /\ UNCHANGED <<sq, mutex, exists, stop, arg, heir, st, cancel>>
    /\ UNCHANGED <<csq, cexists, ret, requeued, rest, held>>
  <2> CASE Unlock(t)
    <3> lock_count > 0 => lock_count # 0
      BY SMT
    <3> lock_count = 0 => ~(lock_count > 0)
      BY SMT
    <3> QED BY DEF Unlock, UnlockReown, threadVars, condVars
  <2> CASE UnlockReown(t) /\ sq = <<>>
    <3>1. pc[t] = "u_lock" /\ owner = t /\ depth[t] = 1
      BY <1>1 DEF UnlockReown, Fated
    <3>2. lock_count = depth[t] - 1
      BY SMT, <1>1, <3>1 DEF Counted
    <3> ~(lock_count > 0)
      BY SMT, <3>1, <3>2
    <3> QED BY <3>1 DEF UnlockReown, Reown, threadVars, condVars
  <2> QED OBVIOUS
<1>3. /\ pc' \in [Threads -> CondPlaces] /\ pc'[t] = "user" /\ \A u \in Threads \ {t} : pc'[u] = pc[u]
  BY GotoPlace, PlacesHold
<1>4. /\ pc[t] \in IdlePlaces /\ pc'[t] \in FreePlaces /\ pc'[t] \notin ResleepPlaces
      /\ pc[t] \notin ResleepPlaces /\ "u_lock" \notin RestorePlaces
      /\ pc[t] \notin SleepPlaces \cup {"l_own", "l_sleep", "l_yield", "halted", "redo_l", "redo_c"}
  BY SMT, <1>3 DEF IdlePlaces, FreePlaces, ResleepPlaces, RestorePlaces, SleepPlaces
<1>5. /\ ~Waits(t) /\ pc[t] \notin HeirPlaces
      /\ mutex # t /\ heir[t] = None /\ rest[t] = <<>> /\ cancel[t] = 0
      /\ depth[t] > 0 => owner = t /\ lock_count = depth[t] - 1
      /\ owner = t => depth[t] # 0
  BY <1>4, IdleThread
<1>6. /\ depth' \in [Threads -> Nat] /\ \A u \in Threads \ {t} : depth'[u] = depth[u]
      /\ lock_count' \in 0..MaxCount /\ (owner' = None => sq = <<>> /\ lock_count' = 0)
      /\ depth'[t] > 0 => owner' = t /\ lock_count' = depth'[t] - 1
      /\ owner' = t => depth'[t] # 0
  <2>1. depth \in [Threads -> Nat] /\ depth[t] \in Nat \ {0} /\ lock_count = depth[t] - 1
    BY SMT, <1>2, <1>5, Types
  <2>2. depth' \in [Threads -> Nat] /\ depth'[t] = depth[t] - 1 /\ \A u \in Threads \ {t} : depth'[u] = depth[u]
    BY SMT, <2>1 DEF Released
  <2> CASE lock_count > 0 /\ lock_count' = lock_count - 1 /\ owner' = owner
    <3> lock_count' \in 0..MaxCount /\ lock_count' = depth'[t] - 1 /\ depth'[t] # 0
      BY SMT, <1>2, <2>1, <2>2
    <3> QED BY <1>1, <2>2
  <2> CASE ~(lock_count > 0) /\ sq = <<>> /\ owner' = None /\ lock_count' = lock_count
    <3> lock_count' = 0 /\ 0 \in 0..MaxCount /\ ~(depth'[t] > 0)
      BY SMT, <1>2, <2>1, <2>2
    <3> QED BY <1>1, <2>2
  <2> QED OBVIOUS
<1>7. (\A u \in Threads \ {t} : SameThread(u)) /\ CondTypeOK'
  <2> \A u \in Threads \ {t} : SameThread(u)
    BY <1>3, <1>6 DEF SameThread
  <2>1. owner' \in Threads \cup {None}
    OBVIOUS
  <2> CondTypeOK'
    BY <1>3, <1>6, <2>1, Types DEF CondTypeOK, ThreadsTypeOK
  <2> QED OBVIOUS
<1> \A u \in Threads \ {t} : SameFate(u)
  BY MutexAssumption, SqFate
<1> QueuesOnce' /\ FreeInv' /\ HeirInv'
  BY <1>1, <1>5, <1>6 DEF QueuesOnce, FreeInv, HeirInv
<1> ThreadInv(t)'
  <2> ~Waits(t)'
    BY <1>5 DEF Waits, Moving
  <2> st[t] # "sleep"
    BY <1>1, <1>4 DEF Sleeping
  <2> QED BY <1>4, <1>5, <1>6, FreeThread
<1> Restoring'
  <2> FutureSleepers = {}
    BY <1>4, NotRestoring
  <2> QED BY <1>4, <1>7, RestoringOver DEF SameThread
<1> QED BY <1>7, StepInv

\* The call of t returns.
LEMMA ReturnStep ==
    ASSUME CondInv, NEW t \in Threads, Return(t)
    PROVE  /\ pc' \in [Threads -> CondPlaces] /\ pc'[t] = "user" /\ \A u \in Threads \ {t} : pc'[u] = pc[u]
           /\ arg' \in [Threads -> Nat] /\ \A u \in Threads \ {t} : arg'[u] = arg[u]
<1> pc' \in [Threads -> CondPlaces] /\ pc'[t] = "user" /\ \A u \in Threads \ {t} : pc'[u] = pc[u]
  BY GotoPlace, PlacesHold DEF Return
<1> arg' = [arg EXCEPT ![t] = 0] /\ arg \in [Threads -> Nat] /\ 0 \in Nat
  BY Types DEF Return
<1> QED OBVIOUS

\* A timed lock leaves the queue.
LEMMA ExpiredInv ==
    ASSUME CondInv, NEW t \in Threads, UNCHANGED condVars, WaitExpired(t), InQueue(sq, t)
    PROVE  CondInv'
<1>1. /\ pc[t] = "l_expired" /\ mutex = None /\ sq' = Unqueue(sq, t) /\ Return(t)
      /\ UNCHANGED <<owner, lock_count, mutex, exists, stop, heir, depth, st, cancel>>
      /\ UNCHANGED <<csq, cexists, ret, requeued, rest, held>>
  BY DEF WaitExpired, threadVars, condVars
<1> USE <1>1
<1>2. /\ pc' \in [Threads -> CondPlaces] /\ pc'[t] = "user" /\ \A u \in Threads \ {t} : pc'[u] = pc[u]
      /\ arg' \in [Threads -> Nat] /\ \A u \in Threads \ {t} : arg'[u] = arg[u]
  BY ReturnStep
<1> USE <1>2
<1>3. /\ pc'[t] \in FreePlaces /\ pc[t] \in LockingPlaces /\ pc[t] \notin RestorePlaces /\ pc'[t] \notin ResleepPlaces
      /\ pc[t] \notin MutexPlaces /\ pc[t] # "s_all" /\ pc[t] # "l_sleep"
      /\ pc[t] \notin SleepPlaces \cup {"l_own", "l_sleep", "l_yield", "halted", "redo_l", "redo_c"}
  BY SMT DEF FreePlaces, LockingPlaces, RestorePlaces, ResleepPlaces, MutexPlaces, SleepPlaces
<1> USE <1>3
<1>4. /\ ThreadInv(t) /\ Waits(t) /\ None # t
  BY MutexAssumption DEF CondInv, Waits
<1>5. /\ ~InQueue(csq, t) /\ owner # t /\ depth[t] = 0 /\ heir[t] = None /\ rest[t] = <<>>
      /\ cancel[t] = 0 /\ st[t] # "sleep" /\ owner # None
  BY <1>4, NotEmpty DEF CondInv, FreeInv, ThreadInv, Placed, Counted, Locked, Sleeping
<1> USE <1>5
<1>6. sq' \in Seq(Threads) /\ Once(sq') /\ \A u : InQueue(sq', u) <=> u # t /\ InQueue(sq, u)
  <2> Once(sq) /\ sq \in Seq(Threads)
    BY Types DEF CondInv, QueuesOnce
  <2> QED BY UnqueueFacts
<1> USE <1>6
<1>7. (\A u \in Threads \ {t} : SameThread(u)) /\ CondTypeOK'
  <2> \A u \in Threads \ {t} : SameThread(u)
    BY DEF SameThread
  <2> CondTypeOK'
    BY Types DEF CondTypeOK, ThreadsTypeOK
  <2> QED OBVIOUS
<1> \A u \in Threads \ {t} : SameFate(u)
  BY SqFate
<1> QueuesOnce' /\ FreeInv' /\ HeirInv'
  BY DEF CondInv, QueuesOnce, FreeInv, HeirInv
<1> ThreadInv(t)'
  <2> ~Waits(t)'
    BY DEF Waits, Moving
  <2> ~(depth[t] > 0)
    BY SMT
  <2> QED BY <1>4, FreeThread
<1> Restoring'
  <2> FutureSleepers = {}
    BY NotRestoring
  <2> QED BY <1>7, RestoringOver DEF SameThread
<1> QED BY <1>7, StepInv

\* sys_cond_wait returns with the recursive value restored.
LEMMA CondReturnInv ==
    ASSUME CondInv, NEW t \in Threads, CondReturn(t)
    PROVE  CondInv'
<1> /\ pc[t] = "c_return" /\ lock_count' = ret[t] /\ ret' = [ret EXCEPT ![t] = 0]
    /\ depth' = [depth EXCEPT ![t] = held[t]] /\ held' = [held EXCEPT ![t] = 0] /\ Return(t)
    /\ UNCHANGED <<owner, sq, mutex, exists, stop, heir, st, cancel>>
    /\ UNCHANGED <<csq, cexists, requeued, rest>>
  BY DEF CondReturn, threadVars
<1> /\ pc' \in [Threads -> CondPlaces] /\ pc'[t] = "user" /\ \A u \in Threads \ {t} : pc'[u] = pc[u]
    /\ arg' \in [Threads -> Nat] /\ \A u \in Threads \ {t} : arg'[u] = arg[u]
  BY ReturnStep
<1> /\ depth' \in [Threads -> Nat] /\ held' \in [Threads -> Nat] /\ ret' \in [Threads -> 0..MaxCount]
    /\ lock_count' \in 0..MaxCount /\ depth'[t] = held[t]
    /\ \A u \in Threads \ {t} : depth'[u] = depth[u] /\ held'[u] = held[u] /\ ret'[u] = ret[u]
  <2>1. /\ depth \in [Threads -> Nat] /\ held \in [Threads -> Nat] /\ ret \in [Threads -> 0..MaxCount]
        /\ MaxCount \in Nat
    BY Types, MutexAssumption
  <2> 0 \in 0..MaxCount /\ 0 \in Nat
    BY SMT, <2>1
  <2> QED BY <2>1
<1> /\ pc[t] \notin RestorePlaces /\ pc[t] \notin MutexPlaces /\ pc[t] \in GivenUpPlaces
    /\ pc[t] \notin SqPlaces /\ pc[t] \notin CsqPlaces /\ pc[t] \notin RestPlaces /\ pc[t] \notin HeirPlaces
    /\ pc[t] \notin SleepPlaces \cup {"l_own", "l_sleep", "l_yield", "halted", "redo_l", "redo_c"}
    /\ pc[t] # "s_all" /\ pc[t] # "l_sleep" /\ pc'[t] \in FreePlaces /\ pc'[t] \notin ResleepPlaces
  BY SMT DEF RestorePlaces, MutexPlaces, GivenUpPlaces, SqPlaces, CsqPlaces, RestPlaces, HeirPlaces,
             SleepPlaces, FreePlaces, ResleepPlaces
<1>1. ThreadInv(t) /\ HeirInv /\ FreeInv /\ QueuesOnce /\ None # t
  BY MutexAssumption DEF CondInv
<1> /\ owner = t /\ held[t] > 0 /\ ret[t] = held[t] - 1 /\ heir[t] = None /\ rest[t] = <<>>
    /\ cancel[t] = 0 /\ st[t] # "sleep" /\ mutex # t /\ ~Waits(t)
  BY <1>1 DEF ThreadInv, Placed, Fated, Counted, Locked, Sleeping, Waits
<1>2. (\A u \in Threads \ {t} : SameThread(u)) /\ CondTypeOK'
  <2> \A u \in Threads \ {t} : SameThread(u)
    BY DEF SameThread
  <2> CondTypeOK'
    BY Types DEF CondTypeOK, ThreadsTypeOK
  <2> QED OBVIOUS
<1> \A u \in Threads \ {t} : SameFate(u)
  BY SqFate
<1> QueuesOnce' /\ FreeInv' /\ HeirInv'
  BY <1>1 DEF QueuesOnce, FreeInv, HeirInv
<1> ThreadInv(t)'
  <2> ~Waits(t)'
    BY DEF Waits, Moving
  <2> depth'[t] # 0 /\ lock_count' = depth'[t] - 1
    BY SMT
  <2> QED BY FreeThread
<1> Restoring'
  <2> FutureSleepers = {}
    BY NotRestoring
  <2> QED BY <1>2, RestoringOver DEF SameThread
<1> QED BY <1>2, StepInv

\* A thread that has to sleep again waits for a mutex that another one has, or for the
\* condition variable.
LEMMA FutureSleeper ==
    ASSUME CondInv, NEW t \in Threads, pc[t] \in ResleepPlaces, st[t] = "sleep"
    PROVE  /\ t \in FutureSleepers /\ ~stop /\ mutex = None /\ arg[t] = 0
           /\ owner # t /\ (owner = None => pc[t] = "redo_c" /\ ~requeued[t])
<1> t \in FutureSleepers
  BY DEF FutureSleepers, ResleepPlaces
<1> QED BY DEF CondInv, Restoring

\* t has locked the mutex once more.
LEMMA DepthStep ==
    ASSUME CondInv, NEW t \in Threads, depth' = [depth EXCEPT ![t] = @ + 1]
    PROVE  /\ depth' \in [Threads -> Nat] /\ depth'[t] = depth[t] + 1
           /\ \A u \in Threads \ {t} : depth'[u] = depth[u]
<1> depth \in [Threads -> Nat]
  BY Types
<1> QED BY SMT

\* try_lock() sets owner or counts in lock_count, and its caller counts the depth.
LEMMA CountStep ==
    ASSUME NEW d \in Nat, NEW c \in 0..MaxCount
    PROVE  /\ ~(d > 0) => d + 1 # 0 /\ 0 = (d + 1) - 1
           /\ d # 0 => d > 0
           /\ c = d - 1 /\ c < MaxCount => d + 1 # 0 /\ c + 1 \in 0..MaxCount /\ c + 1 = (d + 1) - 1
BY SMT, MutexAssumption

\* sys_mutex_lock or sys_mutex_trylock takes a free mutex, or locks it once more.
LEMMA TakeInv ==
    ASSUME CondInv, NEW t \in Threads, UNCHANGED condVars,
           \/ \E timeout \in Timeouts : LockAtOnce(t, timeout)
           \/ LockOwn(t) /\ owner = None
           \/ TryLock(t)
    PROVE  CondInv'
<1> /\ (pc[t] \in {"user", "redo_l"} /\ MayEnter(t)) \/ (pc[t] = "l_own" /\ owner = None)
    /\ TryLockOk(t) /\ (Return(t) \/ (pc' = pc /\ arg' = arg /\ pc[t] = "user"))
    /\ depth' = [depth EXCEPT ![t] = @ + 1]
    /\ UNCHANGED <<sq, mutex, exists, stop, heir, st, cancel>>
    /\ UNCHANGED <<csq, cexists, ret, requeued, rest, held>>
  BY DEF LockAtOnce, LockOwn, TryLock, Entering, TryLockOk, ReturnLocked, threadVars, condVars
<1> /\ pc' \in [Threads -> CondPlaces] /\ pc'[t] = "user" /\ \A u \in Threads \ {t} : pc'[u] = pc[u]
    /\ arg' \in [Threads -> Nat] /\ \A u \in Threads \ {t} : arg'[u] = arg[u]
  BY ReturnStep, Types
<1> depth' \in [Threads -> Nat] /\ depth'[t] = depth[t] + 1 /\ \A u \in Threads \ {t} : depth'[u] = depth[u]
  BY DepthStep
<1> /\ pc[t] \in IdlePlaces /\ pc'[t] \in FreePlaces /\ pc'[t] \notin ResleepPlaces
    /\ "user" \notin ResleepPlaces /\ {"redo_l", "l_own"} \subseteq ResleepPlaces
    /\ "user" \notin SleepPlaces \cup {"l_own", "l_sleep", "l_yield", "halted", "redo_l", "redo_c"}
    /\ "l_own" # "redo_c" /\ "redo_l" # "redo_c"
  BY SMT DEF IdlePlaces, FreePlaces, ResleepPlaces, SleepPlaces
<1> /\ ~Waits(t) /\ ~Pending(t) /\ pc[t] \notin HeirPlaces
    /\ mutex # t /\ heir[t] = None /\ rest[t] = <<>> /\ cancel[t] = 0
    /\ depth[t] > 0 => owner = t /\ lock_count = depth[t] - 1
    /\ owner = t => depth[t] # 0
  BY IdleThread
<1> owner = None \/ owner = t
  BY DEF TryLockOk
<1> Sleeping(t) /\ FreeInv /\ HeirInv /\ QueuesOnce /\ None # t
  BY MutexAssumption DEF CondInv, ThreadInv
<1>1. st[t] # "sleep"
  BY FutureSleeper DEF Sleeping
<1>2. FutureSleepers = {}
  BY <1>1, NotRestoring
<1> /\ owner' = t /\ lock_count' \in 0..MaxCount
    /\ depth'[t] # 0 /\ lock_count' = depth'[t] - 1
  <2> depth[t] \in Nat /\ lock_count \in 0..MaxCount
    BY Types
  <2> CASE owner = None /\ owner' = t /\ lock_count' = lock_count
    <3> ~(depth[t] > 0) /\ lock_count = 0
      BY DEF FreeInv
    <3> QED BY CountStep
  <2> CASE owner = t /\ lock_count < MaxCount /\ lock_count' = lock_count + 1 /\ owner' = owner
    <3> depth[t] > 0
      BY CountStep
    <3> depth[t] + 1 # 0 /\ lock_count + 1 \in 0..MaxCount /\ lock_count + 1 = (depth[t] + 1) - 1
      BY CountStep
    <3> QED OBVIOUS
  <2> QED BY DEF TryLockOk
<1>3. (\A u \in Threads \ {t} : SameThread(u)) /\ CondTypeOK'
  <2> \A u \in Threads \ {t} : SameThread(u)
    BY DEF SameThread
  <2> CondTypeOK'
    BY Types DEF CondTypeOK, ThreadsTypeOK
  <2> QED OBVIOUS
<1> \A u \in Threads \ {t} : SameFate(u)
  BY MutexAssumption, SqFate
<1> QueuesOnce' /\ FreeInv' /\ HeirInv'
  BY DEF QueuesOnce, FreeInv, HeirInv
<1> ThreadInv(t)'
  <2> ~Waits(t)'
    BY DEF Waits, Moving
  <2> QED BY <1>1, FreeThread
<1> Restoring'
  BY <1>2, <1>3, RestoringOver DEF SameThread
<1> QED BY <1>3, StepInv

-----------------------------------------------------------------------------
\* Steps to sleep

\* What sleep(), check_state() and the scheduler do to one thread.
LEMMA StatusStep ==
    ASSUME CondInv, NEW t \in Threads, Resume(t) \/ SelfAwake(t) \/ Sleep(t) \/ UNCHANGED threadVars
    PROVE  /\ st' \in [Threads -> Status] /\ cancel' \in [Threads -> 0..2]
           /\ \A u \in Threads \ {t} : st'[u] = st[u] /\ cancel'[u] = cancel[u]
           /\ Resume(t) => st[t] = "ready" /\ st'[t] = "onproc" /\ cancel' = cancel
           /\ SelfAwake(t) => st'[t] # "sleep" /\ cancel' = cancel
           /\ Sleep(t) => st'[t] = "sleep" /\ cancel'[t] = 0
           /\ UNCHANGED threadVars => st' = st /\ cancel' = cancel
<1> st \in [Threads -> Status] /\ cancel \in [Threads -> 0..2]
  BY Types
<1> ASSUME Resume(t)
    PROVE  /\ st' \in [Threads -> Status] /\ cancel' = cancel
           /\ \A u \in Threads \ {t} : st'[u] = st[u]
           /\ st[t] = "ready" /\ st'[t] = "onproc"
  BY SMT DEF Resume, Status
<1> ASSUME SelfAwake(t)
    PROVE  /\ st' \in [Threads -> Status] /\ cancel' = cancel
           /\ \A u \in Threads \ {t} : st'[u] = st[u]
           /\ st'[t] # "sleep"
  BY SMT DEF SelfAwake, Status
<1> ASSUME Sleep(t)
    PROVE  /\ st' \in [Threads -> Status] /\ cancel' \in [Threads -> 0..2]
           /\ \A u \in Threads \ {t} : st'[u] = st[u] /\ cancel'[u] = cancel[u]
           /\ st'[t] = "sleep" /\ cancel'[t] = 0
  BY SMT DEF Sleep, Asleep, Status
<1> ASSUME UNCHANGED threadVars PROVE st' = st /\ cancel' = cancel
  BY DEF threadVars
<1> QED OBVIOUS

\* It sleeps until it is made the owner.
LEMMA CondResleepInv ==
    ASSUME CondInv, NEW t \in Threads, CondResleep(t)
    PROVE  CondInv'
<1> /\ pc[t] = "c_resleep" /\ Sleep(t) /\ mutex' = None /\ Goto(t, "c_mutex")
    /\ UNCHANGED <<owner, sq, lock_count, exists, stop, arg, heir, depth>>
    /\ UNCHANGED <<csq, cexists, ret, requeued, rest, held>>
  BY DEF CondResleep, condVars
<1> /\ pc' \in [Threads -> CondPlaces] /\ pc'[t] = "c_mutex" /\ \A u \in Threads \ {t} : pc'[u] = pc[u]
  BY GotoPlace, PlacesHold
<1> /\ st' \in [Threads -> Status] /\ cancel' \in [Threads -> 0..2] /\ st'[t] = "sleep" /\ cancel'[t] = 0
    /\ \A u \in Threads \ {t} : st'[u] = st[u] /\ cancel'[u] = cancel[u]
  BY StatusStep
<1> /\ pc[t] \in MutexPlaces /\ pc[t] \notin CsqPlaces /\ pc[t] \in GivenUpPlaces /\ pc[t] # "s_all"
    /\ "c_mutex" \notin ResleepPlaces /\ "c_mutex" \in SqPlaces /\ "c_mutex" \in SleepPlaces
    /\ "c_mutex" \notin MutexPlaces /\ "c_mutex" \in GivenUpPlaces
    /\ "c_mutex" \notin {"again_l", "again_c", "redo_l", "redo_c", "c_resleep", "c_sleep", "c_return",
                         "u_lock", "s_all", "l_sleep", "resched", "c_resched"}
  BY SMT DEF MutexPlaces, SqPlaces, ResleepPlaces, CsqPlaces, SleepPlaces, GivenUpPlaces
<1>1. ThreadInv(t) /\ None # t
  BY MutexAssumption DEF CondInv
<1> mutex = t /\ rest[t] = <<>> /\ heir[t] = None /\ ~InQueue(csq, t) /\ InQueue(sq, t) /\ owner # t /\ depth[t] = 0
    /\ held[t] > 0 /\ ret[t] = held[t] - 1 /\ ~(depth[t] > 0)
  <2> mutex = t /\ rest[t] = <<>> /\ heir[t] = None /\ ~InQueue(csq, t) /\ InQueue(sq, t) /\ owner # t /\ depth[t] = 0
      /\ held[t] > 0 /\ ret[t] = held[t] - 1
    BY <1>1 DEF ThreadInv, Locked, Fated, Placed, Waits, Counted
  <2> QED BY SMT
<1> heir' = [heir EXCEPT ![t] = None]
  <2> heir \in [Threads -> Threads \cup {None}]
    BY Types
  <2> QED BY SMT
<1> CondTypeOK'
  BY Types DEF CondTypeOK, ThreadsTypeOK
<1> ThreadInv(t)'
  <2> ~InQueue(csq', t) /\ InQueue(sq', t) /\ ~Moving(t)' /\ Waits(t)' /\ Pending(t)' /\ owner' # t
    BY DEF Moving, Waits, Pending
  <2> Placed(t)'
    BY DEF Placed
  <2> Fated(t)'
    BY DEF Fated
  <2> Sleeping(t)'
    BY DEF Sleeping
  <2> Counted(t)'
    BY DEF Counted, Kept
  <2> Stopped(t)' /\ Locked(t)'
    BY <1>1 DEF Stopped, Locked
  <2> QED BY DEF ThreadInv
<1> \A u \in Threads \ {t} :
      /\ pc'[u] = pc[u]
      /\ st'[u] = IF u = heir[t] /\ st[u] = "sleep" THEN "ready" ELSE st[u]
      /\ cancel'[u] = IF u = heir[t] /\ st[u] # "sleep" /\ cancel[u] = 1 THEN 2 ELSE cancel[u]
  BY MutexAssumption
<1> QED BY AwakeInv

\* One of the threads that have to sleep again goes on with that.
LEMMA RestoringGoesOn ==
    ASSUME CondInv, NEW t \in Threads, FutureSleepers = {} \/ t \in FutureSleepers,
           UNCHANGED <<owner, stop, mutex>>, \A u \in Threads \ {t} : SameThread(u),
           pc'[t] \in {"l_sleep", "waiting", "c_waiting"}, arg'[t] = arg[t],
           \/ st'[t] = "sleep" /\ pc'[t] # "l_sleep"
           \/ st'[t] = st[t] /\ pc'[t] = "l_sleep" /\ pc[t] = "l_own",
           pc'[t] = "l_sleep" => owner # None
    PROVE  Restoring'
<1>1. /\ pc'[t] \in RestorePlaces /\ pc'[t] # "redo_c" /\ "l_own" \in ResleepPlaces
      /\ (pc'[t] = "l_sleep" \/ pc'[t] \notin ResleepPlaces)
  BY SMT DEF RestorePlaces, ResleepPlaces
<1> CASE FutureSleepers = {}
  <2> pc'[t] \notin ResleepPlaces \/ st'[t] # "sleep" \/ pc'[t] = "l_sleep"
    BY <1>1
  <2>1. FutureSleepers' \subseteq {t}
    BY DEF FutureSleepers, SameThread
  <2> CASE FutureSleepers' = {}
    BY DEF Restoring
  <2> CASE FutureSleepers' # {}
    <3> pc'[t] = "l_sleep" /\ st'[t] = "sleep"
      BY <1>1, <2>1 DEF FutureSleepers, ResleepPlaces
    <3> QED BY DEF FutureSleepers
  <2> QED OBVIOUS
<1> CASE t \in FutureSleepers
  <2>1. FutureSleepers' \subseteq FutureSleepers
    BY DEF FutureSleepers, SameThread
  <2> /\ ~stop /\ mutex = None
      /\ \A u \in Threads :
           /\ pc[u] \in RestorePlaces /\ arg[u] = 0
           /\ pc[u] \in {"l_own", "l_sleep", "waiting", "c_waiting"} => st[u] = "sleep"
      /\ \A u \in FutureSleepers :
           /\ owner # u
           /\ owner = None => pc[u] = "redo_c" /\ ~requeued[u]
    BY DEF CondInv, Restoring, RestorePlaces
  <2>2. st'[t] = "sleep"
    OBVIOUS
  <2> \A u \in Threads :
           /\ pc'[u] \in RestorePlaces /\ arg'[u] = 0
           /\ pc'[u] \in {"l_own", "l_sleep", "waiting", "c_waiting"} => st'[u] = "sleep"
    <3> TAKE u \in Threads
    <3> CASE u = t
      BY <1>1, <2>2
    <3> CASE u # t
      BY DEF SameThread
    <3> QED OBVIOUS
  <2> \A u \in FutureSleepers' :
           /\ owner # u
           /\ owner = None => pc'[u] = "redo_c" /\ ~requeued'[u]
    <3> t \in FutureSleepers' => owner # None
      BY <1>1 DEF FutureSleepers, ResleepPlaces
    <3> ASSUME NEW u \in FutureSleepers', u # t
        PROVE  owner # u /\ (owner = None => pc'[u] = "redo_c" /\ ~requeued'[u])
      <4> u \in FutureSleepers /\ u \in Threads
        BY <2>1 DEF FutureSleepers
      <4> QED BY DEF SameThread
    <3> QED OBVIOUS
  <2> QED BY DEF Restoring, RestorePlaces
<1> QED OBVIOUS

\* sys_mutex_lock enters the queue and announces its sleep.
LEMMA LockQueueInv ==
    ASSUME CondInv, NEW t \in Threads, UNCHANGED condVars, LockOwn(t), owner # None
    PROVE  CondInv'
<1>1. /\ pc[t] = "l_own" /\ sq' = Emplace(sq, t) /\ Goto(t, "l_sleep")
      /\ cancel' = [cancel EXCEPT ![t] = 1]
      /\ UNCHANGED <<owner, lock_count, mutex, exists, stop, arg, heir, depth, st>>
      /\ UNCHANGED <<csq, cexists, ret, requeued, rest, held>>
  BY DEF LockOwn, Announce, condVars
<1> USE <1>1
<1>2. /\ pc' \in [Threads -> CondPlaces] /\ pc'[t] = "l_sleep" /\ \A u \in Threads \ {t} : pc'[u] = pc[u]
  BY GotoPlace, PlacesHold
<1> USE <1>2
<1>3. /\ pc[t] \in IdlePlaces /\ pc[t] \in LockingPlaces /\ "l_sleep" \in SqPlaces /\ "l_sleep" \in HeirPlaces
      /\ "l_sleep" \notin SleepPlaces /\ "l_sleep" \in LockingPlaces /\ "l_sleep" \notin GivenUpPlaces
      /\ "l_sleep" \notin MutexPlaces /\ "l_own" \in ResleepPlaces
      /\ "l_sleep" \notin {"again_l", "again_c", "redo_l", "redo_c", "c_resleep", "c_sleep", "c_return",
                           "u_lock", "resched", "c_resched"}
  BY LockSleepPlace
<1> USE <1>3
<1>4. /\ ~Waits(t) /\ mutex # t /\ heir[t] = None /\ rest[t] = <<>> /\ depth[t] = 0 /\ owner # t
      /\ pc[t] \notin HeirPlaces /\ ~(depth[t] > 0)
  <2> /\ ~Waits(t) /\ mutex # t /\ heir[t] = None /\ rest[t] = <<>> /\ depth[t] = 0 /\ owner # t
      /\ pc[t] \notin HeirPlaces
    BY IdleThread DEF CondInv, ThreadInv, Counted
  <2> QED BY SmallNumbers
<1> USE <1>4
<1>5. cancel' \in [Threads -> 0..2] /\ cancel'[t] = 1 /\ \A u \in Threads \ {t} : cancel'[u] = cancel[u]
  <2> 1 \in 0..2 /\ cancel \in [Threads -> 0..2]
    BY SmallNumbers, Types
  <2> QED OBVIOUS
<1> USE <1>5
<1>6. sq' \in Seq(Threads) /\ Once(sq') /\ \A u : InQueue(sq', u) <=> u = t \/ InQueue(sq, u)
  <2> Once(sq) /\ ~InQueue(sq, t) /\ sq \in Seq(Threads)
    BY Types DEF CondInv, QueuesOnce, Waits
  <2> QED BY EmplaceFacts
<1> USE <1>6
<1>7. (\A u \in Threads \ {t} : SameThread(u)) /\ CondTypeOK'
  <2> \A u \in Threads \ {t} : SameThread(u)
    BY DEF SameThread
  <2> CondTypeOK'
    BY Types DEF CondTypeOK, ThreadsTypeOK
  <2> QED OBVIOUS
<1> \A u \in Threads \ {t} : SameFate(u)
  BY SqFate
<1> QueuesOnce' /\ FreeInv' /\ HeirInv'
  <2> QueuesOnce' /\ FreeInv'
    BY DEF CondInv, QueuesOnce, FreeInv
  <2> HeirInv'
    BY Types DEF CondInv, HeirInv
  <2> QED OBVIOUS
<1> ThreadInv(t)'
  <2>1. InQueue(sq', t) /\ ~InQueue(csq', t) /\ ~Moving(t)' /\ Waits(t)' /\ Pending(t)'
    BY DEF Waits, Moving, Pending
  <2> USE <2>1
  <2> Placed(t)'
    BY DEF Placed
  <2> Fated(t)'
    BY DEF Fated
  <2> Sleeping(t)'
    BY DEF Sleeping
  <2> Counted(t)'
    BY DEF Counted, Kept
  <2> Stopped(t)' /\ Locked(t)'
    BY DEF Stopped, Locked
  <2> QED BY DEF ThreadInv
<1> Restoring'
  <2> FutureSleepers = {} \/ t \in FutureSleepers
    BY NotRestoring, FutureSleeper
  <2> QED BY <1>7, RestoringGoesOn
<1> QED BY <1>7, StepInv

\* A waiter that slept when the state was saved enters its queue again.
LEMMA CondWaitAgainInv ==
    ASSUME CondInv, NEW t \in Threads, CondWaitAgain(t)
    PROVE  CondInv'
<1> /\ pc[t] = "redo_c" /\ st[t] = "sleep" /\ mutex = None /\ Sleep(t) /\ Goto(t, "c_waiting")
    /\ \/ owner # None /\ sq' = Emplace(sq, t) /\ csq' = csq
       \/ csq' = Emplace(csq, t) /\ sq' = sq
    /\ requeued' = [requeued EXCEPT ![t] = FALSE]
    /\ UNCHANGED <<owner, lock_count, mutex, exists, stop, arg, heir, depth>>
    /\ UNCHANGED <<cexists, ret, rest, held>>
  BY DEF CondWaitAgain
<1> /\ pc' \in [Threads -> CondPlaces] /\ pc'[t] = "c_waiting" /\ \A u \in Threads \ {t} : pc'[u] = pc[u]
  BY GotoPlace, PlacesHold
<1> /\ st' \in [Threads -> Status] /\ cancel' \in [Threads -> 0..2] /\ st'[t] = "sleep" /\ cancel'[t] = 0
    /\ \A u \in Threads \ {t} : st'[u] = st[u] /\ cancel'[u] = cancel[u]
  BY StatusStep
<1>1. requeued' \in [Threads -> BOOLEAN] /\ \A u \in Threads \ {t} : requeued'[u] = requeued[u]
  BY Types
<1> /\ pc[t] \in IdlePlaces /\ pc[t] \in ResleepPlaces
    /\ "c_waiting" \notin ResleepPlaces /\ "c_waiting" \in SqPlaces /\ "c_waiting" \in CsqPlaces
    /\ "c_waiting" \in SleepPlaces /\ "c_waiting" \notin MutexPlaces /\ "c_waiting" \in GivenUpPlaces
    /\ "c_waiting" \notin {"again_l", "again_c", "redo_l", "redo_c", "c_resleep", "c_sleep", "c_return",
                           "u_lock", "s_all", "l_sleep", "resched", "c_resched"}
  BY CondWaitingPlace
<1>2. ~Waits(t) /\ mutex # t /\ heir[t] = None /\ rest[t] = <<>> /\ pc[t] \notin HeirPlaces
  BY IdleThread
<1> /\ t \in FutureSleepers /\ owner # t /\ depth[t] = 0 /\ held[t] > 0 /\ ret[t] = held[t] - 1
    /\ ~(depth[t] > 0)
  <2> t \in FutureSleepers /\ owner # t /\ depth[t] = 0 /\ held[t] > 0 /\ ret[t] = held[t] - 1
    BY FutureSleeper DEF CondInv, ThreadInv, Counted, Kept
  <2> QED BY SmallNumbers
<1> /\ sq' \in Seq(Threads) /\ Once(sq') /\ csq' \in Seq(Threads) /\ Once(csq')
    /\ InQueue(sq', t) \/ InQueue(csq', t)
    /\ ~(InQueue(sq', t) /\ InQueue(csq', t))
    /\ \A u \in Threads \ {t} : (InQueue(sq', u) <=> InQueue(sq, u)) /\ (InQueue(csq', u) <=> InQueue(csq, u))
  <2>1. /\ sq \in Seq(Threads) /\ Once(sq) /\ csq \in Seq(Threads) /\ Once(csq)
        /\ ~InQueue(sq, t) /\ ~InQueue(csq, t)
    BY <1>2, Types DEF CondInv, QueuesOnce, Waits
  <2> CASE sq' = Emplace(sq, t) /\ csq' = csq
    BY <2>1, EmplaceFacts
  <2> CASE csq' = Emplace(csq, t) /\ sq' = sq
    BY <2>1, EmplaceFacts
  <2> QED OBVIOUS
<1>3. (\A u \in Threads \ {t} : SameThread(u)) /\ CondTypeOK'
  <2> \A u \in Threads \ {t} : SameThread(u)
    BY <1>1 DEF SameThread
  <2> CondTypeOK'
    BY <1>1, Types DEF CondTypeOK, ThreadsTypeOK
  <2> QED OBVIOUS
<1> \A u \in Threads \ {t} : SameFate(u)
  BY DEF SameFate, Pending, Waits, Moving
<1> QueuesOnce' /\ FreeInv' /\ HeirInv'
  BY DEF CondInv, QueuesOnce, FreeInv, HeirInv
<1> ThreadInv(t)'
  <2> ~Moving(t)' /\ Waits(t)' /\ Pending(t)'
    BY DEF Moving, Waits, Pending
  <2> Placed(t)'
    BY DEF Placed
  <2> Fated(t)'
    BY DEF Fated
  <2> Sleeping(t)'
    BY DEF Sleeping
  <2> Counted(t)'
    BY DEF Counted, Kept
  <2> Stopped(t)' /\ Locked(t)'
    BY <1>2 DEF Stopped, Locked
  <2> QED BY DEF ThreadInv
<1> Restoring'
  BY <1>3, RestoringGoesOn
<1> QED BY <1>3, StepInv

-----------------------------------------------------------------------------
\* Savestates

\* What was saved of one thread.
LEMMA ReloadedThread ==
    ASSUME CondInv, CondReload, NEW t \in Threads
    PROVE  /\ mutex = None /\ heir[t] = None /\ rest[t] = <<>>
           /\ pc[t] \in {"halted", "again_l", "again_u", "again_c", "again_s", "redo_u", "redo_c"}
           /\ pc'[t] \in {"redo_l", "redo_u", "redo_c", "user"}
           /\ pc'[t] = "redo_l" => pc[t] = "again_l" /\ st'[t] = "sleep"
           /\ st'[t] = "sleep" => st[t] = "sleep" /\ Waits(t)
           /\ st'[t] = "sleep" => \/ pc[t] = "again_l" /\ pc'[t] = "redo_l"
                                  \/ pc[t] = "again_c" /\ pc'[t] = "redo_c"
           /\ cancel'[t] = 0
<1> /\ pc[t] \in {"halted", "again_l", "again_u", "again_c", "again_s", "redo_l", "redo_u", "redo_c"}
    /\ stop
  BY DEF CondReload
<1> ThreadInv(t)
  BY DEF CondInv
<1>1. pc[t] # "redo_l"
  BY FutureSleeper DEF ThreadInv, Stopped, ResleepPlaces
<1> mutex = None
  <2> ASSUME NEW u \in Threads, mutex = u PROVE FALSE
    <3> pc[u] \in {"halted", "again_l", "again_u", "again_c", "again_s", "redo_l", "redo_u", "redo_c"}
      BY DEF CondReload
    <3> pc[u] \in MutexPlaces
      BY DEF CondInv, ThreadInv, Locked
    <3> QED BY SMT DEF MutexPlaces
  <2> QED BY Types
<1> heir[t] = None /\ rest[t] = <<>>
  <2> pc[t] # "s_all" /\ None # t
    BY SMT, MutexAssumption
  <2> QED BY DEF ThreadInv, Locked
<1> /\ pc'[t] = CASE pc[t] \in {"again_l", "redo_l"} -> "redo_l"
                  [] pc[t] \in {"again_u", "redo_u"} -> "redo_u"
                  [] pc[t] \in {"again_c", "redo_c"} -> "redo_c"
                  [] OTHER -> "user"
    /\ st'[t] = IF pc[t] \in {"again_l", "again_c"} /\ st[t] = "sleep" THEN "sleep" ELSE "onproc"
    /\ cancel'[t] = 0
  BY SMT DEF CondReload
<1> /\ pc'[t] \in {"redo_l", "redo_u", "redo_c", "user"}
    /\ pc[t] = "again_l" => pc'[t] = "redo_l"
    /\ pc[t] = "again_c" => pc'[t] = "redo_c"
    /\ pc'[t] = "redo_l" => pc[t] = "again_l"
  BY SMT, <1>1
<1>2. st'[t] = "sleep" => pc[t] \in {"again_l", "again_c"} /\ st[t] = "sleep"
  BY SMT
<1>3. {"again_l", "again_c"} \subseteq SleepPlaces
  BY SMT DEF SleepPlaces
<1> st'[t] = "sleep" => Waits(t)
  BY <1>2, <1>3 DEF ThreadInv, Sleeping, Pending
<1> pc[t] = "again_l" => st'[t] = "sleep"
  <2> pc[t] = "again_l" => st[t] = "sleep"
    BY <1>3 DEF ThreadInv, Fated, Sleeping, Pending, Waits
  <2> QED OBVIOUS
<1> QED BY <1>1, <1>2

\* Everything is saved and loaded: the mutex keeps its owner, and who slept waits
\* for another one.
LEMMA CondReloadInv ==
    ASSUME CondInv, PlainStops, CondReload
    PROVE  CondInv'
<1> /\ stop /\ stop' = FALSE /\ owner' = owner /\ sq' = <<>> /\ csq' = <<>>
    /\ UNCHANGED <<lock_count, mutex, exists, arg, heir, depth>>
    /\ UNCHANGED <<cexists, ret, requeued, rest, held>>
  BY DEF CondReload, SavedOwner
<1> CondTypeOK'
  <2> pc' \in [Threads -> CondPlaces]
    <3> ASSUME NEW t \in Threads PROVE pc'[t] \in CondPlaces
      BY ReloadedThread, PlacesHold
    <3> pc' = [t \in Threads |-> pc'[t]]
      BY SMT DEF CondReload
    <3> QED OBVIOUS
  <2> st' \in [Threads -> Status] /\ cancel' \in [Threads -> 0..2]
    BY SMT DEF CondReload, Status
  <2> <<>> \in Seq(Threads) /\ FALSE \in BOOLEAN
    BY SMT
  <2> QED BY Types DEF CondTypeOK, ThreadsTypeOK
<1> (\A u : ~InQueue(<<>>, u)) /\ Once(<<>>)
  <2> \A u : ~InQueue(<<>>, u)
    BY NotEmpty
  <2> Once(<<>>)
    BY SMT DEF Once
  <2> QED OBVIOUS
<1>1. ASSUME NEW t \in Threads
      PROVE  /\ mutex = None /\ heir[t] = None /\ rest[t] = <<>>
             /\ pc[t] \in {"halted", "again_l", "again_u", "again_c", "again_s", "redo_u", "redo_c"}
             /\ pc'[t] \in {"redo_l", "redo_u", "redo_c", "user"}
             /\ pc'[t] = "redo_l" => pc[t] = "again_l" /\ st'[t] = "sleep"
             /\ st'[t] = "sleep" => st[t] = "sleep" /\ Waits(t)
             /\ st'[t] = "sleep" => \/ pc[t] = "again_l" /\ pc'[t] = "redo_l"
                                    \/ pc[t] = "again_c" /\ pc'[t] = "redo_c"
             /\ cancel'[t] = 0
  BY ReloadedThread
<1> ASSUME NEW t \in Threads PROVE ThreadInv(t)'
  <2> ThreadInv(t) /\ mutex = None /\ None # t
    BY <1>1, MutexAssumption DEF CondInv
  <2> /\ pc'[t] \notin HeirPlaces /\ pc'[t] \notin SleepPlaces /\ pc'[t] \notin MutexPlaces
      /\ pc'[t] \notin GivenUpPlaces /\ (pc'[t] \in LockingPlaces => pc'[t] = "redo_l")
      /\ "again_l" \in LockingPlaces /\ pc[t] \notin HeirPlaces \cup {"c_return"}
      /\ pc'[t] \notin {"again_l", "c_resleep", "c_sleep", "c_return", "u_lock", "again_c", "l_sleep",
                        "resched", "c_resched", "s_all"}
    BY SMT, <1>1 DEF HeirPlaces, SleepPlaces, MutexPlaces, GivenUpPlaces, LockingPlaces
  <2>1. ~Waits(t)'
    BY DEF Waits, Moving
  <2> Placed(t)'
    BY <2>1 DEF Placed, Waits
  <2> Fated(t)'
    BY DEF Fated
  <2> Sleeping(t)'
    BY <1>1 DEF Sleeping
  <2> Counted(t)'
    <3> Kept(t)' => Kept(t)
      <4> "redo_l" # "redo_c" /\ "redo_l" # "again_c"
        BY SMT
      <4> QED BY <1>1 DEF Kept
    <3> pc'[t] \in LockingPlaces => pc[t] \in LockingPlaces
      BY <1>1
    <3> QED BY DEF ThreadInv, Counted
  <2> Stopped(t)' /\ Locked(t)'
    BY <1>1 DEF Stopped, Locked
  <2> QED BY DEF ThreadInv
<1> QueuesOnce' /\ FreeInv'
  BY DEF CondInv, QueuesOnce, FreeInv
<1> HeirInv' /\ Restoring'
  <2> CASE Threads = {}
    <3> mutex = None /\ FutureSleepers' = {}
      BY Types DEF FutureSleepers
    <3> QED BY DEF HeirInv, Restoring
  <2> CASE Threads # {}
    <3> mutex' = None
      BY <1>1
    <3> ASSUME NEW t \in Threads
        PROVE  /\ pc'[t] \in {"user", "redo_l", "redo_u", "redo_c", "l_own", "l_sleep", "waiting", "c_waiting"}
               /\ pc'[t] \notin {"l_own", "l_sleep", "waiting", "c_waiting"} /\ arg'[t] = 0
      <4> arg[t] = 0
        BY DEF PlainStops
      <4> QED BY SMT, <1>1
    <3> ASSUME NEW t \in FutureSleepers'
        PROVE  owner # t /\ (owner = None => pc'[t] = "redo_c" /\ ~requeued[t])
      <4>1. t \in Threads /\ st'[t] = "sleep"
        BY DEF FutureSleepers
      <4> ThreadInv(t) /\ Waits(t) /\ st[t] = "sleep" /\ FreeInv
        BY <1>1, <4>1 DEF CondInv
      <4> owner # t
        BY DEF ThreadInv, Placed
      <4> owner = None => ~InQueue(sq, t)
        BY DEF FreeInv
      <4> QED BY <1>1, <4>1 DEF ThreadInv, Fated
    <3> QED BY DEF HeirInv, Restoring
  <2> QED OBVIOUS
<1> QED BY DEF CondInv

-----------------------------------------------------------------------------
\* Steps that end a call

\* A thread that waits for nothing stops, goes on or gives up its call.
LEMMA FreeMoves ==
    ASSUME CondInv, NEW t \in Threads, pc[t] \in IdlePlaces, pc'[t] \in FreePlaces,
           UNCHANGED <<owner, sq, lock_count, mutex, csq, rest, heir, stop, depth, cancel>>,
           FutureSleepers = {}, CondTypeOK', \A u \in Threads \ {t} : SameThread(u),
           st'[t] = "sleep" => pc'[t] \in {"l_yield", "halted"}
    PROVE  CondInv'
<1>1. /\ ~Waits(t) /\ ~Pending(t) /\ pc[t] \notin HeirPlaces
      /\ mutex # t /\ heir[t] = None /\ rest[t] = <<>> /\ cancel[t] = 0
      /\ depth[t] > 0 => owner = t /\ lock_count = depth[t] - 1
      /\ owner = t => depth[t] # 0
  BY IdleThread
<1>2. Waits(t)' <=> Waits(t)
  BY UnchangedFate
<1> ThreadInv(t)'
  BY <1>1, <1>2, FreeThread
<1>3. pc'[t] \notin ResleepPlaces
  BY SMT DEF FreePlaces, ResleepPlaces
<1> Restoring'
  BY <1>3, RestoringOver DEF SameThread
<1> QED BY <1>1, QuietStep

\* check_state() after a lock that was overtaken by an awake().
LEMMA LockYieldInv ==
    ASSUME CondInv, NEW t \in Threads, LockYield(t), UNCHANGED condVars
    PROVE  CondInv'
<1> /\ pc[t] = "l_yield" /\ ((SelfAwake(t) /\ pc' = pc) \/ (Resume(t) /\ Goto(t, "user")))
    /\ UNCHANGED <<owner, sq, lock_count, mutex, exists, stop, arg, heir, depth>>
    /\ UNCHANGED <<csq, cexists, ret, requeued, rest, held>>
  BY DEF LockYield, mutexVars, condVars
<1> /\ pc' \in [Threads -> CondPlaces] /\ pc'[t] \in {"l_yield", "user"}
    /\ \A u \in Threads \ {t} : pc'[u] = pc[u]
  BY GotoPlace, PlacesHold, Types
<1> /\ st' \in [Threads -> Status] /\ cancel' = cancel /\ st'[t] # "sleep"
    /\ \A u \in Threads \ {t} : st'[u] = st[u]
  <2> "onproc" # "sleep"
    BY SMT
  <2> QED BY StatusStep
<1> (\A u \in Threads \ {t} : SameThread(u)) /\ CondTypeOK'
  <2> \A u \in Threads \ {t} : SameThread(u)
    BY DEF SameThread
  <2> CondTypeOK'
    BY Types DEF CondTypeOK, ThreadsTypeOK
  <2> QED OBVIOUS
<1>1. pc[t] \in IdlePlaces /\ pc'[t] \in FreePlaces /\ pc[t] \notin RestorePlaces
  BY SMT DEF IdlePlaces, FreePlaces, RestorePlaces
<1> FutureSleepers = {}
  BY <1>1, NotRestoring
<1> QED BY <1>1, FreeMoves

\* sys_cond_wait is repeated after a reload and refused.
LEMMA CondRefusedInv ==
    ASSUME CondInv, NEW t \in Threads, CondRefused(t)
    PROVE  CondInv'
<1> /\ MayEnter(t) /\ pc[t] = "redo_c" /\ st[t] # "sleep" /\ Return(t)
    /\ ret' = [ret EXCEPT ![t] = 0] /\ held' = [held EXCEPT ![t] = 0]
    /\ requeued' = [requeued EXCEPT ![t] = FALSE]
    /\ UNCHANGED <<owner, sq, lock_count, mutex, exists, stop, heir, depth, st, cancel>>
    /\ UNCHANGED <<csq, cexists, rest>>
  BY DEF CondRefused, mutexVars, threadVars
<1> /\ pc' \in [Threads -> CondPlaces] /\ pc'[t] = "user" /\ \A u \in Threads \ {t} : pc'[u] = pc[u]
    /\ arg' \in [Threads -> Nat] /\ \A u \in Threads \ {t} : arg'[u] = arg[u]
  BY ReturnStep
<1>1. /\ ret' \in [Threads -> 0..MaxCount] /\ held' \in [Threads -> Nat] /\ requeued' \in [Threads -> BOOLEAN]
      /\ \A u \in Threads \ {t} : ret'[u] = ret[u] /\ held'[u] = held[u] /\ requeued'[u] = requeued[u]
  <2> 0 \in 0..MaxCount /\ 0 \in Nat /\ FALSE \in BOOLEAN
    BY SmallNumbers
  <2> QED BY Types
<1> (\A u \in Threads \ {t} : SameThread(u)) /\ CondTypeOK'
  <2> \A u \in Threads \ {t} : SameThread(u)
    BY <1>1 DEF SameThread
  <2> CondTypeOK'
    BY <1>1, Types DEF CondTypeOK, ThreadsTypeOK
  <2> QED OBVIOUS
<1> pc[t] \in IdlePlaces /\ pc'[t] \in FreePlaces
  BY SMT DEF IdlePlaces, FreePlaces
<1> FutureSleepers = {}
  BY NotRestoring
<1> QED BY FreeMoves

\* A call is given up before it has done anything, or a thread stops.
LEMMA GiveWayInv ==
    ASSUME CondInv, NEW t \in Threads,
           \/ pc[t] \in {"user", "l_yield"} /\ stop /\ Goto(t, "halted")
           \/ MayEnter(t) /\ pc[t] = "user" /\ Goto(t, "again_s")
           \/ pc[t] = "u_lock" /\ Goto(t, "again_u"),
           UNCHANGED <<owner, sq, lock_count, mutex, exists, stop, arg, heir, depth, st, cancel>>,
           UNCHANGED <<csq, cexists, ret, requeued, rest, held>>
    PROVE  CondInv'
<1>1. PICK p \in {"halted", "again_s", "again_u"} : Goto(t, p)
  OBVIOUS
<1> pc' \in [Threads -> CondPlaces] /\ pc'[t] = p /\ \A u \in Threads \ {t} : pc'[u] = pc[u]
  BY <1>1, GotoPlace, PlacesHold
<1> (\A u \in Threads \ {t} : SameThread(u)) /\ CondTypeOK'
  <2> \A u \in Threads \ {t} : SameThread(u)
    BY DEF SameThread
  <2> CondTypeOK'
    BY Types DEF CondTypeOK, ThreadsTypeOK
  <2> QED OBVIOUS
<1> /\ pc[t] \in IdlePlaces /\ pc'[t] \in FreePlaces /\ (pc[t] \in {"l_yield", "u_lock"} => pc[t] \notin RestorePlaces)
    /\ (pc[t] \in {"user", "u_lock"} => pc[t] \notin SleepPlaces \cup {"l_own", "l_sleep", "l_yield", "halted", "redo_l", "redo_c"})
    /\ "user" \notin ResleepPlaces
  BY SMT DEF IdlePlaces, FreePlaces, RestorePlaces, SleepPlaces, ResleepPlaces
<1> FutureSleepers = {}
  BY NotRestoring
<1> st'[t] = "sleep" => pc'[t] \in {"l_yield", "halted"}
  <2> pc'[t] = "halted" \/ pc[t] \in {"user", "u_lock"}
    <3> ASSUME Goto(t, "halted") PROVE pc'[t] = "halted"
      BY GotoPlace, PlacesHold
    <3> QED OBVIOUS
  <2> Sleeping(t)
    BY DEF CondInv, ThreadInv
  <2> QED BY DEF Sleeping
<1> QED BY FreeMoves

\* The call of a thread that was made the owner of the mutex returns.
LEMMA GrantedReturns ==
    ASSUME CondInv, NEW t \in Threads, pc[t] \in {"l_sleep", "waiting", "l_expired"}, ~Pending(t),
           pc'[t] \in FreePlaces, depth' = [depth EXCEPT ![t] = @ + 1],
           UNCHANGED <<owner, sq, lock_count, mutex, csq, rest, heir, stop>>,
           CondTypeOK', \A u \in Threads \ {t} : SameThread(u),
           cancel'[t] = 0, st'[t] = "sleep" => pc'[t] \in {"l_yield", "halted"}
    PROVE  CondInv'
<1>1. /\ pc[t] \in HeirPlaces /\ pc[t] \in LockingPlaces /\ pc[t] \notin MutexPlaces /\ pc[t] # "s_all"
      /\ pc[t] \notin GivenUpPlaces /\ pc'[t] \notin ResleepPlaces
  BY SMT DEF HeirPlaces, LockingPlaces, MutexPlaces, GivenUpPlaces, FreePlaces, ResleepPlaces
<1> Placed(t) /\ Fated(t) /\ Sleeping(t) /\ Counted(t) /\ Locked(t) /\ ~Waits(t)
  BY DEF CondInv, ThreadInv, Pending
<1> owner = t /\ depth[t] = 0 /\ lock_count = 0 /\ mutex # t /\ heir[t] = None /\ rest[t] = <<>>
  BY <1>1 DEF Fated, Counted, Locked
<1>2. depth'[t] = 1
  <2> depth'[t] = depth[t] + 1
    BY Types
  <2> QED BY SMT
<1>3. FutureSleepers = {}
  <2> CASE pc[t] = "l_sleep"
    <3> st[t] # "sleep"
      BY FutureSleeper DEF ResleepPlaces
    <3> QED BY NotRestoring
  <2> CASE pc[t] = "waiting"
    <3> st[t] # "sleep"
      BY DEF Sleeping, SleepPlaces
    <3> QED BY NotRestoring
  <2> CASE pc[t] = "l_expired"
    <3> pc[t] \notin RestorePlaces
      BY SMT DEF RestorePlaces
    <3> QED BY NotRestoring
  <2> QED OBVIOUS
<1>4. ~Waits(t)'
  BY UnchangedFate
<1> ThreadInv(t)'
  <2> lock_count' = depth'[t] - 1 /\ depth'[t] # 0
    BY SMT, <1>2
  <2> QED BY <1>4, FreeThread
<1> Restoring'
  BY <1>1, <1>3, RestoringOver DEF SameThread
<1> QED BY QuietStep

\* sys_mutex_lock returns with the mutex: signaled, stopped after it was made the owner, or
\* made the owner before its timeout was handled.
LEMMA ReturnOwnerInv ==
    ASSUME CondInv, NEW t \in Threads, UNCHANGED condVars,
           \/ WaitSignaled(t)
           \/ WaitStopped(t) /\ ~InQueue(sq, t)
           \/ WaitExpired(t) /\ ~InQueue(sq, t)
    PROVE  CondInv'
<1> /\ pc[t] \in {"waiting", "l_expired"}
    /\ ((pc[t] = "waiting" /\ st[t] = "ready") \/ (mutex = None /\ ~InQueue(sq, t)))
    /\ (Goto(t, "user") \/ Goto(t, "halted")) /\ arg' = [arg EXCEPT ![t] = 0]
    /\ depth' = [depth EXCEPT ![t] = @ + 1]
    /\ ((Resume(t) /\ Goto(t, "user")) \/ UNCHANGED threadVars)
    /\ UNCHANGED <<owner, sq, lock_count, mutex, exists, stop, heir>>
    /\ UNCHANGED <<csq, cexists, ret, requeued, rest, held>>
  BY DEF WaitSignaled, WaitStopped, WaitExpired, ReturnLocked, Return, Resume, mutexVars, condVars
<1> pc' \in [Threads -> CondPlaces] /\ pc'[t] \in {"user", "halted"} /\ \A u \in Threads \ {t} : pc'[u] = pc[u]
  BY GotoPlace, PlacesHold
<1>1. arg' \in [Threads -> Nat] /\ \A u \in Threads \ {t} : arg'[u] = arg[u]
  <2> 0 \in Nat /\ arg \in [Threads -> Nat]
    BY Types
  <2> QED OBVIOUS
<1>2. depth' \in [Threads -> Nat] /\ \A u \in Threads \ {t} : depth'[u] = depth[u]
  BY DepthStep
<1> /\ st' \in [Threads -> Status] /\ cancel' = cancel
    /\ \A u \in Threads \ {t} : st'[u] = st[u]
    /\ st'[t] \in {"onproc", st[t]}
  BY StatusStep
<1> (\A u \in Threads \ {t} : SameThread(u)) /\ CondTypeOK'
  <2> \A u \in Threads \ {t} : SameThread(u)
    BY <1>1, <1>2 DEF SameThread
  <2> CondTypeOK'
    BY <1>1, <1>2, Types DEF CondTypeOK, ThreadsTypeOK
  <2> QED OBVIOUS
<1> /\ pc'[t] \in FreePlaces /\ pc[t] \notin CsqPlaces /\ pc[t] # "l_sleep" /\ "onproc" # "sleep"
    /\ ("waiting" \in SleepPlaces) /\ ("l_expired" \notin SleepPlaces \cup {"l_own", "l_sleep", "l_yield", "halted", "redo_l", "redo_c"})
    /\ "ready" # "sleep"
  BY WaitingPlace
<1>3. Sleeping(t) /\ Placed(t)
  BY DEF CondInv, ThreadInv
<1>4. ~Pending(t)
  BY <1>3 DEF Sleeping, Placed, Pending, Waits, Moving
<1> cancel'[t] = 0 /\ st'[t] # "sleep"
  BY <1>3, <1>4 DEF Sleeping
<1> QED BY <1>4, GrantedReturns

\* sys_cond_wait finds that it was made the owner of the mutex.
LEMMA CondGranted ==
    ASSUME CondInv, NEW t \in Threads, pc[t] \in {"c_waiting", "c_mutex", "c_expired"}, ~Pending(t),
           Goto(t, "c_return"), st'[t] # "sleep", \A u \in Threads \ {t} : st'[u] = st[u],
           st' \in [Threads -> Status],
           UNCHANGED <<owner, sq, lock_count, mutex, exists, stop, arg, heir, depth, cancel>>,
           UNCHANGED condVars
    PROVE  CondInv'
<1> /\ pc[t] \in HeirPlaces /\ pc[t] \in GivenUpPlaces /\ pc[t] \notin MutexPlaces /\ pc[t] # "s_all"
    /\ pc[t] # "l_sleep" /\ "c_return" \notin ResleepPlaces /\ "c_return" \notin HeirPlaces
    /\ "c_return" \notin SleepPlaces /\ "c_return" \in GivenUpPlaces /\ "c_return" \notin MutexPlaces
  BY SMT DEF HeirPlaces, GivenUpPlaces, MutexPlaces, ResleepPlaces, SleepPlaces
<1> Placed(t) /\ Fated(t) /\ Sleeping(t) /\ Counted(t) /\ Locked(t) /\ ~Waits(t)
  BY DEF CondInv, ThreadInv, Pending
<1> owner = t /\ depth[t] = 0 /\ lock_count = 0 /\ mutex # t /\ heir[t] = None /\ rest[t] = <<>>
    /\ held[t] > 0 /\ ret[t] = held[t] - 1 /\ cancel[t] = 0
  BY DEF Fated, Counted, Locked, Sleeping
<1> /\ pc' \in [Threads -> CondPlaces] /\ pc'[t] = "c_return" /\ \A u \in Threads \ {t} : pc'[u] = pc[u]
  BY GotoPlace, PlacesHold
<1> UNCHANGED <<csq, cexists, ret, requeued, rest, held>>
  BY DEF condVars
<1>1. (\A u \in Threads \ {t} : SameThread(u)) /\ CondTypeOK'
  <2> \A u \in Threads \ {t} : SameThread(u)
    BY DEF SameThread
  <2> CondTypeOK'
    BY Types DEF CondTypeOK, ThreadsTypeOK
  <2> QED OBVIOUS
<1>2. FutureSleepers = {}
  <2> pc[t] = "c_waiting" => st[t] # "sleep"
    BY DEF Sleeping, SleepPlaces
  <2> pc[t] # "c_waiting" => pc[t] \notin RestorePlaces
    BY SMT DEF RestorePlaces
  <2> QED BY NotRestoring
<1> Restoring'
  BY <1>1, <1>2, RestoringOver DEF SameThread
<1>3. ~Waits(t)'
  BY UnchangedFate
<1> ThreadInv(t)'
  <2> Placed(t)'
    BY <1>3 DEF Placed, Waits
  <2> Fated(t)'
    BY DEF Fated
  <2> Sleeping(t)'
    BY DEF Sleeping
  <2> Counted(t)'
    <3> ~(depth[t] > 0)
      BY SmallNumbers
    <3> QED BY DEF Counted, Kept
  <2> Stopped(t)' /\ Locked(t)'
    BY DEF Stopped, Locked
  <2> QED BY DEF ThreadInv
<1> QED BY <1>1, QuietStep

\* sys_cond_wait goes on to its end when it is the owner: signaled, stopped after it was made
\* the owner, or made the owner before its timeout was handled.
LEMMA CondGrantedInv ==
    ASSUME CondInv, NEW t \in Threads,
           \/ CondSignaled(t)
           \/ CondStopped(t) /\ ~InQueue(csq, t) /\ ~InQueue(sq, t)
           \/ CondExpired(t) /\ ~InQueue(csq, t) /\ owner = t
    PROVE  CondInv'
<1> /\ pc[t] \in {"c_waiting", "c_mutex", "c_expired"} /\ Goto(t, "c_return")
    /\ \/ pc[t] \in {"c_waiting", "c_mutex"} /\ Resume(t)
       \/ /\ mutex = None /\ ~InQueue(csq, t) /\ UNCHANGED threadVars
          /\ ~InQueue(sq, t) \/ owner = t
    /\ UNCHANGED <<owner, sq, lock_count, mutex, exists, stop, arg, heir, depth>>
    /\ UNCHANGED condVars
  BY DEF CondSignaled, CondStopped, CondExpired, mutexVars, condVars
<1>1. /\ pc[t] # "l_sleep" /\ ({"c_waiting", "c_mutex"} \subseteq SleepPlaces) /\ "ready" # "sleep" /\ "onproc" # "sleep"
      /\ (pc[t] \notin SleepPlaces => pc[t] \notin SleepPlaces \cup {"l_own", "l_sleep", "l_yield", "halted", "redo_l", "redo_c"})
  BY SMT DEF SleepPlaces
<1> Placed(t) /\ Sleeping(t)
  BY DEF CondInv, ThreadInv
<1>2. /\ st' \in [Threads -> Status] /\ cancel' = cancel
      /\ \A u \in Threads \ {t} : st'[u] = st[u]
      /\ \/ st[t] = "ready" /\ st'[t] = "onproc"
         \/ st' = st
  BY StatusStep
<1>3. ~Pending(t)
  <2> CASE pc[t] \in {"c_waiting", "c_mutex"} /\ Resume(t)
    BY <1>1, StatusStep DEF Sleeping
  <2> CASE mutex = None /\ ~InQueue(csq, t) /\ (~InQueue(sq, t) \/ owner = t)
    BY DEF Placed, Pending, Waits, Moving
  <2> QED OBVIOUS
<1> st'[t] # "sleep"
  BY <1>1, <1>2, <1>3 DEF Sleeping
<1> QED BY <1>2, <1>3, CondGranted

-----------------------------------------------------------------------------
\* Steps of a thread that goes on waiting

\* A thread that goes on waiting, and about which nothing is decided.
LEMMA WaitMoves ==
    ASSUME NEW t \in Threads, ThreadInv(t), SameFate(t),
           \/ pc[t] \in {"l_sleep", "waiting", "resched", "l_expired"} /\ pc'[t] \in {"waiting", "resched", "l_expired"}
           \/ pc[t] \in RestPlaces /\ pc'[t] \in RestPlaces,
           depth'[t] = depth[t] /\ held'[t] = held[t] /\ ret'[t] = ret[t],
           heir'[t] = heir[t] /\ rest'[t] = rest[t], cancel'[t] = 0,
           pc'[t] \in SleepPlaces => (st'[t] = "sleep" <=> Pending(t)),
           pc'[t] \notin SleepPlaces => st'[t] # "sleep",
           pc'[t] \in {"resched", "c_resched"} => arg'[t] # 0
    PROVE  ThreadInv(t)'
<1> /\ pc'[t] \in SqPlaces /\ (pc[t] \in CsqPlaces => pc'[t] \in CsqPlaces)
    /\ (pc[t] \in RestPlaces => pc'[t] \in RestPlaces)
    /\ pc[t] \in HeirPlaces /\ pc'[t] \in HeirPlaces
    /\ pc[t] \notin MutexPlaces /\ pc'[t] \notin MutexPlaces
    /\ pc[t] \in LockingPlaces \cup GivenUpPlaces /\ (pc'[t] \in GivenUpPlaces => pc[t] \in GivenUpPlaces)
    /\ pc'[t] \notin {"c_return", "again_l", "again_c", "redo_c", "redo_l", "u_lock", "l_sleep",
                      "c_sleep", "c_resleep"}
    /\ pc[t] # "s_all"
  BY SMT DEF SqPlaces, CsqPlaces, RestPlaces, HeirPlaces, MutexPlaces, LockingPlaces, GivenUpPlaces
<1>1. Waits(t)' <=> Waits(t)
  BY DEF SameFate, Waits
<1> Placed(t)'
  BY <1>1 DEF ThreadInv, Placed, SameFate
<1> Fated(t)'
  BY <1>1 DEF ThreadInv, Fated, SameFate
<1> Sleeping(t)'
  BY DEF ThreadInv, Sleeping, SameFate
<1> Counted(t)'
  BY DEF ThreadInv, Counted, Kept, SameFate
<1> Stopped(t)' /\ Locked(t)'
  BY DEF ThreadInv, Stopped, Locked, SameFate
<1> QED BY DEF ThreadInv

\* sys_mutex_lock calls sleep() after it entered the queue.
LEMMA LockSleepInv ==
    ASSUME CondInv, NEW t \in Threads, LockSleep(t), UNCHANGED condVars
    PROVE  CondInv'
<1> /\ pc[t] = "l_sleep" /\ Sleep(t)
    /\ UNCHANGED <<owner, sq, lock_count, mutex, exists, stop, heir>>
    /\ UNCHANGED <<csq, cexists, ret, requeued, rest, held>>
  BY DEF LockSleep, mutexVars, condVars
<1> /\ st' \in [Threads -> Status] /\ cancel' \in [Threads -> 0..2]
    /\ \A u \in Threads \ {t} : st'[u] = st[u] /\ cancel'[u] = cancel[u]
    /\ st'[t] = "sleep" /\ cancel'[t] = 0
  BY StatusStep
<1> ThreadInv(t) /\ SameFate(t) /\ cancel[t] = IF Pending(t) THEN 1 ELSE 2
  BY UnchangedFate DEF CondInv, ThreadInv, Sleeping
<1> CASE SleepIsKept(t)
  <2> Goto(t, "waiting") /\ UNCHANGED <<arg, depth>>
    BY DEF LockSleep
  <2> pc' \in [Threads -> CondPlaces] /\ pc'[t] = "waiting" /\ \A u \in Threads \ {t} : pc'[u] = pc[u]
    BY GotoPlace, PlacesHold
  <2>1. (\A u \in Threads \ {t} : SameThread(u)) /\ CondTypeOK'
    <3> \A u \in Threads \ {t} : SameThread(u)
      BY DEF SameThread
    <3> CondTypeOK'
      BY Types DEF CondTypeOK, ThreadsTypeOK
    <3> QED OBVIOUS
  <2>2. Pending(t)
    BY DEF SleepIsKept
  <2> /\ "waiting" \in SleepPlaces /\ "waiting" \in HeirPlaces /\ "l_sleep" \in ResleepPlaces
      /\ "waiting" # "l_sleep"
    BY WaitingPlace, LockSleepPlace
  <2> ThreadInv(t)'
    BY <2>2, WaitMoves
  <2> Restoring'
    <3> FutureSleepers = {} \/ t \in FutureSleepers
      BY NotRestoring, FutureSleeper
    <3> QED BY <2>1, RestoringGoesOn
  <2> QED BY <2>1, QuietStep
<1> CASE ~SleepIsKept(t)
  <2> /\ Goto(t, "l_yield") /\ arg' = [arg EXCEPT ![t] = 0] /\ depth' = [depth EXCEPT ![t] = @ + 1]
    BY DEF LockSleep
  <2> pc' \in [Threads -> CondPlaces] /\ pc'[t] = "l_yield" /\ \A u \in Threads \ {t} : pc'[u] = pc[u]
    BY GotoPlace, PlacesHold
  <2>1. /\ arg' \in [Threads -> Nat] /\ \A u \in Threads \ {t} : arg'[u] = arg[u]
    <3> 0 \in Nat /\ arg \in [Threads -> Nat]
      BY Types
    <3> QED OBVIOUS
  <2>2. depth' \in [Threads -> Nat] /\ \A u \in Threads \ {t} : depth'[u] = depth[u]
    BY DepthStep
  <2> (\A u \in Threads \ {t} : SameThread(u)) /\ CondTypeOK'
    <3> \A u \in Threads \ {t} : SameThread(u)
      BY <2>1, <2>2 DEF SameThread
    <3> CondTypeOK'
      BY <2>1, <2>2, Types DEF CondTypeOK, ThreadsTypeOK
    <3> QED OBVIOUS
  <2> ~Pending(t)
    BY SmallNumbers DEF SleepIsKept
  <2> "l_yield" \in FreePlaces
    BY WaitingPlace
  <2> QED BY GrantedReturns
<1> QED OBVIOUS

\* A timeout of sys_mutex_lock or sys_cond_wait runs out, and the thread is scheduled again.
LEMMA TimeoutInv ==
    ASSUME CondInv, PlainStops, NEW t \in Threads,
           \/ (WaitTimeout(t) \/ WaitRescheduled(t)) /\ UNCHANGED condVars
           \/ CondTimeout(t) \/ CondRescheduled(t)
    PROVE  CondInv'
<1> Stopped(t) /\ Sleeping(t)
  BY DEF CondInv, ThreadInv
<1>1. pc[t] \in {"resched", "c_resched"} => ~stop
  BY DEF Stopped, PlainStops
<1> /\ \/ pc[t] = "waiting" /\ Goto(t, "resched")
       \/ pc[t] = "resched" /\ Goto(t, "l_expired")
       \/ pc[t] = "c_waiting" /\ Goto(t, "c_resched")
       \/ pc[t] = "c_resched" /\ Goto(t, "c_expired")
    /\ arg[t] # 0 /\ (SelfAwake(t) \/ Resume(t))
    /\ UNCHANGED <<owner, sq, lock_count, mutex, exists, stop, arg, heir, depth>>
    /\ UNCHANGED <<csq, cexists, ret, requeued, rest, held>>
  BY <1>1 DEF WaitTimeout, WaitRescheduled, CondTimeout, CondRescheduled, Stopped, mutexVars, condVars
<1> /\ pc' \in [Threads -> CondPlaces] /\ \A u \in Threads \ {t} : pc'[u] = pc[u]
    /\ \/ pc[t] \in {"waiting", "resched"} /\ pc'[t] \in {"resched", "l_expired"}
       \/ pc[t] \in {"c_waiting", "c_resched"} /\ pc'[t] \in {"c_resched", "c_expired"}
  BY GotoPlace, PlacesHold
<1> /\ st' \in [Threads -> Status] /\ cancel' = cancel /\ st'[t] # "sleep"
    /\ \A u \in Threads \ {t} : st'[u] = st[u]
  <2> "onproc" # "sleep"
    BY SMT
  <2> QED BY StatusStep
<1>2. (\A u \in Threads \ {t} : SameThread(u)) /\ CondTypeOK'
  <2> \A u \in Threads \ {t} : SameThread(u)
    BY DEF SameThread
  <2> CondTypeOK'
    BY Types DEF CondTypeOK, ThreadsTypeOK
  <2> QED OBVIOUS
<1> /\ pc'[t] \notin SleepPlaces /\ pc'[t] \in HeirPlaces /\ pc'[t] \notin ResleepPlaces /\ pc[t] # "l_sleep"
    /\ \/ pc[t] \in {"l_sleep", "waiting", "resched", "l_expired"} /\ pc'[t] \in {"waiting", "resched", "l_expired"}
       \/ pc[t] \in RestPlaces /\ pc'[t] \in RestPlaces
  BY SMT DEF SleepPlaces, HeirPlaces, ResleepPlaces, RestPlaces
<1>3. ThreadInv(t) /\ SameFate(t)
  BY UnchangedFate DEF CondInv
<1>4. cancel'[t] = 0
  BY DEF Sleeping
<1> ThreadInv(t)'
  BY <1>3, <1>4, WaitMoves
<1> Restoring'
  <2> FutureSleepers = {}
    BY NotRestoring
  <2> QED BY <1>2, RestoringOver DEF SameThread
<1> QED BY <1>2, QuietStep

-----------------------------------------------------------------------------
\* Steps of no thread

\* A savestate is requested, or the mutex or its condition variable is created or destroyed.
LEMMA ObjectInv ==
    ASSUME CondInv,
           UNCHANGED <<owner, sq, lock_count, mutex, pc, arg, heir, depth, st, cancel>>,
           UNCHANGED <<csq, ret, requeued, rest, held>>,
           stop' = stop \/ (stop' = TRUE /\ FutureSleepers = {}),
           exists' \in BOOLEAN, cexists' \in BOOLEAN
    PROVE  CondInv'
<1> ASSUME NEW u \in Threads PROVE ThreadInv(u)'
  <2> SameThread(u) /\ ThreadInv(u)
    BY DEF SameThread, CondInv
  <2> SameFate(u)
    BY UnchangedFate
  <2> stop => stop'
    OBVIOUS
  <2> QED BY Frame
<1> CondTypeOK'
  <2> stop' \in BOOLEAN
    BY Types
  <2> QED BY Types DEF CondTypeOK, ThreadsTypeOK
<1> QueuesOnce' /\ FreeInv' /\ HeirInv'
  BY UnchangedFate DEF CondInv, HeirInv
<1> Restoring'
  <2> FutureSleepers' = FutureSleepers
    BY DEF FutureSleepers
  <2> QED BY DEF CondInv, Restoring
<1> QED BY DEF CondInv

-----------------------------------------------------------------------------
\* The invariant

\* sys_mutex_lock, sys_mutex_trylock and sys_mutex_unlock.
LEMMA MutexCallInv ==
    ASSUME CondInv, PlainStops, NEW t \in Threads, UNCHANGED condVars,
           Lock(t) \/ TryLock(t) \/ UnlockCall(t) \/ Halt(t)
    PROVE  CondInv'
<1> ASSUME \E timeout \in Timeouts : LockAtOnce(t, timeout) \/ LockBusy(t, timeout) PROVE CondInv'
  BY TakeInv, LockBusyInv
<1> ASSUME LockOwn(t) PROVE CondInv'
  BY TakeInv, LockQueueInv
<1> ASSUME LockSleep(t) \/ LockYield(t) \/ WaitSignaled(t) PROVE CondInv'
  BY LockSleepInv, LockYieldInv, ReturnOwnerInv
<1> ASSUME WaitStopped(t) \/ WaitExpired(t) PROVE CondInv'
  BY StoppedInv, ExpiredInv, ReturnOwnerInv
<1> ASSUME WaitTimeout(t) \/ WaitRescheduled(t) PROVE CondInv'
  BY TimeoutInv
<1> ASSUME Unlock(t) PROVE CondInv'
  BY ReleaseInv, UnlockWaitersInv
<1> ASSUME UnlockReown(t) PROVE CondInv'
  <2> CASE sq = <<>>
    BY ReleaseInv
  <2> CASE sq # <<>> /\ Repeating(NextOwner)
    <3> /\ pc[t] = "u_lock" /\ Goto(t, "again_u")
        /\ UNCHANGED <<owner, sq, lock_count, mutex, exists, stop, arg, heir, depth, st, cancel>>
        /\ UNCHANGED <<csq, cexists, ret, requeued, rest, held>>
      BY DEF UnlockReown, threadVars, condVars
    <3> QED BY GiveWayInv
  <2> CASE sq # <<>> /\ ~Repeating(NextOwner)
    BY HandOverInv
  <2> QED OBVIOUS
<1> ASSUME UnlockAwake(t) PROVE CondInv'
  BY CallAwakeInv
<1> ASSUME Halt(t) PROVE CondInv'
  <2> /\ pc[t] \in {"user", "l_yield"} /\ stop /\ Goto(t, "halted")
      /\ UNCHANGED <<owner, sq, lock_count, mutex, exists, stop, arg, heir, depth, st, cancel>>
      /\ UNCHANGED <<csq, cexists, ret, requeued, rest, held>>
    BY DEF Halt, mutexVars, threadVars, condVars
  <2> QED BY GiveWayInv
<1> ASSUME TryLock(t) PROVE CondInv'
  BY TakeInv
<1> QED BY DEF Lock, UnlockCall

\* The steps of sys_cond_wait.
LEMMA WaitCallInv ==
    ASSUME CondInv, PlainStops, NEW t \in Threads, WaitCall(t)
    PROVE  CondInv'
<1> ASSUME NEW timeout \in Timeouts, CondWait(t, timeout) PROVE CondInv'
  BY CondWaitGivesWayInv, CondWaitInv
<1> ASSUME CondRefused(t) \/ CondSleep(t) \/ CondWaitAgain(t) \/ CondSignaled(t) PROVE CondInv'
  BY CondRefusedInv, CondSleepInv, CondWaitAgainInv, CondGrantedInv
<1> ASSUME CondStopped(t) PROVE CondInv'
  BY StoppedInv, CondGrantedInv
<1> ASSUME CondTimeout(t) \/ CondRescheduled(t) PROVE CondInv'
  BY TimeoutInv
<1> ASSUME CondExpired(t) PROVE CondInv'
  BY CondExpiredOwnInv, CondExpiredQueueInv, CondGrantedInv
<1> ASSUME CondResleep(t) \/ CondReturn(t) PROVE CondInv'
  BY CondResleepInv, CondReturnInv
<1> QED BY DEF WaitCall

\* The steps of sys_cond_signal, sys_cond_signal_to and sys_cond_signal_all.
LEMMA SignalCallInv ==
    ASSUME CondInv, NEW t \in Threads, SignalCall(t)
    PROVE  CondInv'
<1>1. ASSUME NEW i \in 1..Len(csq), SignalAt(t, i) PROVE CondInv'
  <2> CASE Repeating(csq[i])
    <3> /\ MayEnter(t) /\ pc[t] = "user" /\ Goto(t, "again_s")
        /\ UNCHANGED <<owner, sq, lock_count, mutex, exists, stop, arg, heir, depth, st, cancel>>
        /\ UNCHANGED <<csq, cexists, ret, requeued, rest, held>>
      BY <1>1 DEF SignalAt, Signaling, threadVars
    <3> QED BY GiveWayInv
  <2> CASE ~Repeating(csq[i])
    BY <1>1, SignalAtInv
  <2> QED OBVIOUS
<1> ASSUME Signal(t) PROVE CondInv'
  <2>1. csq \in Seq(Threads) /\ Prio \in [Threads -> Nat] /\ Protocol \in {"fifo", "prio"}
    BY Types, MutexAssumption
  <2> Schedule(csq) \in 1..Len(csq) /\ SignalAt(t, Schedule(csq))
    BY <2>1, ScheduleFacts DEF Signal
  <2> QED BY <1>1
<1> ASSUME \E i \in DOMAIN csq : SignalTo(t, i) PROVE CondInv'
  <2> DOMAIN csq = 1..Len(csq)
    BY SMT, Types
  <2> QED BY <1>1 DEF SignalTo
<1> ASSUME SignalStopped(t) PROVE CondInv'
  <2> /\ MayEnter(t) /\ pc[t] = "user" /\ Goto(t, "again_s")
      /\ UNCHANGED <<owner, sq, lock_count, mutex, exists, stop, arg, heir, depth, st, cancel>>
      /\ UNCHANGED <<csq, cexists, ret, requeued, rest, held>>
    BY DEF SignalStopped, Signaling, mutexVars, threadVars, condVars
  <2> QED BY GiveWayInv
<1> ASSUME SignalAll(t) PROVE CondInv'
  <2> CASE \E i \in DOMAIN csq : Repeating(csq[i])
    <3> /\ MayEnter(t) /\ pc[t] = "user" /\ Goto(t, "again_s")
        /\ UNCHANGED <<owner, sq, lock_count, mutex, exists, stop, arg, heir, depth, st, cancel>>
        /\ UNCHANGED <<csq, cexists, ret, requeued, rest, held>>
      BY DEF SignalAll, Signaling, threadVars
    <3> QED BY GiveWayInv
  <2> CASE \A i \in DOMAIN csq : ~Repeating(csq[i])
    BY SignalAllInv
  <2> QED OBVIOUS
<1> ASSUME SignalAllNext(t) \/ SignalAwake(t) PROVE CondInv'
  BY SignalAllNextInv, CallAwakeInv
<1> QED BY DEF SignalCall

\* Every step keeps the invariant.
LEMMA CondNextInv ==
    ASSUME CondInv, PlainStops, [CondNext]_cvars
    PROVE  CondInv'
<1> CASE UNCHANGED cvars
  <2> /\ UNCHANGED <<owner, sq, lock_count, mutex, pc, arg, heir, depth, st, cancel>>
      /\ UNCHANGED <<csq, ret, requeued, rest, held>> /\ stop' = stop /\ exists' = exists /\ cexists' = cexists
    BY DEF cvars, vars, mutexVars, threadVars, condVars
  <2> QED BY Types, ObjectInv
<1> CASE MutexStep /\ UNCHANGED condVars
  <2> ASSUME NEW t \in Threads, Lock(t) \/ TryLock(t) \/ UnlockCall(t) \/ Halt(t) PROVE CondInv'
    BY MutexCallInv
  <2> ASSUME NEW t \in Threads, Destroy(t) PROVE CondInv'
    <3> /\ UNCHANGED <<owner, sq, lock_count, mutex, pc, arg, heir, depth, st, cancel>>
        /\ UNCHANGED <<csq, ret, requeued, rest, held>> /\ stop' = stop /\ exists' = FALSE /\ cexists' = cexists
      BY DEF Destroy, threadVars, condVars
    <3> QED BY Types, ObjectInv
  <2> ASSUME Stop PROVE CondInv'
    <3> /\ UNCHANGED <<owner, sq, lock_count, mutex, pc, arg, heir, depth, st, cancel>>
        /\ UNCHANGED <<csq, ret, requeued, rest, held>> /\ stop' = TRUE /\ FutureSleepers = {}
        /\ exists' = exists /\ cexists' = cexists
      BY DEF Stop, mutexVars, threadVars, condVars
    <3> QED BY Types, ObjectInv
  <2> QED BY DEF MutexStep
<1> ASSUME NEW t \in Threads, WaitCall(t) \/ SignalCall(t) PROVE CondInv'
  BY WaitCallInv, SignalCallInv
<1> ASSUME NEW t \in Threads, CondCreate(t) \/ CondDestroy(t) PROVE CondInv'
  <2> /\ UNCHANGED <<owner, sq, lock_count, mutex, pc, arg, heir, depth, st, cancel>>
      /\ UNCHANGED <<csq, ret, requeued, rest, held>> /\ stop' = stop /\ exists' = exists /\ cexists' \in BOOLEAN
    BY DEF CondCreate, CondDestroy, vars, mutexVars, threadVars
  <2> QED BY Types, ObjectInv
<1> CASE CondReload
  BY CondReloadInv
<1> QED BY DEF CondNext

-----------------------------------------------------------------------------
\* What the invariant implies

\* emplace() links the thread and loses none.
LEMMA EmplaceHead ==
    ASSUME NEW s \in Seq(Threads), NEW t \in Threads
    PROVE  /\ InQueue(Emplace(s, t), t)
           /\ \A u : InQueue(s, u) => InQueue(Emplace(s, t), u)
<1> DEFINE q == Emplace(s, t)
<1>1. 1 \in DOMAIN q /\ q[1] = t
  BY SMT DEF Emplace
<1>2. \A i \in DOMAIN s : i + 1 \in DOMAIN q /\ q[i + 1] = s[i]
  BY SMT DEF Emplace
<1> HIDE DEF q
<1> InQueue(q, t) /\ \A u : InQueue(s, u) => InQueue(q, u)
  BY <1>1, <1>2 DEF InQueue
<1> QED BY DEF q

\* The list of two queues without a common thread has no thread twice.
LEMMA ConcatOnce ==
    ASSUME NEW s \in Seq(Threads), NEW r \in Seq(Threads), Once(s), Once(r),
           \A u : ~(InQueue(s, u) /\ InQueue(r, u))
    PROVE  /\ s \o r \in Seq(Threads) /\ Once(s \o r)
           /\ \A u : InQueue(s \o r, u) <=> InQueue(s, u) \/ InQueue(r, u)
<1> DEFINE q == s \o r
<1>1. /\ q \in Seq(Threads) /\ DOMAIN q = 1..(Len(s) + Len(r)) /\ Len(s) \in Nat /\ Len(r) \in Nat
      /\ DOMAIN s = 1..Len(s) /\ DOMAIN r = 1..Len(r)
  BY SMT
<1>2. \A i \in DOMAIN s : i \in DOMAIN q /\ q[i] = s[i]
  BY SMT, <1>1
<1>3. \A i \in DOMAIN r : i + Len(s) \in DOMAIN q /\ q[i + Len(s)] = r[i]
  BY SMT, <1>1
<1>4. \A i \in DOMAIN q : i \in DOMAIN s \/ (i - Len(s) \in DOMAIN r /\ q[i] = r[i - Len(s)])
  BY SMT, <1>1
<1> HIDE DEF q
<1>5. \A u : InQueue(q, u) <=> InQueue(s, u) \/ InQueue(r, u)
  <2>1. ASSUME NEW u, InQueue(q, u) PROVE InQueue(s, u) \/ InQueue(r, u)
    BY <2>1, <1>2, <1>4 DEF InQueue
  <2>2. ASSUME NEW u, InQueue(s, u) PROVE InQueue(q, u)
    BY <2>2, <1>2 DEF InQueue
  <2>3. ASSUME NEW u, InQueue(r, u) PROVE InQueue(q, u)
    BY <2>3, <1>3 DEF InQueue
  <2> QED BY <2>1, <2>2, <2>3
<1>6. ASSUME NEW i \in DOMAIN q, NEW j \in DOMAIN q, q[i] = q[j] PROVE i = j
  <2>1. CASE i \in DOMAIN s /\ j \in DOMAIN s
    BY <1>2, <1>6, <2>1 DEF Once
  <2>2. CASE i \notin DOMAIN s /\ j \notin DOMAIN s
    <3>1. /\ i - Len(s) \in DOMAIN r /\ j - Len(s) \in DOMAIN r
          /\ r[i - Len(s)] = r[j - Len(s)]
      BY <1>4, <1>6, <2>2
    <3>2. i - Len(s) = j - Len(s)
      BY <3>1 DEF Once
    <3> QED BY SMT, <1>1, <3>2
  <2>3. CASE i \in DOMAIN s /\ j \notin DOMAIN s
    BY <1>2, <1>4, <1>6, <2>3 DEF InQueue
  <2>4. CASE i \notin DOMAIN s /\ j \in DOMAIN s
    BY <1>2, <1>4, <1>6, <2>4 DEF InQueue
  <2> QED BY <2>1, <2>2, <2>3, <2>4
<1>7. Once(q)
  BY <1>6 DEF Once
<1> QED BY <1>1, <1>5, <1>7 DEF q

\* The three queues, one behind the other, contain no thread twice.
LEMMA OneQueue ==
    ASSUME CondInv
    PROVE  InOneQueue
<1> DEFINE moved == IF mutex = None THEN <<>> ELSE rest[mutex]
           two == csq \o sq
           all == two \o moved
<1>1. csq \in Seq(Threads) /\ sq \in Seq(Threads) /\ Once(csq) /\ Once(sq)
  BY Types DEF CondInv, QueuesOnce
<1> /\ moved \in Seq(Threads) /\ Once(moved)
    /\ \A u : InQueue(moved, u) <=> Moving(u)
  <2> CASE mutex = None
    <3> moved = <<>> /\ <<>> \in Seq(Threads) /\ Once(<<>>)
      BY SMT DEF Once
    <3> \A u : ~InQueue(<<>>, u)
      BY NotEmpty
    <3> QED BY DEF Moving
  <2> CASE mutex # None
    <3>1. mutex \in Threads /\ moved = rest[mutex]
      BY Types
    <3> rest[mutex] \in Seq(Threads)
      BY SMT, <3>1, Types
    <3> QED BY <3>1 DEF CondInv, QueuesOnce, Moving
  <2> QED OBVIOUS
<1> HIDE DEF moved
<1>2. ASSUME NEW s \in Seq(Threads), NEW u, InQueue(s, u) PROVE u \in Threads
  BY SMT, <1>2 DEF InQueue
<1>3. ASSUME NEW u \in Threads PROVE Placed(u)
  BY DEF CondInv, ThreadInv
<1> /\ two \in Seq(Threads) /\ Once(two)
    /\ \A u : InQueue(two, u) <=> InQueue(csq, u) \/ InQueue(sq, u)
  <2> \A u : ~(InQueue(csq, u) /\ InQueue(sq, u))
    BY <1>1, <1>2, <1>3 DEF Placed
  <2> QED BY <1>1, ConcatOnce
<1> HIDE DEF two
<1> /\ all \in Seq(Threads) /\ Once(all)
    /\ \A u : InQueue(all, u) <=> InQueue(two, u) \/ InQueue(moved, u)
  <2> \A u : ~(InQueue(two, u) /\ InQueue(moved, u))
    BY <1>2, <1>3 DEF Placed
  <2> QED BY ConcatOnce
<1> HIDE DEF all
<1> ASSUME NEW i \in DOMAIN all PROVE pc[all[i]] \in Awaiting \cup CondAwaiting
  <2> SqPlaces \cup CsqPlaces \cup RestPlaces \subseteq Awaiting \cup CondAwaiting
    BY SMT DEF SqPlaces, CsqPlaces, RestPlaces, Awaiting, CondAwaiting
  <2>1. InQueue(all, all[i])
    BY DEF InQueue
  <2>2. all[i] \in Threads
    BY <1>2, <2>1
  <2> pc[all[i]] \in SqPlaces \cup CsqPlaces \cup RestPlaces
    BY <1>3, <2>1, <2>2 DEF Placed
  <2> QED OBVIOUS
<1> IsInjective(all)
  BY DEF Once, IsInjective
<1> all = csq \o sq \o (IF mutex = None THEN <<>> ELSE rest[mutex])
  BY DEF all, two, moved
<1> QED BY DEF InOneQueue

\* Where the waiters are that a step takes out of the queue of the condition variable.
WaitersMoved ==
    \A t \in Threads :
        InQueue(csq, t) /\ ~InQueue(csq', t) /\ ~(stop /\ ~stop') =>
            \/ InQueue(sq', t)
            \/ owner' = t
            \/ mutex' # None /\ InQueue(rest'[mutex'], t)

\* No step but a reload takes a waiter out of the condition variable's queue
\* without moving it to the mutex.
LEMMA WaitersMovedNext ==
    ASSUME CondInv, [CondNext]_cvars
    PROVE  [WaitersMoved]_cvars
<1> USE DEF WaitersMoved
<1> csq \in Seq(Threads) /\ Once(csq) /\ DOMAIN csq = 1..Len(csq)
  BY SMT, Types DEF CondInv, QueuesOnce
<1>1. ASSUME csq' = csq PROVE WaitersMoved
  BY <1>1
<1>2. \A u \in Threads : InQueue(Emplace(sq, u), u)
  BY Types, EmplaceHead
<1> CASE MutexStep /\ UNCHANGED condVars
  BY <1>1 DEF condVars
<1> ASSUME NEW t \in Threads, WaitCall(t) PROVE WaitersMoved
  <2> ASSUME NEW timeout \in Timeouts, CondWait(t, timeout) PROVE WaitersMoved
    <3> csq' = csq \/ csq' = Emplace(csq, t)
      BY DEF CondWait
    <3> QED BY <1>1, EmplaceHead
  <2> ASSUME CondWaitAgain(t) PROVE WaitersMoved
    <3> csq' = csq \/ csq' = Emplace(csq, t)
      BY DEF CondWaitAgain
    <3> QED BY <1>1, EmplaceHead
  <2> ASSUME CondExpired(t) PROVE WaitersMoved
    <3> CASE InQueue(csq, t)
      <4>1. csq' = Unqueue(csq, t) /\ (owner' = t \/ sq' = Emplace(sq, t))
        BY DEF CondExpired
      <4> \A u : InQueue(csq, u) /\ ~InQueue(csq', u) => u = t
        BY <4>1, UnqueueFacts
      <4> QED BY <1>2, <4>1
    <3> CASE ~InQueue(csq, t)
      BY <1>1 DEF CondExpired
    <3> QED OBVIOUS
  <2> ASSUME \/ CondRefused(t) \/ CondSleep(t) \/ CondSignaled(t) \/ CondStopped(t) \/ CondTimeout(t)
             \/ CondRescheduled(t) \/ CondResleep(t) \/ CondReturn(t)
      PROVE  WaitersMoved
    <3> csq' = csq
      BY DEF CondRefused, CondSleep, CondSignaled, CondStopped, CondTimeout, CondRescheduled, CondResleep,
             CondReturn, condVars
    <3> QED BY <1>1
  <2> QED BY DEF WaitCall
<1> ASSUME NEW t \in Threads, SignalCall(t) PROVE WaitersMoved
  <2>1. ASSUME NEW i \in 1..Len(csq), SignalAt(t, i) PROVE WaitersMoved
    <3> CASE csq' = Unlink(csq, i) /\ TryOwnFor(t, csq[i])
      <4> owner' = csq[i] \/ sq' = Emplace(sq, csq[i])
        BY DEF TryOwnFor
      <4> csq[i] \in Threads /\ \A u : InQueue(csq, u) /\ ~InQueue(csq', u) => u = csq[i]
        BY UnlinkFacts
      <4> QED BY <1>2
    <3> QED BY <1>1, <2>1 DEF SignalAt
  <2> ASSUME Signal(t) PROVE WaitersMoved
    <3> Schedule(csq) \in 1..Len(csq) /\ SignalAt(t, Schedule(csq))
      BY MutexAssumption, ScheduleFacts DEF Signal
    <3> QED BY <2>1
  <2> ASSUME SignalAll(t) PROVE WaitersMoved
    <3> CASE csq' = csq
      BY <1>1
    <3> CASE csq' # csq
      <4>1. rest' = [rest EXCEPT ![t] = csq] /\ mutex' = t
        BY DEF SignalAll
      <4> rest'[t] = csq /\ t # None
        BY SMT, <4>1, Types, MutexAssumption
      <4> QED BY <4>1
    <3> QED OBVIOUS
  <2> ASSUME SignalStopped(t) \/ SignalAllNext(t) \/ SignalAwake(t) PROVE WaitersMoved
    <3> csq' = csq
      BY DEF SignalStopped, SignalAllNext, SignalAwake, condVars
    <3> QED BY <1>1
  <2> QED BY <2>1 DEF SignalCall, SignalTo
<1> ASSUME NEW t \in Threads, CondCreate(t) \/ CondDestroy(t) PROVE WaitersMoved
  BY <1>1 DEF CondCreate, CondDestroy
<1> CASE CondReload
  BY DEF CondReload
<1> QED BY DEF CondNext

-----------------------------------------------------------------------------
\* The lock the threads see

\* The lock of Lv2Lock, with depth and held as its variables.
ClientLock == INSTANCE Lv2Lock

\* To the threads that use them, mutex and condition variable are the lock of
\* Lv2Lock: no call but a successful lock, an unlock, and the begin and the end of a
\* wait changes what a thread has, and each of them only when Lv2Lock allows it.
ImplementsLock == ClientLock!Spec

\* Only a thread inside sys_cond_wait has levels to get back.
HeldInv == \A t \in Threads : held[t] > 0 => pc[t] \in GivenUpPlaces \/ Kept(t)

\* A step the client may see, or one it does not notice.
ClientStep == ClientLock!Next \/ UNCHANGED <<depth, held>>

\* Only t moves, and only who is made the owner is awoken.
OnlyMoves(t) ==
    \A u \in Threads \ {t} : pc'[u] = pc[u] /\ (st'[u] = st[u] \/ pc[u] \in HeirPlaces)

\* A step of t keeps HeldInv if t has nothing to get back outside sys_cond_wait.
LEMMA HeldStep ==
    ASSUME CondInv, HeldInv, NEW t \in Threads, OnlyMoves(t),
           \A u \in Threads \ {t} : held'[u] = held[u],
           held'[t] > 0 => pc'[t] \in GivenUpPlaces \/ Kept(t)'
    PROVE  HeldInv'
<1> SUFFICES ASSUME NEW u \in Threads, held'[u] > 0
             PROVE  pc'[u] \in GivenUpPlaces \/ Kept(u)'
  BY DEF HeldInv
<1> CASE u = t
  OBVIOUS
<1> CASE u # t
  <2> pc'[u] = pc[u] /\ (st'[u] = st[u] \/ pc[u] \in HeirPlaces) /\ held[u] > 0
    BY DEF OnlyMoves
  <2> pc[u] \in {"again_c", "redo_c"} => pc[u] \notin HeirPlaces
    BY SMT DEF HeirPlaces
  <2> QED BY DEF HeldInv, Kept
<1> QED OBVIOUS

\* What a step of t does to places and states.
LEMMA OneMoves ==
    ASSUME CondInv, NEW t \in Threads, pc' = pc \/ \E p : Goto(t, p),
           \/ st' = st \/ Sleep(t) \/ SelfAwake(t) \/ Resume(t)
           \/ mutex = t /\ (Awake({heir[t]}) \/ SleepAndAwake(t, {heir[t]}))
    PROVE  OnlyMoves(t)
<1> SUFFICES ASSUME NEW u \in Threads, u # t
             PROVE  pc'[u] = pc[u] /\ (st'[u] = st[u] \/ pc[u] \in HeirPlaces)
  BY DEF OnlyMoves
<1> pc'[u] = pc[u]
  BY Types DEF Goto
<1> CASE st' = st
  OBVIOUS
<1> CASE Sleep(t) \/ SelfAwake(t) \/ Resume(t)
  BY Types DEF Sleep, Asleep, SelfAwake, Resume
<1> CASE mutex = t /\ (Awake({heir[t]}) \/ SleepAndAwake(t, {heir[t]}))
  <2> st'[u] = st[u] \/ u = heir[t]
    BY SMT DEF Awake, SleepAndAwake
  <2> u = heir[t] => pc[u] \in HeirPlaces
    <3> u # None /\ t # None
      BY MutexAssumption
    <3> QED BY DEF CondInv, HeirInv
  <2> QED OBVIOUS
<1> QED OBVIOUS

\* The owner that is not told holds the mutex at no other place than these.
LEMMA OwnerHolds ==
    ASSUME CondInv, NEW t \in Threads, owner = t, pc[t] \notin HeirPlaces \cup {"c_return"}
    PROVE  depth[t] > 0
<1> depth[t] # 0
  BY DEF CondInv, ThreadInv, Counted
<1> depth[t] \in Nat
  BY SMT, Types
<1> QED BY SMT

\* Two threads do not both have the mutex.
LEMMA ExclusiveNext ==
    ASSUME CondInv', NEW t \in Threads, depth'[t] > 0
    PROVE  \A u \in Threads \ {t} : depth'[u] = 0
<1> SUFFICES ASSUME NEW u \in Threads, u # t, depth'[u] # 0 PROVE FALSE
  OBVIOUS
<1> depth'[u] > 0
  <2> depth'[u] \in Nat
    BY SMT DEF CondInv, CondTypeOK
  <2> QED BY SMT
<1> QED BY DEF CondInv, ThreadInv, Counted

\* A call that returns the mutex to t is a Lock of the client.
LEMMA ClientLocks ==
    ASSUME CondInv, CondInv', NEW t \in Threads, depth' = [depth EXCEPT ![t] = @ + 1], held' = held,
           depth[t] = 0 \/ Recursive
    PROVE  ClientStep
<1> /\ depth'[t] = depth[t] + 1 /\ depth[t] \in Nat /\ depth'[t] > 0
    /\ \A u \in Threads \ {t} : depth'[u] = depth[u]
  BY SMT, Types
<1>1. \A u \in Threads \ {t} : depth'[u] = 0
  BY ExclusiveNext
<1>2. ClientLock!OthersOut(t)
  BY <1>1 DEF ClientLock!OthersOut
<1>3. depth[t] > 0 => Recursive
  BY SMT
<1> ClientLock!Lock(t)
  BY <1>2, <1>3 DEF ClientLock!Lock
<1> QED BY DEF ClientStep, ClientLock!Next

\* A call that gives up one level is an Unlock of the client.
LEMMA ClientUnlocks ==
    ASSUME NEW t \in Threads, depth' = [depth EXCEPT ![t] = @ - 1], held' = held, depth[t] > 0
    PROVE  ClientStep
<1> ClientLock!Unlock(t)
  BY DEF ClientLock!Unlock
<1> QED BY DEF ClientStep, ClientLock!Next

\* A step of t outside sys_cond_wait that keeps what is held.
LEMMA OutsideWait ==
    ASSUME CondInv, HeldInv, NEW t \in Threads, held' = held,
           pc' = pc \/ \E p : Goto(t, p),
           \/ st' = st \/ Sleep(t) \/ SelfAwake(t) \/ Resume(t)
           \/ mutex = t /\ (Awake({heir[t]}) \/ SleepAndAwake(t, {heir[t]})),
           pc[t] \notin GivenUpPlaces, ~Kept(t)
    PROVE  HeldInv'
<1> OnlyMoves(t)
  BY OneMoves
<1> ~(held'[t] > 0)
  BY DEF HeldInv
<1> QED BY HeldStep

\* A step of t that stays inside sys_cond_wait.
LEMMA InsideWait ==
    ASSUME CondInv, HeldInv, NEW t \in Threads, \A u \in Threads \ {t} : held'[u] = held[u],
           NEW p \in CondPlaces, Goto(t, p), p \in GivenUpPlaces,
           \/ st' = st \/ Sleep(t) \/ SelfAwake(t) \/ Resume(t)
           \/ mutex = t /\ (Awake({heir[t]}) \/ SleepAndAwake(t, {heir[t]}))
    PROVE  HeldInv'
<1> OnlyMoves(t)
  BY OneMoves
<1> pc'[t] = p
  BY GotoPlace
<1> QED BY HeldStep

\* The calls on the mutex lock it, unlock it, or are not noticed.
LEMMA MutexCallClient ==
    ASSUME CondInv, CondInv', HeldInv, NEW t \in Threads, UNCHANGED condVars,
           Lock(t) \/ TryLock(t) \/ UnlockCall(t) \/ Halt(t)
    PROVE  HeldInv' /\ ClientStep
<1> held' = held /\ t # None
  BY MutexAssumption DEF condVars
<1>1. pc[t] \in {"user", "redo_l", "l_own", "l_sleep", "l_yield", "waiting", "resched", "l_expired",
                 "redo_u", "u_lock", "u_awake"}
  BY DEF Lock, UnlockCall, LockAtOnce, LockBusy, Entering, LockOwn, LockSleep, LockYield, WaitSignaled,
         WaitStopped, WaitTimeout, WaitRescheduled, WaitExpired, TryLock, Unlock, UnlockReown, UnlockAwake,
         Halt
<1>2. pc[t] \notin GivenUpPlaces /\ ~Kept(t)
  BY SMT, <1>1 DEF GivenUpPlaces, Kept
<1>3. pc' = pc \/ \E p : Goto(t, p)
  <2> CASE Lock(t)
    BY DEF Lock, LockAtOnce, LockBusy, LockOwn, LockSleep, LockYield, WaitSignaled, WaitStopped,
           WaitTimeout, WaitRescheduled, WaitExpired, ReturnLocked, Return
  <2> CASE TryLock(t) \/ UnlockCall(t) \/ Halt(t)
    BY DEF TryLock, UnlockCall, Unlock, UnlockReown, UnlockAwake, Halt
  <2> QED OBVIOUS
<1>4. \/ st' = st \/ Sleep(t) \/ SelfAwake(t) \/ Resume(t)
      \/ mutex = t /\ (Awake({heir[t]}) \/ SleepAndAwake(t, {heir[t]}))
  <2> CASE Lock(t)
    BY DEF Lock, LockAtOnce, LockBusy, LockOwn, LockSleep, LockYield, WaitSignaled, WaitStopped,
           WaitTimeout, WaitRescheduled, WaitExpired, Announce, threadVars
  <2> CASE TryLock(t) \/ Unlock(t) \/ UnlockReown(t) \/ Halt(t)
    BY DEF TryLock, Unlock, UnlockReown, Halt, threadVars
  <2> CASE UnlockAwake(t)
    <3> pc[t] = "u_awake" /\ "u_awake" \in MutexPlaces /\ Awake({heir[t]})
      BY SMT DEF UnlockAwake, MutexPlaces
    <3> QED BY DEF CondInv, ThreadInv, Locked
  <2> QED BY DEF UnlockCall
<1> HeldInv'
  BY <1>2, <1>3, <1>4, OutsideWait
<1> ClientStep
  <2>1. CASE UNCHANGED depth
    BY <2>1 DEF ClientStep
  <2>2. ASSUME depth' = [depth EXCEPT ![t] = @ + 1], depth[t] = 0 \/ Recursive PROVE ClientStep
    BY <2>2, ClientLocks
  <2>3. ASSUME depth' = [depth EXCEPT ![t] = @ - 1], depth[t] > 0 PROVE ClientStep
    BY <2>3, ClientUnlocks
  <2>4. owner = None => depth[t] = 0
    <3> owner = None => ~(depth[t] > 0)
      BY DEF CondInv, ThreadInv, Counted
    <3> depth[t] \in Nat
      BY SMT, Types
    <3> QED BY SMT
  <2>5. pc[t] \in LockingPlaces => depth[t] = 0
    BY DEF CondInv, ThreadInv, Counted
  <2>6. ASSUME TryLockOk(t), depth' = [depth EXCEPT ![t] = @ + 1] PROVE ClientStep
    BY <2>2, <2>4, <2>6 DEF TryLockOk
  <2> CASE TryLock(t) \/ \E timeout \in Timeouts : LockAtOnce(t, timeout)
    BY <2>6 DEF TryLock, LockAtOnce, ReturnLocked
  <2> CASE LockOwn(t) \/ LockSleep(t) \/ WaitSignaled(t) \/ WaitStopped(t) \/ WaitExpired(t)
    <3> depth[t] = 0
      <4> pc[t] \in {"l_own", "l_sleep", "waiting", "l_expired"}
        BY DEF LockOwn, LockSleep, WaitSignaled, WaitStopped, WaitExpired
      <4> QED BY <2>5, WaitingPlace
    <3> depth' = depth \/ depth' = [depth EXCEPT ![t] = @ + 1]
      BY DEF LockOwn, LockSleep, WaitSignaled, WaitStopped, WaitExpired, ReturnLocked
    <3> QED BY <2>1, <2>2
  <2> CASE Unlock(t) \/ UnlockReown(t)
    <3> depth[t] > 0
      <4> CASE Unlock(t)
        <5> owner = t /\ pc[t] \notin HeirPlaces \cup {"c_return"}
          BY SMT DEF Unlock, HeirPlaces
        <5> QED BY OwnerHolds
      <4> CASE UnlockReown(t)
        <5> depth[t] = 1
          BY DEF UnlockReown, CondInv, ThreadInv, Fated
        <5> QED BY SMT
      <4> QED OBVIOUS
    <3> depth' = depth \/ depth' = [depth EXCEPT ![t] = @ - 1]
      BY DEF Unlock, UnlockReown, Released
    <3> QED BY <2>1, <2>3
  <2> CASE \/ \E timeout \in Timeouts : LockBusy(t, timeout)
           \/ LockYield(t) \/ WaitTimeout(t) \/ WaitRescheduled(t) \/ UnlockAwake(t) \/ Halt(t)
    BY <2>1 DEF LockBusy, LockYield, WaitTimeout, WaitRescheduled, UnlockAwake, Halt
  <2> QED BY DEF Lock, UnlockCall
<1> QED OBVIOUS

\* sys_cond_wait gives up all levels.
LEMMA CondWaitClient ==
    ASSUME CondInv, HeldInv, NEW t \in Threads, NEW timeout \in Timeouts, CondWait(t, timeout)
    PROVE  HeldInv' /\ ClientStep
<1> /\ owner = t /\ pc[t] \in {"user", "redo_c"} /\ (pc[t] = "redo_c" => st[t] # "sleep")
    /\ pc[t] \notin HeirPlaces \cup {"c_return"} /\ pc[t] \notin GivenUpPlaces
    /\ pc[t] # "again_c" /\ st' = st
  BY SMT DEF CondWait, HeirPlaces, GivenUpPlaces, threadVars
<1> depth[t] > 0 /\ ~Kept(t)
  BY OwnerHolds DEF Kept
<1>1. held[t] = 0
  <2> ~(held[t] > 0)
    BY DEF HeldInv
  <2> held[t] \in Nat
    BY SMT, Types
  <2> QED BY SMT
<1> CASE Goto(t, "again_c") /\ UNCHANGED <<depth, held>>
  <2> HeldInv'
    BY OutsideWait
  <2> QED BY DEF ClientStep
<1> CASE /\ Goto(t, "c_sleep") /\ held' = [held EXCEPT ![t] = depth[t]]
         /\ depth' = [depth EXCEPT ![t] = 0]
  <2>1. "c_sleep" \in CondPlaces /\ "c_sleep" \in GivenUpPlaces
    BY PlacesHold DEF GivenUpPlaces
  <2>2. \A u \in Threads \ {t} : held'[u] = held[u]
    BY SMT, Types
  <2> HeldInv'
    BY <2>1, <2>2, InsideWait
  <2> ClientLock!Wait(t)
    BY <1>1 DEF ClientLock!Wait
  <2> QED BY DEF ClientStep, ClientLock!Next
<1> QED BY DEF CondWait

\* It gets them back, and nobody has the mutex then.
LEMMA CondReturnClient ==
    ASSUME CondInv, CondInv', HeldInv, NEW t \in Threads, CondReturn(t)
    PROVE  HeldInv' /\ ClientStep
<1> /\ pc[t] = "c_return" /\ Goto(t, "user") /\ st' = st
    /\ depth' = [depth EXCEPT ![t] = held[t]] /\ held' = [held EXCEPT ![t] = 0]
  BY DEF CondReturn, Return, threadVars
<1>1. held[t] > 0 /\ depth[t] = 0
  BY EndPlaces DEF CondInv, ThreadInv, Counted
<1> /\ depth'[t] = held[t] /\ \A u \in Threads \ {t} : depth'[u] = depth[u]
    /\ ~(held'[t] > 0) /\ \A u \in Threads \ {t} : held'[u] = held[u]
  BY SMT, Types
<1>2. OnlyMoves(t)
  BY OneMoves
<1> HeldInv'
  BY <1>2, HeldStep
<1>3. depth'[t] > 0
  BY <1>1
<1>4. ClientLock!OthersOut(t)
  BY <1>3, ExclusiveNext DEF ClientLock!OthersOut
<1> ClientLock!Return(t)
  BY <1>1, <1>4 DEF ClientLock!Return
<1> QED BY DEF ClientStep, ClientLock!Next

\* The steps of sys_cond_wait: its first gives the levels up, its last gets them
\* back, and the others are not noticed.
LEMMA WaitCallClient ==
    ASSUME CondInv, CondInv', HeldInv, NEW t \in Threads, WaitCall(t)
    PROVE  HeldInv' /\ ClientStep
<1> ASSUME \E timeout \in Timeouts : CondWait(t, timeout) PROVE HeldInv' /\ ClientStep
  BY CondWaitClient
<1> ASSUME CondReturn(t) PROVE HeldInv' /\ ClientStep
  BY CondReturnClient
<1> ASSUME CondRefused(t) PROVE HeldInv' /\ ClientStep
  <2> /\ pc[t] = "redo_c" /\ st[t] # "sleep" /\ pc[t] \notin GivenUpPlaces /\ Goto(t, "user")
      /\ held' = [held EXCEPT ![t] = 0] /\ st' = st /\ depth' = depth
    BY SMT DEF CondRefused, Return, GivenUpPlaces, threadVars
  <2>1. ~(held[t] > 0)
    BY DEF HeldInv, Kept
  <2>2. held' = held
    BY SMT, <2>1, Types
  <2> HeldInv'
    BY <2>2, OutsideWait DEF Kept
  <2> QED BY <2>2 DEF ClientStep
<1>1. {"c_return", "c_resched", "c_expired", "c_waiting", "c_resleep", "c_mutex"}
         \subseteq CondPlaces \cap GivenUpPlaces
  BY PlacesHold DEF GivenUpPlaces
<1> ASSUME \/ CondWaitAgain(t) \/ CondSignaled(t) \/ CondTimeout(t) \/ CondRescheduled(t)
           \/ CondExpired(t) \/ CondResleep(t) \/ CondSleep(t)
           \/ CondStopped(t) /\ ~InQueue(csq, t) /\ ~InQueue(sq, t)
    PROVE  HeldInv' /\ ClientStep
  <2>1. \E p \in {"c_return", "c_resched", "c_expired", "c_waiting", "c_resleep", "c_mutex"} : Goto(t, p)
    BY DEF CondWaitAgain, CondSignaled, CondTimeout, CondRescheduled, CondExpired, CondResleep, CondSleep,
           CondStopped
  <2>2. UNCHANGED <<depth, held>>
    BY DEF CondWaitAgain, CondSignaled, CondTimeout, CondRescheduled, CondExpired, CondResleep, CondSleep,
           CondStopped, condVars
  <2>3. \/ st' = st \/ Sleep(t) \/ SelfAwake(t) \/ Resume(t)
        \/ mutex = t /\ (Awake({heir[t]}) \/ SleepAndAwake(t, {heir[t]}))
    <3> CASE CondSleep(t)
      <4> pc[t] = "c_sleep" /\ "c_sleep" \in MutexPlaces /\ SleepAndAwake(t, {heir[t]})
        BY SMT DEF CondSleep, MutexPlaces
      <4> QED BY DEF CondInv, ThreadInv, Locked
    <3> QED BY DEF CondWaitAgain, CondSignaled, CondTimeout, CondRescheduled, CondExpired, CondResleep,
                   CondStopped, threadVars
  <2> HeldInv'
    BY <1>1, <2>1, <2>2, <2>3, InsideWait
  <2> QED BY <2>2 DEF ClientStep
<1> ASSUME CondStopped(t), InQueue(csq, t) \/ InQueue(sq, t) PROVE HeldInv' /\ ClientStep
  <2> /\ pc[t] \in SleepPlaces /\ Goto(t, "again_c") /\ st' = st /\ UNCHANGED <<depth, held>>
    BY DEF CondStopped, SleepPlaces, threadVars
  <2>1. st[t] = "sleep"
    BY DEF CondInv, ThreadInv, Sleeping, Pending, Waits
  <2>2. pc'[t] = "again_c" /\ OnlyMoves(t)
    BY PlacesHold, GotoPlace, OneMoves
  <2>3. Kept(t)'
    BY <2>1, <2>2 DEF Kept
  <2> HeldInv'
    BY <2>2, <2>3, HeldStep
  <2> QED BY DEF ClientStep
<1> QED BY DEF WaitCall

\* A signal changes nothing for the client.
LEMMA SignalCallClient ==
    ASSUME CondInv, HeldInv, NEW t \in Threads, SignalCall(t)
    PROVE  HeldInv' /\ ClientStep
<1> pc[t] \in {"user", "s_all", "s_awake"} /\ (pc' = pc \/ \E p : Goto(t, p)) /\ UNCHANGED <<depth, held>>
  BY DEF SignalCall, SignalStopped, Signal, SignalTo, SignalAt, SignalAll, SignalAllNext, SignalAwake,
         Signaling, condVars
<1>1. \/ st' = st
      \/ mutex = t /\ (Awake({heir[t]}) \/ SleepAndAwake(t, {heir[t]}))
  <2> CASE SignalAwake(t)
    <3> pc[t] \in MutexPlaces /\ Awake({heir[t]})
      BY EndPlaces DEF SignalAwake
    <3> QED BY DEF CondInv, ThreadInv, Locked
  <2> QED BY DEF SignalCall, SignalStopped, Signal, SignalTo, SignalAt, SignalAll, SignalAllNext, threadVars
<1>2. pc[t] \notin GivenUpPlaces /\ ~Kept(t)
  BY EndPlaces DEF Kept
<1> HeldInv'
  BY <1>1, <1>2, OutsideWait
<1> QED BY DEF ClientStep

\* Every step of mutex and condition variable is one the client may see, or none.
LEMMA CondNextClient ==
    ASSUME CondInv, CondInv', HeldInv, [CondNext]_cvars
    PROVE  HeldInv' /\ ClientStep
<1>1. ASSUME UNCHANGED <<pc, st, depth, held>> PROVE HeldInv' /\ ClientStep
  BY <1>1 DEF HeldInv, Kept, ClientStep
<1> CASE UNCHANGED cvars
  BY <1>1 DEF cvars, vars, threadVars, condVars
<1> CASE MutexStep /\ UNCHANGED condVars
  <2> ASSUME NEW t \in Threads, Lock(t) \/ TryLock(t) \/ UnlockCall(t) \/ Halt(t)
      PROVE  HeldInv' /\ ClientStep
    BY MutexCallClient
  <2> ASSUME NEW t \in Threads, Destroy(t) PROVE HeldInv' /\ ClientStep
    BY <1>1 DEF Destroy, threadVars, condVars
  <2> ASSUME Stop PROVE HeldInv' /\ ClientStep
    BY <1>1 DEF Stop, threadVars, condVars
  <2> QED BY DEF MutexStep
<1> ASSUME NEW t \in Threads, WaitCall(t) \/ SignalCall(t) PROVE HeldInv' /\ ClientStep
  BY WaitCallClient, SignalCallClient
<1> ASSUME NEW t \in Threads, CondCreate(t) \/ CondDestroy(t) PROVE HeldInv' /\ ClientStep
  BY <1>1 DEF CondCreate, CondDestroy, vars, threadVars
<1> CASE CondReload
  <2>1. UNCHANGED <<depth, held>>
    BY DEF CondReload
  <2> ASSUME NEW t \in Threads, held'[t] > 0 PROVE Kept(t)'
    <3>1. pc[t] \in {"halted", "again_l", "again_u", "again_c", "again_s", "redo_l", "redo_u", "redo_c"}
      BY DEF CondReload
    <3>2. pc[t] \notin GivenUpPlaces
      BY SMT, <3>1 DEF GivenUpPlaces
    <3> pc[t] \in {"again_c", "redo_c"} /\ st[t] = "sleep"
      BY <2>1, <3>2 DEF HeldInv, Kept
    <3>3. pc[t] # "redo_c"
      <4> stop /\ "redo_c" \in ResleepPlaces
        BY SMT DEF CondReload, ResleepPlaces
      <4> QED BY FutureSleeper
    <3>4. pc[t] = "again_c"
      BY <3>3
    <3> pc'[t] = "redo_c" /\ st'[t] = "sleep"
      BY SMT, <3>4 DEF CondReload
    <3> QED BY DEF Kept
  <2> QED BY <2>1 DEF HeldInv, ClientStep
<1> QED BY DEF CondNext

-----------------------------------------------------------------------------
\* The laws of the queues

\* The lemmas about wait queues, for the threads and priorities of this module.
Q == INSTANCE Lv2WaitQueueProofs

\* schedule(), and linking and unlinking a thread, obey the laws CondInv carries.
LEMMA QueueLawsHold == QueueLaws
<1>1. ASSUME NEW s \in Seq(Threads), NEW protocol \in {"fifo", "prio"}, s # <<>>
      PROVE  ScheduleBy(protocol, s) \in 1..Len(s)
  <2>1. Q!ScheduleBy(protocol, s) \in 1..Len(s)
    BY <1>1, MutexAssumption, Q!ScheduleByInDomain
  <2> QED BY <2>1 DEF ScheduleBy, Q!ScheduleBy, Before, Q!Before
<1>2. ASSUME NEW s \in Seq(Threads), NEW t \in Threads, Once(s), ~InQueue(s, t)
      PROVE  /\ Emplace(s, t) \in Seq(Threads) /\ Once(Emplace(s, t))
             /\ \A u : InQueue(Emplace(s, t), u) <=> u = t \/ InQueue(s, u)
  <2>1. ~Q!InQueue(s, t) /\ Q!Emplace(s, t) = Emplace(s, t)
    BY <1>2 DEF InQueue, Q!InQueue, Emplace, Q!Emplace
  <2>2. Once(Emplace(s, t))
    BY <1>2, <2>1, Q!EmplaceOnce DEF Once
  <2>3. /\ Q!Emplace(s, t) \in Seq(Threads)
        /\ \A u : Q!InQueue(Q!Emplace(s, t), u) <=> u = t \/ Q!InQueue(s, u)
    BY Q!EmplaceProperties
  <2> QED BY <2>1, <2>2, <2>3 DEF InQueue, Q!InQueue
<1>3. ASSUME NEW s \in Seq(Threads), Once(s), NEW i \in 1..Len(s)
      PROVE  /\ Unlink(s, i) \in Seq(Threads) /\ Once(Unlink(s, i))
             /\ s[i] \in Threads /\ InQueue(s, s[i])
             /\ \A u : InQueue(Unlink(s, i), u) <=> u # s[i] /\ InQueue(s, u)
  <2>1. s[i] \in Threads /\ InQueue(s, s[i])
    BY SMT, <1>3 DEF InQueue
  <2>2. Q!Unlink(s, i) = Unlink(s, i)
    BY DEF Unlink, Q!Unlink
  <2>3. Once(Q!Unlink(s, i)) /\ ~Q!InQueue(Q!Unlink(s, i), s[i])
    BY <1>3, Q!UnlinkOnce DEF Once
  <2>4. \A u : /\ Q!InQueue(s, u) /\ u # s[i] => Q!InQueue(Q!Unlink(s, i), u)
               /\ Q!InQueue(Q!Unlink(s, i), u) => Q!InQueue(s, u)
    BY Q!UnlinkMembers
  <2>5. Q!Unlink(s, i) \in Seq(Threads)
    BY Q!UnlinkProperties
  <2> QED BY <2>1, <2>2, <2>3, <2>4, <2>5 DEF InQueue, Q!InQueue
<1> QED BY <1>1, <1>2, <1>3 DEF QueueLaws

\* A fresh mutex and condition variable.
LEMMA CondInitInv ==
    ASSUME CondInit
    PROVE  CondInv
<1> /\ owner = None /\ sq = <<>> /\ lock_count = 0 /\ mutex = None /\ exists = TRUE /\ stop = FALSE
    /\ pc = [t \in Threads |-> "user"] /\ arg = [t \in Threads |-> 0] /\ heir = [t \in Threads |-> None]
    /\ depth = [t \in Threads |-> 0] /\ csq = <<>> /\ cexists = TRUE /\ ret = [t \in Threads |-> 0]
    /\ requeued = [t \in Threads |-> FALSE] /\ rest = [t \in Threads |-> <<>>]
    /\ held = [t \in Threads |-> 0] /\ st = [t \in Threads |-> "onproc"] /\ cancel = [t \in Threads |-> 0]
  BY DEF CondInit, Init, ThreadsInit
<1> CondTypeOK
  <2> "user" \in CondPlaces
    BY PlacesHold
  <2>1. 0 \in 0..MaxCount /\ <<>> \in Seq(Threads) /\ "onproc" \in Status
    BY InitValues
  <2> st \in [Threads -> Status] /\ cancel \in [Threads -> 0..2]
    BY InitValues, SmallNumbers
  <2> QED BY <2>1 DEF CondTypeOK, ThreadsTypeOK
<1>1. (\A u : ~InQueue(<<>>, u)) /\ Once(<<>>)
  <2> \A u : ~InQueue(<<>>, u)
    BY NotEmpty
  <2> Once(<<>>)
    BY SMT DEF Once
  <2> QED OBVIOUS
<1> ASSUME NEW t \in Threads PROVE ThreadInv(t)
  <2> /\ pc[t] = "user" /\ depth[t] = 0 /\ st[t] # "sleep" /\ cancel[t] = 0 /\ heir[t] = None
      /\ rest[t] = <<>> /\ None # t /\ ~(depth[t] > 0)
    BY InitValues, SmallNumbers, MutexAssumption
  <2>1. ~Waits(t)
    BY <1>1 DEF Waits, Moving
  <2> /\ "user" \notin HeirPlaces /\ "user" \notin SleepPlaces /\ "user" \notin MutexPlaces
      /\ "user" \notin LockingPlaces \cup GivenUpPlaces
      /\ "user" \notin {"again_l", "c_resleep", "c_sleep", "c_return", "u_lock", "again_c", "l_sleep",
                        "resched", "c_resched", "redo_l", "redo_c"}
    BY SMT DEF HeirPlaces, SleepPlaces, MutexPlaces, LockingPlaces, GivenUpPlaces
  <2> Placed(t) /\ Fated(t)
    BY <2>1 DEF Placed, Fated, Waits
  <2> Sleeping(t)
    BY DEF Sleeping
  <2> Counted(t)
    BY DEF Counted, Kept
  <2> Stopped(t) /\ Locked(t)
    BY DEF Stopped, Locked
  <2> QED BY DEF ThreadInv
<1> QueuesOnce /\ FreeInv /\ HeirInv
  <2> \A t \in Threads : rest[t] = <<>>
    BY SMT
  <2> QED BY <1>1 DEF QueuesOnce, FreeInv, HeirInv
<1> Restoring
  <2> FutureSleepers = {}
    BY SMT DEF FutureSleepers
  <2> QED BY DEF Restoring
<1> QED BY QueueLawsHold DEF CondInv

-----------------------------------------------------------------------------
\* The theorems

\* The invariant holds as long as no savestate is requested during a timed wait or
\* while the mutex is locked recursively.
THEOREM CondInvariant == CondSpec /\ []PlainStops => []CondInv
<1> CondInit => CondInv
  BY CondInitInv
<1> CondInv /\ PlainStops /\ [CondNext]_cvars => CondInv'
  BY CondNextInv
<1> QED BY PTL DEF CondSpec

\* The mutex belongs to a thread that was told so, at the depth it locked it to,
\* or will be told when its sys_mutex_lock or sys_cond_wait, which is out of the
\* queues, returns.
THEOREM CondOwnerKnows == CondSpec /\ []PlainStops => []CondOwnerIsTold
<1> ASSUME CondInv PROVE CondOwnerIsTold
  <2> HolderOwns
    BY DEF HolderOwns, CondInv, ThreadInv, Counted
  <2> ASSUME owner # None, ~(depth[owner] > 0)
      PROVE  /\ pc[owner] \in (Awaiting \cup CondAwaiting \cup {"c_return"}) \ {"again_l", "again_c"}
             /\ ~InQueue(sq, owner) /\ ~InQueue(csq, owner)
    <3>1. owner \in Threads
      BY Types
    <3>2. depth[owner] = 0
      BY <3>1, Types, CountStep, SmallNumbers
    <3> pc[owner] \in HeirPlaces \cup {"c_return"} /\ ~Waits(owner)
      BY <3>1, <3>2 DEF CondInv, ThreadInv, Counted, Placed
    <3> HeirPlaces \cup {"c_return"}
          \subseteq (Awaiting \cup CondAwaiting \cup {"c_return"}) \ {"again_l", "again_c"}
      BY HeirsWait
    <3> QED BY DEF Waits
  <2> QED BY DEF CondOwnerIsTold
<1> QED BY CondInvariant, PTL

\* No ensure() of sys_cond.cpp fails: sys_cond_wait returns with the mutex, the
\* repeated waits and locks find it owned after a reload, and sys_cond_signal_all
\* makes at most one waiter the owner.
THEOREM CondEnsuresHold == CondSpec /\ []PlainStops => []CondEnsures
<1> ASSUME CondInv PROVE CondEnsures
  <2> SUFFICES ASSUME NEW t \in Threads
               PROVE  /\ pc[t] = "c_return" => owner = t
                      /\ pc[t] = "redo_c" /\ st[t] = "sleep" /\ requeued[t] => owner # None
                      /\ pc[t] = "redo_l" /\ t \in FutureSleepers => owner \notin {None, t}
                      /\ pc[t] = "s_all" /\ rest[t] # <<>> /\ owner = None => heir[t] = None
    BY DEF CondEnsures
  <2> pc[t] = "c_return" => owner = t
    BY DEF CondInv, ThreadInv, Fated
  <2> {"redo_c", "redo_l"} \subseteq ResleepPlaces /\ "redo_l" # "redo_c" /\ "s_all" \in MutexPlaces
    BY EndPlaces
  <2> pc[t] = "redo_c" /\ st[t] = "sleep" /\ requeued[t] => owner # None
    BY FutureSleeper
  <2> pc[t] = "redo_l" /\ t \in FutureSleepers => owner \notin {None, t}
    <3> t \in FutureSleepers => st[t] = "sleep"
      BY DEF FutureSleepers
    <3> QED BY FutureSleeper
  <2> ASSUME pc[t] = "s_all", owner = None PROVE heir[t] = None
    <3> mutex = t /\ mutex # None
      BY MutexAssumption DEF CondInv, ThreadInv, Locked
    <3> QED BY DEF CondInv, HeirInv
  <2> QED OBVIOUS
<1> QED BY CondInvariant, PTL

\* A thread that sleeps in sys_mutex_lock or sys_cond_wait is in a queue, or the
\* holder of lv2_mutex::mutex is about to move or to awake it, and no thread is
\* linked into two queues or twice into one.
THEOREM CondWakeupsKept == CondSpec /\ []PlainStops => []CondNoLostWakeup
<1> ASSUME CondInv PROVE CondNoLostWakeup
  <2> ASSUME NEW t \in Threads, st[t] = "sleep",
             pc[t] \in {"waiting", "again_l", "c_waiting", "c_mutex", "again_c"}
      PROVE  \/ InQueue(sq, t) \/ InQueue(csq, t)
             \/ mutex # None /\ (heir[mutex] = t \/ InQueue(rest[mutex], t))
    <3> pc[t] \in SleepPlaces
      BY DEF SleepPlaces
    <3> QED BY DEF CondInv, ThreadInv, Sleeping, Pending, Waits, Moving
  <2> QED BY OneQueue DEF CondNoLostWakeup
<1> QED BY CondInvariant, PTL

\* A waiter that leaves the condition variable, by a signal or by its timeout, is
\* the owner of the mutex, in its queue, or among those sys_cond_signal_all moves.
THEOREM CondWaitersMove == CondSpec /\ []PlainStops => WaitersMoveToMutex
<1> CondInv /\ [CondNext]_cvars => [WaitersMoved]_cvars
  BY WaitersMovedNext
<1> QED BY CondInvariant, PTL DEF CondSpec, WaitersMoveToMutex, WaitersMoved

\* Mutex and condition variable implement the lock of Lv2Lock: whatever races,
\* timeouts, signals and savestates there are, a lock is granted only when nobody
\* else has the mutex, and sys_cond_wait gives up all levels of a recursive lock
\* and returns with as many, when nobody else has the mutex.
THEOREM CondImplementsLock == CondSpec /\ []PlainStops => ImplementsLock
<1> CondInit => ClientLock!Init /\ HeldInv
  <2> CondInit => ClientLock!Init
    BY DEF CondInit, Init, ClientLock!Init
  <2> CondInit => HeldInv
    BY SMT DEF CondInit, HeldInv
  <2> QED OBVIOUS
<1> CondInv /\ CondInv' /\ HeldInv /\ [CondNext]_cvars => HeldInv' /\ [ClientLock!Next]_(ClientLock!lockVars)
  BY CondNextClient DEF ClientStep, ClientLock!lockVars
<1> QED BY CondInvariant, PTL DEF CondSpec, ImplementsLock, ClientLock!Spec

=============================================================================
