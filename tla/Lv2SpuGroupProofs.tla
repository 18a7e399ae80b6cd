-------------------------- MODULE Lv2SpuGroupProofs --------------------------
(***************************************************************************)
(* Proofs about SPU thread groups for any number of SPU and PPU threads,   *)
(* any number of runs and any width of stop_count.                         *)
(***************************************************************************)
EXTENDS Lv2SpuGroup, TLAPS, FiniteSetTheorems

Flags == {"stop", "ret", "suspend", "signal", "again"}

\* A thread in one of these places is in cpu_task.
Active == {"enter", "run", "leave", "group_exit", "receive", "exit_lock",
           "receive_lock", "sleep"}
Ending == {"last", "statuses"}
SpuPlaces == Active \cup Ending \cup {"off", "dec", "publish", "drain", "dead"}
PpuPlaces == {"idle", "notify", "stopping", "join", "destroy"}

\* No run is under way.
Rest == Initialized \cup {"DESTROYED"}

TypeOK ==
    /\ run_state \in Rest \cup Waiting \cup {"RUNNING"}
    /\ set_terminate \in BOOLEAN /\ freed \in BOOLEAN
    /\ stop_count \in 0..Umax
    /\ waiter \in Ppus \cup {None}
    /\ mutex \in Spus \cup Ppus \cup {None}
    /\ state \in [Spus -> SUBSET Flags]
    /\ exited \in [Spus -> BOOLEAN] /\ published \in [Spus -> BOOLEAN]
    /\ sq \in SUBSET Spus
    /\ pc \in [Spus \cup Ppus -> SpuPlaces \cup PpuPlaces]
    /\ \A s \in Spus : pc[s] \in SpuPlaces
    /\ \A p \in Ppus : pc[p] \in PpuPlaces
    /\ last_stop \in [Ppus -> 0..Umax]
    /\ over \in [Ppus -> BOOLEAN]

\* Who holds the mutex, and what that says of the run.
MutexInv ==
    /\ \A s \in Spus : pc[s] = "statuses" <=> mutex = s
    /\ \A p \in Ppus : pc[p] = "notify" <=> mutex = p
    /\ mutex \in Spus => run_state \in {"INITIALIZED", "DESTROYED"}
    /\ mutex \in Ppus => run_state \in {"RUNNING", "SUSPENDED"}
    /\ freed => run_state = "DESTROYED" /\ mutex = None
    /\ \A p \in Ppus : pc[p] = "destroy" => run_state = "DESTROYED"
    /\ waiter # None => pc[waiter] = "join"

\* The flags of a thread: ret comes with stop, and a thread is done with both
\* once it is in cpu_return.
FlagsOf(s) ==
    /\ "ret" \in state[s] => "stop" \in state[s]
    /\ pc[s] = "dec" => "stop" \in state[s] /\ "ret" \notin state[s]
    /\ pc[s] \in Active => "stop" \notin state[s] \/ "ret" \in state[s]

\* How the count, the status of the group and the threads go together.
RunInv ==
    /\ \A s \in Spus : FlagsOf(s)
    /\ running = Cardinality({s \in Spus : Live(s)})
    /\ \A s \in Spus : pc[s] \in Ending => /\ \A r \in Spus : ~Live(r)
                                           /\ \A r \in Spus : pc[r] \in Ending => r = s
    /\ run_state \in Rest => \A s \in Spus : ~Live(s) /\ pc[s] # "last"
    /\ run_state \in Rest /\ mutex = None => \A s \in Spus : exited[s] => published[s]

\* The result of a run that decider has ended.
Cause == IF decider = None THEN "ALL_THREADS_EXIT"
         ELSE IF decider \in Spus THEN "GROUP_EXIT" ELSE "TERMINATED"

ResultInv ==
    /\ set_terminate <=> decider # None
    /\ run_state \notin Rest =>
          /\ ~set_terminate => join_state = None /\ exit_status = None
          /\ set_terminate /\ mutex \notin Ppus => join_state = Cause /\ exit_status = decider
    /\ mutex \in Ppus => set_terminate /\ decider = mutex
    /\ mutex \in Spus => join_state # None
    /\ run_state \in Rest /\ join_state # None =>
          /\ join_state = Cause /\ exit_status = decider
          /\ mutex = None => waiter = None

SleepInv ==
    /\ \A s \in Spus : "signal" \in state[s] => pc[s] = "sleep" /\ s \notin sq
    /\ \A s \in Spus : pc[s] = "sleep" /\ "signal" \notin state[s] => s \in sq
    /\ \A s \in sq : pc[s] = "sleep"
    /\ \A s, r \in sq : s = r
    /\ run_state \in {"WAITING", "WAITING_AND_SUSPENDED"} <=> sq # {}
    /\ run_state \in Waiting => \A s \in Spus : "suspend" \in state[s]

\* stop_count has passed what a PPU thread read before the stop, or it has
\* wrapped since and the thread that did so waits.
StopInv ==
    /\ \A p \in Ppus : over[p] => pc[p] = "stopping"
    /\ \A p \in Ppus : pc[p] = "stopping" /\ ~over[p] => stop_count = last_stop[p]
    /\ \A p \in Ppus : over[p] =>
          \/ stop_count > last_stop[p]
          \/ /\ stop_count = Restart
             /\ last_stop[p] # Restart
             /\ \E s \in Spus : pc[s] = "drain"
    /\ \A s, r \in Spus : pc[s] = "drain" => pc[r] \notin Ending
    /\ \A s \in Spus : pc[s] = "drain" => Live(s) \/ run_state \in Rest

GroupInv == TypeOK /\ MutexInv /\ RunInv /\ ResultInv /\ SleepInv

\* No PPU thread that read Restart is still on its way out when the count has
\* gone through all the values up to Umax.
NotLapped == \A p \in Ppus : pc[p] = "stopping" /\ last_stop[p] = Restart => stop_count # Umax

------------------------------------------------------------------------------
LEMMA Apart == Spus \cap Ppus = {} /\ None \notin Spus \cup Ppus
BY SpuGroupAssumption DEF Spus

\* What cpu_return makes of stop_count: a value in range, and one above every
\* value up to the old one unless the count wraps.
LEMMA NextStop ==
    ASSUME NEW n \in 0..Umax, NEW m \in 0..Umax,
           NEW k, k = IF n = Umax THEN Restart ELSE n + 1
    PROVE  /\ k \in 0..Umax
           /\ n > m \/ n = m => m <= n
           /\ m <= n /\ n # Umax => k > m
BY SpuGroupAssumption

\* The count stands while every thread stays in or out of the run.
LEMMA SameLive ==
    ASSUME \A r \in Spus : Live(r)' <=> Live(r)
    PROVE  {r \in Spus : Live(r)}' = {r \in Spus : Live(r)}
OBVIOUS

\* No stop is counted and nobody begins or ends to wait for one.
LEMMA StopSame ==
    ASSUME StopInv, UNCHANGED <<stop_count, last_stop, over>>,
           \A p \in Ppus : pc'[p] = "stopping" <=> pc[p] = "stopping",
           \A r \in Spus : pc'[r] = "drain" <=> pc[r] = "drain",
           \A r, q \in Spus : pc[r] = "drain" => pc'[q] \notin Ending,
           \A r \in Spus : pc[r] = "drain" /\ (Live(r) \/ run_state \in Rest)
                              => Live(r)' \/ run_state' \in Rest
    PROVE  StopInv'
BY Zenon DEF StopInv

\* A thread goes from one place to another and changes its flags, and neither
\* leaves the run nor the status of the group, the queue or the mutex changes.
LEMMA SpuMove ==
    ASSUME GroupInv, NEW s \in Spus, NEW l \in SpuPlaces \ (Ending \cup {"drain", "sleep"}),
           NEW f \in SUBSET Flags,
           pc' = [pc EXCEPT ![s] = l], state' = [state EXCEPT ![s] = f],
           UNCHANGED <<groupVars, sq, ppuVars, mutex>>,
           exited' \in [Spus -> BOOLEAN], published' \in [Spus -> BOOLEAN],
           pc[s] \notin Ending \cup {"sleep"},
           "ret" \in f => "stop" \in f,
           l = "dec" => "stop" \in f /\ "ret" \notin f,
           l \in Active => "stop" \notin f \/ "ret" \in f,
           "stop" \notin f \/ "ret" \in f \/ l = "dec" <=> Live(s),
           "signal" \notin f, "suspend" \in state[s] => "suspend" \in f,
           run_state \in Rest /\ mutex = None => \A r \in Spus : exited'[r] => published'[r],
           pc[s] = "drain" => \A p \in Ppus : pc[p] # "stopping"
    PROVE  GroupInv' /\ (StopInv => StopInv')
<1> USE DEF GroupInv
<1>1. /\ UNCHANGED <<run_state, running, join_state, exit_status, set_terminate, stop_count,
                     waiter, freed, decider, sq, last_stop, over, mutex>>
  BY DEF groupVars, ppuVars
<1>2. /\ pc'[s] = l /\ state'[s] = f
      /\ \A r \in Spus \ {s} : pc'[r] = pc[r] /\ state'[r] = state[r]
      /\ \A p \in Ppus : pc'[p] = pc[p]
  BY Apart DEF TypeOK
<1>3. TypeOK'
  <2>1. /\ pc' \in [Spus \cup Ppus -> SpuPlaces \cup PpuPlaces]
        /\ state' \in [Spus -> SUBSET Flags]
    BY DEF TypeOK
  <2>2. /\ \A r \in Spus : pc'[r] \in SpuPlaces
        /\ \A p \in Ppus : pc'[p] \in PpuPlaces
    BY <1>2 DEF TypeOK
  <2> QED BY Zenon, <1>1, <2>1, <2>2 DEF TypeOK
<1>4. MutexInv'
  <2>1. l # "statuses" /\ pc[s] # "statuses"
    BY DEF Ending
  <2>2. \A r \in Spus : pc'[r] = "statuses" <=> pc[r] = "statuses"
    BY <1>2, <2>1
  <2>3. waiter # None => pc'[waiter] = pc[waiter]
    BY <1>2 DEF TypeOK
  <2> QED BY <1>1, <1>2, <2>2, <2>3 DEF MutexInv
<1>5. \A r \in Spus : Live(r)' <=> Live(r)
  BY <1>2 DEF Live
<1>6. RunInv'
  <2>0. \A r \in Spus : FlagsOf(r)
    BY DEF RunInv
  <2>1. ASSUME NEW r \in Spus PROVE FlagsOf(r)'
    BY <1>2, <2>0 DEF FlagsOf
  <2>2. running' = Cardinality({r \in Spus : Live(r)}')
    BY Zenon, <1>1, <1>5, SameLive DEF RunInv
  <2>3. \A r \in Spus : pc'[r] \in Ending => pc[r] \in Ending
    BY <1>2
  <2>4. \A r \in Spus : pc'[r] = "last" => pc[r] = "last"
    BY <1>2 DEF Ending
  <2> QED BY Zenon, <1>1, <1>5, <2>1, <2>2, <2>3, <2>4 DEF RunInv
<1>7. ResultInv'
  BY Zenon, <1>1 DEF ResultInv, Cause
<1>8. SleepInv'
  <2>1. s \notin sq /\ l # "sleep" /\ pc[s] # "sleep"
    BY DEF SleepInv
  <2> QED BY Zenon, <1>1, <1>2, <2>1 DEF SleepInv, TypeOK
<1>9. ASSUME StopInv PROVE StopInv'
  <2>1. \A r \in Spus : pc'[r] \in Ending \cup {"drain"} => pc[r] = pc'[r]
    BY <1>2
  <2>2. CASE pc[s] = "drain"
    <3>1. \A p \in Ppus : ~over[p] /\ pc[p] # "stopping"
      BY <1>9, <2>2 DEF StopInv
    <3> QED BY <1>1, <1>2, <1>5, <1>9, <2>1, <3>1 DEF StopInv
  <2>3. CASE pc[s] # "drain"
    <3>1. \A r \in Spus : pc'[r] = "drain" <=> pc[r] = "drain"
      BY <1>2, <2>3
    <3> QED BY <1>1, <1>2, <1>5, <1>9, <2>1, <3>1 DEF StopInv
  <2> QED BY <2>2, <2>3
<1> QED BY <1>3, <1>4, <1>6, <1>7, <1>8, <1>9

\* What the invariant says of one thread outside the wait for an event.
LEMMA SpuFacts ==
    ASSUME GroupInv, NEW s \in Spus, pc[s] # "sleep"
    PROVE  /\ state[s] \in SUBSET Flags /\ state = [state EXCEPT ![s] = state[s]]
           /\ "signal" \notin state[s] /\ FlagsOf(s)
           /\ exited \in [Spus -> BOOLEAN] /\ published \in [Spus -> BOOLEAN]
           /\ run_state \in Rest /\ mutex = None => \A r \in Spus : exited[r] => published[r]
           /\ run_state \in Rest => ~Live(s)
<1>1. state \in [Spus -> SUBSET Flags]
  BY DEF GroupInv, TypeOK
<1>2. state = [state EXCEPT ![s] = state[s]] /\ state[s] \in SUBSET Flags
  BY <1>1
<1> QED BY <1>2 DEF GroupInv, TypeOK, SleepInv, RunInv

\* Steps of a thread that change its place only.
LEMMA PlaceMove ==
    ASSUME GroupInv, NEW s \in Spus, NEW l \in SpuPlaces \ (Ending \cup {"drain", "sleep", "dec"}),
           pc' = [pc EXCEPT ![s] = l],
           UNCHANGED <<groupVars, state, exited, sq, ppuVars, mutex>>,
           published' \in {published, [published EXCEPT ![s] = TRUE]},
           pc[s] \notin Ending \cup {"sleep", "dec"},
           l \in Active => "stop" \notin state[s] \/ pc[s] \in Active,
           pc[s] = "drain" => \A p \in Ppus : pc[p] # "stopping"
    PROVE  GroupInv' /\ (StopInv => StopInv')
<1>1. pc[s] # "sleep"
  OBVIOUS
<1>2. state' = [state EXCEPT ![s] = state[s]] /\ exited' = exited
  BY <1>1, SpuFacts
<1>3. /\ published' \in [Spus -> BOOLEAN]
      /\ \A r \in Spus : published[r] => published'[r]
  BY Zenon, <1>1, SpuFacts
<1>4. run_state \in Rest /\ mutex = None => \A r \in Spus : exited'[r] => published'[r]
  BY <1>1, <1>2, <1>3, SpuFacts
<1>5. /\ "ret" \in state[s] => "stop" \in state[s]
      /\ l \in Active => "stop" \notin state[s] \/ "ret" \in state[s]
      /\ "stop" \notin state[s] \/ "ret" \in state[s] \/ l = "dec" <=> Live(s)
  BY <1>1, SpuFacts DEF FlagsOf, Live
<1>6. /\ l \in SpuPlaces \ (Ending \cup {"drain", "sleep"}) /\ l # "dec"
      /\ pc[s] \notin Ending \cup {"sleep"}
      /\ state[s] \in SUBSET Flags /\ "signal" \notin state[s]
      /\ exited' \in [Spus -> BOOLEAN]
      /\ UNCHANGED <<groupVars, sq, ppuVars, mutex>>
  BY <1>1, <1>2, SpuFacts
<1> QED BY Zenon, <1>2, <1>3, <1>4, <1>5, <1>6, SpuMove

------------------------------------------------------------------------------
\* The host thread of an SPU

\* Where cpu_return and the loop of operator() go.
LEMMA PlacesOf ==
    /\ \A l \in {"off", "dead", "publish", "enter", "run", "leave", "group_exit", "receive",
                 "exit_lock", "receive_lock"} :
          l \in SpuPlaces \ (Ending \cup {"drain", "sleep", "dec"})
    /\ \A l \in {"enter", "run", "leave", "group_exit", "receive", "exit_lock",
                 "receive_lock", "sleep"} : l \in Active
    /\ \A l \in {"off", "dead", "publish", "dec", "drain", "last", "statuses"} : l \notin Active
    /\ \A l \in {"last", "statuses"} : l \in Ending /\ l \in SpuPlaces
BY DEF SpuPlaces, Ending, Active

\* operator() enters cpu_task, check_state leaves it or goes on, and a call of
\* the guest program begins: the thread stays in the run.
LEMMA StepsInv ==
    ASSUME GroupInv, NEW s \in Spus, CpuTask(s) \/ CheckState(s) \/ Call(s)
    PROVE  GroupInv' /\ (StopInv => StopInv')
<1>1. PICK l \in {"enter", "run", "leave", "group_exit", "receive"} :
         pc' = [pc EXCEPT ![s] = l]
  BY DEF CpuTask, CheckState, Call, Goto
<1>2. /\ UNCHANGED <<groupVars, state, exited, sq, ppuVars, mutex>> /\ published' = published
      /\ pc[s] \in {"off", "enter", "run"} /\ (pc[s] = "off" => "stop" \notin state[s])
  BY DEF CpuTask, CheckState, Call, spuVars, queueVars
<1>3. /\ pc[s] \notin Ending \cup {"sleep", "dec"} /\ pc[s] # "drain"
      /\ "stop" \notin state[s] \/ pc[s] \in Active
      /\ l \in SpuPlaces \ (Ending \cup {"drain", "sleep", "dec"})
  BY <1>1, <1>2, PlacesOf
<1>4. published' \in {published, [published EXCEPT ![s] = TRUE]}
  BY <1>2
<1> QED BY Zenon, <1>1, <1>2, <1>3, <1>4, PlaceMove

\* operator() takes the flag ret.
LEMMA SeeRetInv ==
    ASSUME GroupInv, NEW s \in Spus, SeeRet(s)
    PROVE  GroupInv' /\ (StopInv => StopInv')
<1> DEFINE f == state[s] \ {"ret"}
<1>1. /\ pc[s] \in {"leave", "off"} /\ "ret" \in state[s]
      /\ pc' = [pc EXCEPT ![s] = "dec"] /\ state' = [state EXCEPT ![s] = f]
      /\ UNCHANGED <<groupVars, exited, published, sq, ppuVars, mutex>>
  BY DEF SeeRet, Goto, queueVars
<1>2. /\ f \in SUBSET Flags /\ "signal" \notin f /\ "stop" \in f /\ "ret" \notin f
      /\ "suspend" \in state[s] => "suspend" \in f
      /\ exited' \in [Spus -> BOOLEAN] /\ published' \in [Spus -> BOOLEAN]
      /\ run_state \in Rest /\ mutex = None => \A r \in Spus : exited'[r] => published'[r]
  BY <1>1, SpuFacts DEF FlagsOf
<1>3. /\ Live(s) /\ pc[s] \notin Ending \cup {"sleep"} /\ pc[s] # "drain" /\ "dec" \notin Active
      /\ "dec" \in SpuPlaces \ (Ending \cup {"drain", "sleep"})
  BY <1>1 DEF Live, Ending, SpuPlaces, Active
<1> HIDE DEF f
<1> QED BY Zenon, <1>1, <1>2, <1>3, SpuMove

------------------------------------------------------------------------------
\* System calls of an SPU

\* A thread in cpu_task is in the run.
LEMMA ActiveLives ==
    ASSUME GroupInv, NEW s \in Spus, pc[s] \in Active
    PROVE  Live(s) /\ run_state \notin Rest /\ pc[s] \notin Ending /\ pc[s] # "drain"
<1>1. FlagsOf(s)
  BY DEF GroupInv, RunInv
<1>2. Live(s) /\ pc[s] \notin Ending /\ pc[s] # "drain"
  BY <1>1 DEF FlagsOf, Live, Ending, Active
<1> QED BY <1>2 DEF GroupInv, RunInv

\* A call of an active thread that sets some of its flags and goes on to
\* check_state.
LEMMA RaiseMove ==
    ASSUME GroupInv, NEW s \in Spus, pc[s] \in Active \ {"sleep"},
           NEW f \in {{"again"}, {"stop", "ret"}},
           pc' = [pc EXCEPT ![s] = "enter"],
           state' = [state EXCEPT ![s] = state[s] \cup f],
           UNCHANGED <<groupVars, sq, ppuVars, mutex>>,
           exited' \in [Spus -> BOOLEAN], published' \in [Spus -> BOOLEAN]
    PROVE  GroupInv' /\ (StopInv => StopInv')
<1>1. /\ Live(s) /\ run_state \notin Rest /\ pc[s] \notin Ending /\ pc[s] # "drain"
      /\ pc[s] # "sleep"
  BY ActiveLives
<1> DEFINE g == state[s] \cup f
<1>2. /\ g \in SUBSET Flags /\ "signal" \notin g /\ ("ret" \in g => "stop" \in g)
      /\ "stop" \notin g \/ "ret" \in g
      /\ "suspend" \in state[s] => "suspend" \in g
  BY <1>1, SpuFacts DEF FlagsOf, Flags
<1>3. /\ "enter" \in SpuPlaces \ (Ending \cup {"drain", "sleep"})
      /\ pc[s] \notin Ending \cup {"sleep"}
  BY <1>1, PlacesOf
<1> HIDE DEF g
<1>4. state' = [state EXCEPT ![s] = g]
  BY DEF g
<1> QED BY Zenon, <1>1, <1>2, <1>3, <1>4, SpuMove

\* A call of an active thread that changes its place only.
LEMMA CallMove ==
    ASSUME GroupInv, NEW s \in Spus, pc[s] \in Active \ {"sleep"}, NEW l \in Active \ {"sleep"},
           pc' = [pc EXCEPT ![s] = l],
           UNCHANGED <<groupVars, state, exited, published, sq, ppuVars, mutex>>
    PROVE  GroupInv' /\ (StopInv => StopInv')
<1>1. /\ l \in SpuPlaces \ (Ending \cup {"drain", "sleep", "dec"})
      /\ pc[s] \notin Ending \cup {"sleep", "dec"} /\ pc[s] # "drain"
  BY DEF SpuPlaces, Active, Ending
<1>2. published' \in {published, [published EXCEPT ![s] = TRUE]}
  OBVIOUS
<1> QED BY Zenon, <1>1, <1>2, PlaceMove

\* sys_spu_thread_exit
LEMMA ThreadExitInv ==
    ASSUME GroupInv, NEW s \in Spus, ThreadExit(s)
    PROVE  GroupInv' /\ (StopInv => StopInv')
<1>1. /\ pc[s] = "run" /\ pc' = [pc EXCEPT ![s] = "enter"]
      /\ state' = [state EXCEPT ![s] = state[s] \cup {"stop", "ret"}]
      /\ exited' = [exited EXCEPT ![s] = TRUE]
      /\ published' \in {published, [published EXCEPT ![s] = FALSE]}
      /\ UNCHANGED <<groupVars, sq, ppuVars, mutex>>
  BY DEF ThreadExit, Goto, queueVars
<1>2. pc[s] \in Active \ {"sleep"}
  BY <1>1, PlacesOf
<1>3. exited' \in [Spus -> BOOLEAN] /\ published' \in [Spus -> BOOLEAN]
  BY Zenon, <1>1, SpuFacts
<1> QED BY Zenon, <1>1, <1>2, <1>3, RaiseMove

\* The check before the group's mutex is locked.
LEMMA CheckGroupInv ==
    ASSUME GroupInv, NEW s \in Spus, CheckGroup(s)
    PROVE  GroupInv' /\ (StopInv => StopInv')
<1>1. /\ pc[s] \in {"group_exit", "receive"}
      /\ UNCHANGED <<groupVars, exited, published, sq, ppuVars, mutex>>
  BY DEF CheckGroup, queueVars
<1>2. pc[s] \in Active \ {"sleep"} /\ pc[s] # "sleep"
  BY <1>1, PlacesOf
<1>3. exited' \in [Spus -> BOOLEAN] /\ published' \in [Spus -> BOOLEAN]
  BY <1>1, <1>2, SpuFacts
<1>4. CASE pc' = [pc EXCEPT ![s] = "enter"] /\ state' = [state EXCEPT ![s] = state[s] \cup {"again"}]
  BY Zenon, <1>1, <1>2, <1>3, <1>4, RaiseMove
<1>5. CASE /\ \E l \in {"receive_lock", "exit_lock"} : pc' = [pc EXCEPT ![s] = l]
           /\ UNCHANGED state
  <2>1. PICK l \in {"receive_lock", "exit_lock"} : pc' = [pc EXCEPT ![s] = l]
    BY Zenon, <1>5
  <2>2. l \in Active \ {"sleep"}
    BY PlacesOf
  <2> QED BY Zenon, <1>1, <1>2, <1>5, <2>1, <2>2, CallMove
<1> QED BY <1>4, <1>5 DEF CheckGroup, Goto

\* Stopping every thread of the group takes none out of the run: a thread that
\* has not been stopped gets both flags, and no flag of the others changes.
LEMMA StopAllKeeps ==
    ASSUME GroupInv, StopAll,
           \A r \in Spus : pc'[r] = pc[r] \/ (pc[r] \in Active \ {"sleep"} /\ pc'[r] \in Active \ {"sleep"})
    PROVE  /\ state' \in [Spus -> SUBSET Flags]
           /\ \A r \in Spus : FlagsOf(r)' /\ (Live(r)' <=> Live(r))
           /\ \A r \in Spus : /\ "signal" \in state'[r] <=> "signal" \in state[r]
                              /\ "suspend" \in state'[r] <=> "suspend" \in state[r]
<1>1. state \in [Spus -> SUBSET Flags] /\ \A r \in Spus : FlagsOf(r)
  BY DEF GroupInv, TypeOK, RunInv
<1>2. state' \in [Spus -> SUBSET Flags]
  BY <1>1 DEF StopAll, Flags
<1>3. ASSUME NEW r \in Spus
      PROVE  state'[r] = IF "stop" \in state[r] THEN state[r] ELSE state[r] \cup {"stop", "ret"}
  BY DEF StopAll
<1>4. ASSUME NEW r \in Spus PROVE /\ FlagsOf(r)' /\ (Live(r)' <=> Live(r))
                                  /\ "signal" \in state'[r] <=> "signal" \in state[r]
                                  /\ "suspend" \in state'[r] <=> "suspend" \in state[r]
  <2>1. FlagsOf(r)
    BY <1>1
  <2>2. CASE "stop" \in state[r]
    <3>1. state'[r] = state[r]
      BY Zenon, <1>3, <2>2
    <3> QED BY <2>1, <2>2, <3>1 DEF FlagsOf, Live, Active
  <2>3. CASE "stop" \notin state[r]
    <3>1. state'[r] = state[r] \cup {"stop", "ret"}
      BY Zenon, <1>3, <2>3
    <3> QED BY <2>1, <2>3, <3>1 DEF FlagsOf, Live, Active
  <2> QED BY <2>2, <2>3
<1> QED BY <1>2, <1>4

\* sys_spu_thread_group_exit with the mutex.
LEMMA GroupExitInv ==
    ASSUME GroupInv, NEW s \in Spus, GroupExit(s)
    PROVE  GroupInv' /\ (StopInv => StopInv')
<1>1. /\ pc[s] = "exit_lock" /\ mutex = None /\ mutex' = None
      /\ UNCHANGED <<sq, last_stop, over, ppuVars>>
  BY DEF GroupExit, queueVars, ppuVars
<1>2. pc[s] \in Active \ {"sleep"} /\ "enter" \in Active \ {"sleep"} /\ "group_exit" \in Active \ {"sleep"}
  BY <1>1, PlacesOf
<1>3. CASE /\ \E l \in {"enter", "group_exit"} : pc' = [pc EXCEPT ![s] = l]
           /\ UNCHANGED <<groupVars, spuVars>>
  BY Zenon, <1>1, <1>2, <1>3, CallMove DEF spuVars
<1>4. CASE /\ ~set_terminate /\ set_terminate' = TRUE /\ decider' = s
           /\ StopAll
           /\ exit_status' = s /\ join_state' = "GROUP_EXIT"
           /\ pc' = [pc EXCEPT ![s] = "enter"]
           /\ UNCHANGED <<run_state, running, stop_count, waiter, freed, exited, published>>
  <2> USE DEF GroupInv
  <2>1. /\ pc'[s] = "enter" /\ \A r \in Spus \ {s} : pc'[r] = pc[r]
        /\ \A p \in Ppus : pc'[p] = pc[p]
    BY <1>4, Apart DEF TypeOK
  <2>2. \A r \in Spus : pc'[r] = pc[r] \/ (pc[r] \in Active \ {"sleep"} /\ pc'[r] \in Active \ {"sleep"})
    BY <1>2, <2>1
  <2>3. /\ state' \in [Spus -> SUBSET Flags]
        /\ \A r \in Spus : FlagsOf(r)' /\ (Live(r)' <=> Live(r))
        /\ \A r \in Spus : /\ "signal" \in state'[r] <=> "signal" \in state[r]
                           /\ "suspend" \in state'[r] <=> "suspend" \in state[r]
    BY Zenon, <1>4, <2>2, StopAllKeeps
  <2>4. Live(s) /\ run_state \notin Rest
    BY Zenon, <1>2, ActiveLives
  <2>5. \A r \in Spus : /\ pc'[r] \in Ending <=> pc[r] \in Ending
                        /\ pc'[r] = "sleep" <=> pc[r] = "sleep"
                        /\ pc'[r] = "drain" <=> pc[r] = "drain"
                        /\ pc'[r] = "statuses" <=> pc[r] = "statuses"
                        /\ pc'[r] = "last" <=> pc[r] = "last"
    BY <1>1, <2>1 DEF Ending
  <2>6. TypeOK'
    <3>1. pc' \in [Spus \cup Ppus -> SpuPlaces \cup PpuPlaces] /\ \A r \in Spus : pc'[r] \in SpuPlaces
      BY <1>4, <2>1, PlacesOf DEF TypeOK
    <3> QED BY Zenon, <1>1, <1>4, <2>1, <2>3, <3>1 DEF TypeOK
  <2>7. MutexInv'
    <3>1. waiter # None => pc'[waiter] = pc[waiter]
      BY <2>1 DEF TypeOK
    <3> QED BY <1>1, <1>4, <2>1, <2>5, <3>1 DEF MutexInv
  <2>8. RunInv'
    <3>1. running' = Cardinality({r \in Spus : Live(r)}')
      BY Zenon, <1>4, <2>3, SameLive DEF RunInv
    <3> QED BY Zenon, <1>1, <1>4, <2>3, <2>4, <2>5, <3>1 DEF RunInv
  <2>9. ResultInv'
    BY <1>1, <1>4, <2>4, Apart DEF ResultInv, Cause
  <2>10. SleepInv'
    BY Zenon, <1>1, <1>4, <2>3, <2>5 DEF SleepInv, TypeOK
  <2>11. ASSUME StopInv PROVE StopInv'
    <3>1. \A r, q \in Spus : pc[r] = "drain" => pc'[q] \notin Ending
      BY <2>5, <2>11 DEF StopInv
    <3> QED BY Zenon, <1>1, <1>4, <2>1, <2>3, <2>5, <2>11, <3>1, StopSame
  <2> QED BY <2>6, <2>7, <2>8, <2>9, <2>10, <2>11
<1> QED BY Zenon, <1>3, <1>4 DEF GroupExit, Goto

\* Steps that touch nothing the invariant is about.
LEMMA NothingMoves ==
    ASSUME GroupInv,
           UNCHANGED <<run_state, running, join_state, exit_status, set_terminate, stop_count,
                       waiter, mutex, state, exited, published, sq, pc, last_stop, freed,
                       decider, over>>
    PROVE  GroupInv' /\ (StopInv => StopInv')
<1> USE DEF GroupInv
<1>1. TypeOK' /\ MutexInv'
  BY Zenon DEF TypeOK, MutexInv
<1>2. RunInv'
  BY Zenon DEF RunInv, FlagsOf, Live
<1>3. ResultInv' /\ SleepInv'
  BY Zenon DEF ResultInv, SleepInv, Cause
<1>4. StopInv => StopInv'
  BY Zenon DEF StopInv, Live
<1> QED BY <1>1, <1>2, <1>3, <1>4

\* sys_spu_thread_receive_event finds no event: the thread enters the queue
\* and holds all threads of the group.
LEMMA ReceiveSleepInv ==
    ASSUME GroupInv, NEW s \in Spus, pc[s] = "receive_lock", mutex = None,
           run_state \notin Waiting, sq' = sq \cup {s}, run_state' = "WAITING",
           state' = [r \in Spus |-> state[r] \cup {"suspend"}],
           pc' = [pc EXCEPT ![s] = "sleep"],
           UNCHANGED <<running, join_state, exit_status, set_terminate, stop_count, waiter,
                       freed, decider, exited, published, last_stop, over, mutex>>
    PROVE  GroupInv' /\ (StopInv => StopInv')
<1> USE DEF GroupInv
<1>1. pc[s] \in Active /\ "sleep" \in Active
  BY PlacesOf
<1>2. Live(s) /\ run_state = "RUNNING" /\ sq = {}
  BY <1>1, ActiveLives DEF TypeOK, SleepInv, Waiting
<1>3. /\ pc'[s] = "sleep" /\ \A r \in Spus \ {s} : pc'[r] = pc[r]
      /\ \A p \in Ppus : pc'[p] = pc[p]
  BY Apart DEF TypeOK
<1>4. state' \in [Spus -> SUBSET Flags] /\ \A r \in Spus : state'[r] = state[r] \cup {"suspend"}
  BY DEF TypeOK, Flags
<1>5. ASSUME NEW r \in Spus PROVE FlagsOf(r)' /\ (Live(r)' <=> Live(r))
  <2>1. FlagsOf(r)
    BY DEF RunInv
  <2>2. /\ "stop" \in state'[r] <=> "stop" \in state[r]
        /\ "ret" \in state'[r] <=> "ret" \in state[r]
        /\ pc'[r] = pc[r] \/ (pc[r] \in Active /\ pc'[r] \in Active)
    BY <1>1, <1>3, <1>4
  <2>3. pc'[r] = "dec" <=> pc[r] = "dec"
    BY <1>3
  <2> QED BY <2>1, <2>2, <2>3 DEF FlagsOf, Live
<1>6. \A r \in Spus : /\ pc'[r] \in Ending <=> pc[r] \in Ending
                      /\ pc'[r] = "drain" <=> pc[r] = "drain"
                      /\ pc'[r] = "statuses" <=> pc[r] = "statuses"
  BY <1>3 DEF Ending
<1>7. run_state' \notin Rest
  BY DEF Rest, Initialized
<1>8. TypeOK'
  <2>1. pc' \in [Spus \cup Ppus -> SpuPlaces \cup PpuPlaces] /\ \A r \in Spus : pc'[r] \in SpuPlaces
    BY <1>1, <1>3 DEF TypeOK, SpuPlaces
  <2>2. sq' \in SUBSET Spus /\ run_state' \in Rest \cup Waiting \cup {"RUNNING"}
    BY DEF TypeOK, Waiting
  <2> QED BY Zenon, <1>3, <1>4, <2>1, <2>2 DEF TypeOK
<1>9. MutexInv'
  <2>1. waiter # None => pc'[waiter] = pc[waiter]
    BY <1>3 DEF TypeOK
  <2>2. ~freed /\ mutex' = None /\ None \notin Spus \cup Ppus
    BY <1>2, Apart DEF MutexInv
  <2>3. \A p \in Ppus : pc'[p] # "destroy"
    BY <1>2, <1>3 DEF MutexInv
  <2> QED BY <1>3, <1>6, <2>1, <2>2, <2>3 DEF MutexInv
<1>10. RunInv'
  <2>1. running' = Cardinality({r \in Spus : Live(r)}')
    BY Zenon, <1>5, SameLive DEF RunInv
  <2> QED BY Zenon, <1>5, <1>6, <1>7, <2>1 DEF RunInv
<1>11. ResultInv'
  BY <1>2, <1>7, Apart DEF ResultInv, Cause, Rest, Initialized
<1>12. SleepInv'
  <2>1. \A r \in Spus : "signal" \in state'[r] <=> "signal" \in state[r]
    BY <1>4
  <2>2. sq' = {s} /\ "signal" \notin state[s] /\ pc[s] # "sleep"
    BY <1>2 DEF SleepInv
  <2>3. \A r \in Spus : "signal" \in state'[r] => pc'[r] = "sleep" /\ r \notin sq'
    BY <1>3, <2>1, <2>2 DEF SleepInv
  <2>4. \A r \in Spus : pc'[r] = "sleep" /\ "signal" \notin state'[r] => r \in sq'
    BY <1>2, <1>3, <2>1, <2>2 DEF SleepInv
  <2>5. \A r \in sq' : pc'[r] = "sleep" /\ r = s
    BY <1>3, <2>2
  <2>6. /\ run_state' \in {"WAITING", "WAITING_AND_SUSPENDED"}
        /\ run_state' \in Waiting => \A r \in Spus : "suspend" \in state'[r]
    BY <1>2, <1>4 DEF SleepInv
  <2> QED BY Zenon, <2>2, <2>3, <2>4, <2>5, <2>6 DEF SleepInv
<1>13. ASSUME StopInv PROVE StopInv'
  <2>1. \A r, q \in Spus : pc[r] = "drain" => pc'[q] \notin Ending /\ Live(r)
    BY <1>2, <1>6, <1>13 DEF StopInv, Rest, Initialized
  <2> QED BY Zenon, <1>3, <1>5, <1>6, <1>13, <2>1, StopSame
<1> QED BY <1>8, <1>9, <1>10, <1>11, <1>12, <1>13

\* sys_spu_thread_receive_event with the mutexes.
LEMMA ReceiveEventInv ==
    ASSUME GroupInv, NEW s \in Spus, ReceiveEvent(s)
    PROVE  GroupInv' /\ (StopInv => StopInv')
<1>1. /\ pc[s] = "receive_lock" /\ mutex = None
      /\ UNCHANGED <<init, running, join_state, exit_status, set_terminate, stop_count, waiter,
                     freed, runs, decider, exited, published, last_stop, over, ppuVars, mutex>>
  BY DEF ReceiveEvent, ppuVars
<1>2. pc[s] \in Active \ {"sleep"} /\ "enter" \in Active \ {"sleep"} /\ "receive" \in Active \ {"sleep"}
  BY <1>1, PlacesOf
<1>3. exited' \in [Spus -> BOOLEAN] /\ published' \in [Spus -> BOOLEAN]
  BY <1>1, <1>2, SpuFacts
<1>4. CASE /\ state' = [state EXCEPT ![s] = state[s] \cup {"again"}]
           /\ pc' = [pc EXCEPT ![s] = "enter"] /\ UNCHANGED <<run_state, sq>>
  <2>1. UNCHANGED <<groupVars, sq, ppuVars, mutex>>
    BY <1>1, <1>4 DEF groupVars
  <2> QED BY Zenon, <1>2, <1>3, <1>4, <2>1, RaiseMove
<1>5. CASE /\ \E l \in {"enter", "receive"} : pc' = [pc EXCEPT ![s] = l]
           /\ UNCHANGED <<run_state, state, sq>>
  <2>1. UNCHANGED <<groupVars, state, exited, published, sq, ppuVars, mutex>>
    BY <1>1, <1>5 DEF groupVars
  <2> QED BY Zenon, <1>2, <1>5, <2>1, CallMove
<1>6. CASE /\ run_state \notin Waiting /\ sq' = sq \cup {s} /\ run_state' = "WAITING"
           /\ state' = [r \in Spus |-> state[r] \cup {"suspend"}]
           /\ pc' = [pc EXCEPT ![s] = "sleep"]
  <2>1. UNCHANGED <<running, join_state, exit_status, set_terminate, stop_count, waiter,
                    freed, decider, exited, published, last_stop, over, mutex>>
    BY <1>1
  <2> QED BY Zenon, <1>1, <1>6, <2>1, ReceiveSleepInv
<1> QED BY <1>4, <1>5, <1>6 DEF ReceiveEvent, Goto, queueVars

\* The sleeping thread is woken by the event.
LEMMA WokenInv ==
    ASSUME GroupInv, NEW s \in Spus, Woken(s)
    PROVE  GroupInv' /\ (StopInv => StopInv')
<1> USE DEF GroupInv
<1>1. /\ pc[s] = "sleep" /\ "signal" \in state[s] /\ pc' = [pc EXCEPT ![s] = "enter"]
      /\ state' = [state EXCEPT ![s] = state[s] \ {"signal"}]
      /\ UNCHANGED <<run_state, running, join_state, exit_status, set_terminate, stop_count, waiter,
                     freed, decider, exited, published, sq, last_stop, over, mutex>>
  BY DEF Woken, Goto, groupVars, queueVars, ppuVars
<1>2. pc[s] \in Active /\ "enter" \in Active
  BY <1>1, PlacesOf
<1>3. /\ pc'[s] = "enter" /\ \A r \in Spus \ {s} : pc'[r] = pc[r] /\ state'[r] = state[r]
      /\ \A p \in Ppus : pc'[p] = pc[p]
      /\ state' \in [Spus -> SUBSET Flags] /\ state'[s] = state[s] \ {"signal"}
  BY <1>1, Apart DEF TypeOK
<1>4. ASSUME NEW r \in Spus PROVE FlagsOf(r)' /\ (Live(r)' <=> Live(r))
  <2>1. FlagsOf(r)
    BY Zenon DEF RunInv
  <2>2. /\ "stop" \in state'[r] <=> "stop" \in state[r]
        /\ "ret" \in state'[r] <=> "ret" \in state[r]
        /\ pc'[r] = pc[r] \/ (pc[r] \in Active /\ pc'[r] \in Active)
        /\ pc'[r] = "dec" <=> pc[r] = "dec"
    BY <1>1, <1>2, <1>3
  <2> QED BY <2>1, <2>2 DEF FlagsOf, Live
<1>5. \A r \in Spus : /\ pc'[r] \in Ending <=> pc[r] \in Ending
                      /\ pc'[r] = "drain" <=> pc[r] = "drain"
                      /\ pc'[r] = "statuses" <=> pc[r] = "statuses"
                      /\ pc'[r] = "last" <=> pc[r] = "last"
  BY <1>1, <1>3 DEF Ending
<1>6. TypeOK'
  <2>1. pc' \in [Spus \cup Ppus -> SpuPlaces \cup PpuPlaces] /\ \A r \in Spus : pc'[r] \in SpuPlaces
    BY <1>1, <1>2, <1>3 DEF TypeOK, SpuPlaces
  <2> QED BY Zenon, <1>1, <1>3, <2>1 DEF TypeOK
<1>7. MutexInv'
  <2>1. waiter # None => pc'[waiter] = pc[waiter]
    BY <1>3 DEF TypeOK
  <2> QED BY <1>1, <1>3, <1>5, <2>1 DEF MutexInv
<1>8. RunInv'
  <2>1. running' = Cardinality({r \in Spus : Live(r)}')
    BY <1>1, <1>4, SameLive DEF RunInv
  <2> QED BY Zenon, <1>1, <1>4, <1>5, <2>1 DEF RunInv
<1>9. ResultInv'
  BY Zenon, <1>1 DEF ResultInv, Cause
<1>10. SleepInv'
  <2>1. s \notin sq /\ "signal" \notin state'[s] /\ ("suspend" \in state[s] => "suspend" \in state'[s])
    BY <1>1, <1>3 DEF SleepInv
  <2> QED BY <1>1, <1>3, <2>1 DEF SleepInv, TypeOK
<1>11. ASSUME StopInv PROVE StopInv'
  <2>1. \A r, q \in Spus : pc[r] = "drain" => pc'[q] \notin Ending
    BY <1>5, <1>11 DEF StopInv
  <2> QED BY Zenon, <1>1, <1>3, <1>4, <1>5, <1>11, <2>1, StopSame
<1> QED BY <1>6, <1>7, <1>8, <1>9, <1>10, <1>11

------------------------------------------------------------------------------
\* The end of a run

\* The last thread locks the mutex, sets the status back and names the cause.
LEMMA EndRunInv ==
    ASSUME GroupInv, NEW s \in Spus, EndRun(s)
    PROVE  GroupInv' /\ (StopInv => StopInv')
<1> USE DEF GroupInv
<1>1. /\ pc[s] = "last" /\ mutex = None /\ mutex' = s /\ run_state' = "INITIALIZED"
      /\ join_state' = IF join_state = None THEN "ALL_THREADS_EXIT" ELSE join_state
      /\ pc' = [pc EXCEPT ![s] = "statuses"]
      /\ UNCHANGED <<running, exit_status, set_terminate, stop_count, waiter, freed, decider,
                     state, exited, published, sq, last_stop, over>>
  BY DEF EndRun, Goto, spuVars, queueVars, ppuVars
<1>2. /\ pc'[s] = "statuses" /\ \A r \in Spus \ {s} : pc'[r] = pc[r]
      /\ \A p \in Ppus : pc'[p] = pc[p]
  BY <1>1, Apart DEF TypeOK
<1>3. /\ \A r \in Spus : ~Live(r) /\ (pc[r] \in Ending => r = s)
      /\ run_state \notin Rest /\ run_state' \in Rest
  BY <1>1, PlacesOf DEF RunInv, Rest, Initialized
<1>4. \A r \in Spus : FlagsOf(r)' /\ ~Live(r)'
  <2>1. "statuses" \notin Active
    BY PlacesOf
  <2> QED BY <1>1, <1>2, <1>3, <2>1 DEF RunInv, FlagsOf, Live
<1>5. \A r \in Spus : /\ pc'[r] = "statuses" <=> r = s
                      /\ pc'[r] \in Ending => r = s
                      /\ pc'[r] # "last"
                      /\ pc'[r] = "sleep" <=> pc[r] = "sleep"
                      /\ pc'[r] = "drain" <=> pc[r] = "drain"
  BY <1>1, <1>2, <1>3 DEF Ending
<1>6. TypeOK'
  <2>1. pc' \in [Spus \cup Ppus -> SpuPlaces \cup PpuPlaces] /\ \A r \in Spus : pc'[r] \in SpuPlaces
    BY <1>1, <1>2, PlacesOf DEF TypeOK
  <2> QED BY <1>1, <1>2, <1>3, <2>1 DEF TypeOK
<1>7. MutexInv'
  <2>1. waiter # None => pc'[waiter] = pc[waiter]
    BY <1>2 DEF TypeOK
  <2>2. \A p \in Ppus : pc'[p] # "notify" /\ mutex' # p
    BY <1>1, <1>2, Apart DEF MutexInv
  <2>3. ~freed /\ \A p \in Ppus : pc'[p] # "destroy"
    BY <1>2, <1>3 DEF MutexInv, Rest
  <2> QED BY <1>1, <1>5, <2>1, <2>2, <2>3, Apart DEF MutexInv
<1>8. RunInv'
  <2>1. running' = Cardinality({r \in Spus : Live(r)}')
    BY Zenon, <1>1, <1>3, <1>4, SameLive DEF RunInv
  <2>2. mutex' # None
    BY <1>1, Apart
  <2> QED BY Zenon, <1>4, <1>5, <2>1, <2>2 DEF RunInv
<1>9. ResultInv'
  <2>1. mutex \notin Ppus /\ mutex' \notin Ppus /\ mutex' # None /\ Cause' = Cause
    BY <1>1, Apart DEF Cause
  <2>2. join_state' = Cause /\ exit_status = decider /\ Cause # None
    BY Zenon, <1>1, <1>3, <2>1, SpuGroupAssumption DEF ResultInv, Cause
  <2> QED BY <1>1, <1>3, <2>1, <2>2 DEF ResultInv
<1>10. SleepInv'
  <2>1. \A r \in Spus : pc[r] # "sleep"
    BY <1>3, ActiveLives, PlacesOf
  <2>2. sq = {} /\ run_state' \notin Waiting
    BY <1>1, <2>1 DEF SleepInv, TypeOK, Waiting
  <2> QED BY Zenon, <1>1, <1>5, <2>1, <2>2 DEF SleepInv, Waiting
<1>11. ASSUME StopInv PROVE StopInv'
  <2>1. \A r \in Spus : pc[r] # "drain"
    BY <1>1, <1>11, PlacesOf DEF StopInv
  <2> QED BY Zenon, <1>1, <1>2, <1>5, <1>11, <2>1, StopSame
<1> QED BY <1>6, <1>7, <1>8, <1>9, <1>10, <1>11

\* The rest of the critical section leaves the group at rest.  A stop that wraps
\* stop_count keeps this thread until all who wait for a stop have seen it.
LEMMA StopRunInv ==
    ASSUME GroupInv, NEW s \in Spus, StopRun(s)
    PROVE  GroupInv' /\ (StopInv /\ NotLapped => StopInv')
<1> USE DEF GroupInv
<1>1. /\ pc[s] = "statuses" /\ mutex' = None /\ waiter' = None
      /\ \A r \in Spus \ {s} : exited[r] => published[r]
      /\ published' = [published EXCEPT ![s] = exited[s] \/ published[s]]
      /\ stop_count' = IF stop_count = Umax THEN Restart ELSE stop_count + 1
      /\ join_state' = IF waiter = None THEN join_state ELSE None
      /\ over' = [p \in Ppus |-> over[p] \/ pc[p] = "stopping"]
      /\ UNCHANGED <<run_state, running, exit_status, set_terminate, freed, decider, state,
                     exited, sq, last_stop>>
  BY DEF StopRun, queueVars
<1>2. /\ pc'[s] = IF stop_count = Umax THEN "drain" ELSE IF "again" \in state[s] THEN "dead" ELSE "off"
      /\ \A r \in Spus \ {s} : pc'[r] = pc[r]
      /\ \A p \in Ppus : pc'[p] = IF p = waiter THEN "idle" ELSE pc[p]
      /\ DOMAIN pc' = Spus \cup Ppus /\ pc' = [t \in Spus \cup Ppus |-> pc'[t]]
  BY Apart DEF StopRun, TypeOK
<1>3. /\ mutex = s /\ run_state \in {"INITIALIZED", "DESTROYED"} /\ run_state \in Rest
      /\ \A r \in Spus : ~Live(r) /\ (pc[r] \in Ending => r = s)
      /\ \A p \in Ppus : pc[p] # "notify"
      /\ ~freed
  <2>1. mutex = s /\ mutex \in Spus /\ mutex # None /\ pc[s] \in Ending
    BY Zenon, <1>1, Apart, PlacesOf DEF MutexInv
  <2> QED BY <2>1, Apart DEF MutexInv, RunInv, Rest, Initialized
<1>4. \A r \in Spus : /\ FlagsOf(r)' /\ ~Live(r)'
                      /\ pc'[r] \notin Ending
                      /\ pc'[r] = "sleep" <=> pc[r] = "sleep"
  <2>1. pc'[s] \in {"drain", "dead", "off"}
    BY <1>2
  <2>2. \A r \in Spus : pc'[r] \notin Ending
    BY <1>2, <1>3, <2>1 DEF Ending
  <2>3. pc'[s] \notin Active /\ pc'[s] # "dec" /\ pc'[s] # "sleep"
    BY <2>1, PlacesOf
  <2> QED BY <1>1, <1>2, <1>3, <2>2, <2>3 DEF RunInv, FlagsOf, Live
<1>5. TypeOK'
  <2>1. stop_count' \in 0..Umax
    <3>1. stop_count \in 0..Umax
      BY DEF TypeOK
    <3>2. stop_count' = IF stop_count = Umax THEN Restart ELSE stop_count + 1
      BY <1>1
    <3> QED BY <3>1, <3>2, NextStop
  <2>2. /\ \A r \in Spus : pc'[r] \in SpuPlaces
        /\ \A p \in Ppus : pc'[p] \in PpuPlaces
    BY <1>2 DEF TypeOK, SpuPlaces, PpuPlaces
  <2>3. pc' \in [Spus \cup Ppus -> SpuPlaces \cup PpuPlaces]
    BY <1>2, <2>2
  <2>4. published' \in [Spus -> BOOLEAN] /\ over' \in [Ppus -> BOOLEAN]
    BY <1>1 DEF TypeOK
  <2> QED BY Zenon, <1>1, <2>1, <2>2, <2>3, <2>4 DEF TypeOK
<1>6. MutexInv'
  <2>1. \A p \in Ppus : pc'[p] # "notify" /\ mutex' # p
    BY <1>1, <1>2, <1>3, Apart
  <2>2. \A r \in Spus : pc'[r] # "statuses" /\ mutex' # r
    BY <1>1, <1>4, Apart DEF Ending
  <2> QED BY <1>1, <1>2, <1>3, <2>1, <2>2 DEF MutexInv
<1>7. RunInv'
  <2>1. running' = Cardinality({r \in Spus : Live(r)}')
    BY Zenon, <1>1, <1>3, <1>4, SameLive DEF RunInv
  <2>2. \A r \in Spus : exited'[r] => published'[r]
    BY <1>1 DEF TypeOK
  <2>3. \A r \in Spus : pc'[r] # "last"
    BY <1>4 DEF Ending
  <2> QED BY Zenon, <1>4, <2>1, <2>2, <2>3 DEF RunInv
<1>8. ResultInv'
  <2>1. mutex' \notin Ppus /\ mutex' \notin Spus
    BY Zenon, <1>1, Apart
  <2> QED BY <1>1, <1>3, <2>1 DEF ResultInv, Cause
<1>9. SleepInv'
  BY Zenon, <1>1, <1>4 DEF SleepInv, TypeOK
<1>10. ASSUME StopInv, NotLapped PROVE StopInv'
  <2>1. \A p \in Ppus : pc'[p] = "stopping" <=> pc[p] = "stopping"
    BY <1>2, Apart DEF MutexInv
  <2>2. \A p \in Ppus : over'[p] <=> pc[p] = "stopping"
    BY Zenon, <1>1, <1>10 DEF StopInv, TypeOK
  <2>3. ASSUME NEW p \in Ppus, pc[p] = "stopping" PROVE last_stop[p] <= stop_count
    <3>1. \A r \in Spus : pc[r] # "drain"
      BY Zenon, <1>1, <1>10, PlacesOf DEF StopInv
    <3>2. last_stop[p] \in 0..Umax /\ stop_count \in 0..Umax
      BY DEF TypeOK
    <3>3. stop_count > last_stop[p] \/ stop_count = last_stop[p]
      BY Zenon, <1>10, <2>3, <3>1 DEF StopInv
    <3> QED BY <3>2, <3>3, NextStop
  <2>4. ASSUME NEW p \in Ppus, over'[p]
        PROVE  \/ stop_count' > last_stop[p]
               \/ stop_count' = Restart /\ last_stop[p] # Restart /\ pc'[s] = "drain"
    <3>1. last_stop[p] \in 0..Umax /\ stop_count \in 0..Umax
      BY DEF TypeOK
    <3>2. pc[p] = "stopping" /\ last_stop[p] <= stop_count
      BY Zenon, <2>2, <2>3, <2>4
    <3>3. CASE stop_count = Umax
      BY Zenon, <1>1, <1>2, <1>10, <3>2, <3>3 DEF NotLapped
    <3>4. CASE stop_count # Umax
      <4>1. stop_count' = IF stop_count = Umax THEN Restart ELSE stop_count + 1
        BY <1>1
      <4>2. stop_count' > last_stop[p]
        BY <3>1, <3>2, <3>4, <4>1, NextStop
      <4> QED BY <4>2
    <3> QED BY <3>3, <3>4
  <2> QED BY Zenon, <1>1, <1>3, <1>4, <2>1, <2>2, <2>4 DEF StopInv
<1> QED BY <1>5, <1>6, <1>7, <1>8, <1>9, <1>10

-----------------------------------------------------------------------------
\* The system calls of the PPU threads

\* A PPU thread goes on, outside the loop that notifies the threads.
LEMMA PpuMove ==
    ASSUME GroupInv, NEW p \in Ppus, NEW l \in PpuPlaces \ {"notify"},
           pc[p] \notin {"notify", "join"}, pc' = [pc EXCEPT ![p] = l],
           UNCHANGED <<running, exit_status, set_terminate, stop_count, mutex, decider, join_state,
                       state, exited, published, sq>>,
           \/ run_state' = run_state
           \/ run_state \in Initialized /\ run_state' = "DESTROYED",
           l = "destroy" => run_state' = "DESTROYED",
           freed' \in BOOLEAN, freed' => run_state' = "DESTROYED" /\ mutex = None,
           \/ waiter' = waiter
           \/ waiter' = p /\ l = "join" /\ (run_state \notin Rest \/ join_state = None),
           last_stop' \in [Ppus -> 0..Umax], over' \in [Ppus -> BOOLEAN]
    PROVE  GroupInv'
<1> USE DEF GroupInv
<1>1. /\ pc'[p] = l /\ \A q \in Ppus \ {p} : pc'[q] = pc[q]
      /\ \A r \in Spus : pc'[r] = pc[r]
  BY Apart DEF TypeOK
<1>2. /\ run_state' \in Rest <=> run_state \in Rest
      /\ run_state' \in Waiting <=> run_state \in Waiting
      /\ run_state' \in {"WAITING", "WAITING_AND_SUSPENDED"}
           <=> run_state \in {"WAITING", "WAITING_AND_SUSPENDED"}
  BY DEF Rest, Initialized, Waiting
<1>3. TypeOK'
  <2>1. /\ pc' \in [Spus \cup Ppus -> SpuPlaces \cup PpuPlaces]
        /\ \A q \in Ppus : pc'[q] \in PpuPlaces
        /\ \A r \in Spus : pc'[r] \in SpuPlaces
    BY <1>1 DEF TypeOK
  <2>2. run_state' \in Rest \cup Waiting \cup {"RUNNING"}
    BY DEF TypeOK, Rest
  <2> QED BY <2>1, <2>2 DEF TypeOK
<1>4. MutexInv'
  <2>1. \A q \in Ppus : pc'[q] = "notify" <=> pc[q] = "notify"
    BY <1>1
  <2>2. waiter' # None => pc'[waiter'] = "join"
    BY <1>1 DEF MutexInv, TypeOK
  <2>3. mutex \in Spus => run_state' \in {"INITIALIZED", "DESTROYED"}
    BY DEF MutexInv
  <2>4. mutex \in Ppus => run_state' \in {"RUNNING", "SUSPENDED"}
    BY DEF MutexInv, Initialized
  <2> QED BY <1>1, <2>1, <2>2, <2>3, <2>4 DEF MutexInv
<1>5. RunInv'
  <2>1. \A r \in Spus : Live(r)' <=> Live(r)
    BY <1>1 DEF Live
  <2>2. \A r \in Spus : FlagsOf(r)'
    BY <1>1 DEF RunInv, FlagsOf
  <2>3. running' = Cardinality({r \in Spus : Live(r)}')
    BY Zenon, <2>1, SameLive DEF RunInv
  <2> QED BY Zenon, <1>1, <1>2, <2>1, <2>2, <2>3 DEF RunInv
<1>6. ResultInv'
  BY <1>2 DEF ResultInv, Cause
<1>7. SleepInv'
  BY Zenon, <1>1, <1>2 DEF SleepInv, TypeOK
<1> QED BY <1>3, <1>4, <1>5, <1>6, <1>7

\* Such a step that does not begin or end the wait for a stop.
LEMMA PpuMoveStop ==
    ASSUME GroupInv, StopInv, NEW p \in Ppus, NEW l \in PpuPlaces \ {"notify", "stopping"},
           pc[p] # "stopping", pc' = [pc EXCEPT ![p] = l],
           run_state' = run_state \/ run_state' \in Rest,
           UNCHANGED <<stop_count, last_stop, over, state>>
    PROVE  StopInv'
<1>1. /\ pc'[p] = l /\ \A q \in Ppus \ {p} : pc'[q] = pc[q]
      /\ \A r \in Spus : pc'[r] = pc[r]
  BY Apart DEF GroupInv, TypeOK
<1>2. \A r \in Spus : Live(r)' <=> Live(r)
  BY <1>1 DEF Live
<1>3. \A q \in Ppus : pc'[q] = "stopping" <=> pc[q] = "stopping"
  BY <1>1
<1>4. \A r, q \in Spus : pc[r] = "drain" => pc'[q] \notin Ending
  BY <1>1 DEF StopInv
<1> QED BY Zenon, <1>1, <1>2, <1>3, <1>4, StopSame

\* Waiting for a result, destroying the group and the end of that.
LEMMA PpuCallsInv ==
    ASSUME GroupInv, NEW p \in Ppus,
           (Join(p) /\ waiter' = p) \/ Destroy(p) \/ Free(p)
    PROVE  GroupInv' /\ (StopInv => StopInv')
<1> USE DEF groupVars, spuVars, queueVars, ppuVars, Goto
<1>0. /\ {"join", "destroy", "idle"} \subseteq PpuPlaces \ {"notify", "stopping"}
      /\ last_stop \in [Ppus -> 0..Umax] /\ over \in [Ppus -> BOOLEAN] /\ freed \in BOOLEAN
      /\ freed => run_state = "DESTROYED" /\ mutex = None
      /\ pc[p] = "destroy" => run_state = "DESTROYED"
  BY DEF PpuPlaces, GroupInv, TypeOK, MutexInv
<1>1. CASE Join(p) /\ waiter' = p
  <2>1. /\ pc' = [pc EXCEPT ![p] = "join"] /\ pc[p] = "idle" /\ run_state' = run_state
        /\ freed' = freed /\ "join" # "destroy" /\ p # None
        /\ run_state \notin Rest \/ join_state = None
        /\ UNCHANGED <<running, exit_status, set_terminate, stop_count, mutex, decider, join_state,
                       state, exited, published, sq, last_stop, over>>
    BY <1>1, Apart DEF Join, Rest, Initialized
  <2>2. GroupInv'
    BY Zenon, <1>0, <1>1, <2>1, PpuMove
  <2> QED BY Zenon, <1>0, <2>1, <2>2, PpuMoveStop
<1>2. CASE Destroy(p)
  <2>1. /\ pc' = [pc EXCEPT ![p] = "destroy"] /\ pc[p] = "idle"
        /\ run_state \in Initialized /\ run_state' = "DESTROYED" /\ run_state' \in Rest
        /\ freed' = freed /\ waiter' = waiter
        /\ UNCHANGED <<running, exit_status, set_terminate, stop_count, mutex, decider, join_state,
                       state, exited, published, sq, last_stop, over>>
    BY <1>2 DEF Destroy, Rest
  <2>2. GroupInv'
    BY Zenon, <1>0, <2>1, PpuMove
  <2> QED BY Zenon, <1>0, <2>1, <2>2, PpuMoveStop
<1>3. CASE Free(p)
  <2>1. /\ pc' = [pc EXCEPT ![p] = "idle"] /\ pc[p] = "destroy" /\ mutex = None
        /\ run_state' = run_state /\ freed' = TRUE /\ waiter' = waiter /\ "idle" # "destroy"
        /\ UNCHANGED <<running, exit_status, set_terminate, stop_count, mutex, decider, join_state,
                       state, exited, published, sq, last_stop, over>>
    BY <1>3 DEF Free
  <2>2. GroupInv'
    BY Zenon, <1>0, <2>1, PpuMove
  <2> QED BY Zenon, <1>0, <2>1, <2>2, PpuMoveStop
<1> QED BY <1>1, <1>2, <1>3

\* sys_spu_thread_group_join of a run that is over
LEMMA TakeResultInv ==
    ASSUME GroupInv, NEW p \in Ppus, Join(p), pc' = pc
    PROVE  GroupInv' /\ (StopInv => StopInv')
<1> USE DEF Join, groupVars, spuVars, queueVars, ppuVars, Goto
<1>1. /\ pc[p] = "idle" /\ pc' # [pc EXCEPT ![p] = "join"]
  BY DEF GroupInv, TypeOK
<1>2. /\ run_state = "INITIALIZED" /\ mutex = None /\ join_state' = None /\ p # None
      /\ run_state \in Rest /\ mutex \notin Spus /\ mutex \notin Ppus
      /\ UNCHANGED <<run_state, running, exit_status, set_terminate, stop_count, mutex, decider,
                     waiter, freed, state, exited, published, sq, last_stop, over>>
  BY <1>1, Apart DEF Rest, Initialized
<1>3. TypeOK' /\ MutexInv' /\ RunInv' /\ SleepInv'
  <2>1. TypeOK'
    BY <1>2 DEF GroupInv, TypeOK
  <2>2. MutexInv'
    BY <1>2 DEF GroupInv, MutexInv
  <2>3. RunInv'
    BY <1>2 DEF GroupInv, RunInv, Live, FlagsOf
  <2>4. SleepInv'
    BY <1>2 DEF GroupInv, SleepInv
  <2> QED BY <2>1, <2>2, <2>3, <2>4
<1>4. ResultInv'
  BY <1>2 DEF GroupInv, ResultInv
<1>5. StopInv => StopInv'
  BY Zenon, <1>2 DEF StopInv, Live
<1> QED BY <1>3, <1>4, <1>5 DEF GroupInv

\* The end of sys_spu_thread_group_terminate
LEMMA TerminateReturnInv ==
    ASSUME GroupInv, NEW p \in Ppus, TerminateReturn(p)
    PROVE  GroupInv' /\ (StopInv => StopInv')
<1> USE DEF TerminateReturn, groupVars, spuVars, queueVars, ppuVars, Goto
<1>1. /\ "idle" \in PpuPlaces \ {"notify"} /\ "idle" # "destroy"
      /\ pc' = [pc EXCEPT ![p] = "idle"] /\ pc[p] = "stopping"
      /\ last_stop' \in [Ppus -> 0..Umax] /\ over' \in [Ppus -> BOOLEAN] /\ freed' \in BOOLEAN
      /\ freed' => run_state' = "DESTROYED" /\ mutex = None
  BY DEF PpuPlaces, GroupInv, TypeOK, MutexInv
<1>2. /\ run_state' = run_state /\ waiter' = waiter
      /\ UNCHANGED <<running, exit_status, set_terminate, stop_count, mutex, decider, join_state,
                     state, exited, published, sq>>
  OBVIOUS
<1>3. GroupInv'
  BY Zenon, <1>1, <1>2, PpuMove
<1>4. /\ pc'[p] = "idle" /\ \A q \in Ppus \ {p} : pc'[q] = pc[q] /\ over'[q] = over[q]
      /\ \A r \in Spus : pc'[r] = pc[r]
      /\ ~over'[p]
  BY Apart DEF GroupInv, TypeOK
<1>5. ASSUME StopInv PROVE StopInv'
  <2>1. \A r \in Spus : Live(r)' <=> Live(r)
    BY <1>4 DEF Live
  <2> QED BY <1>4, <1>5, <2>1 DEF StopInv, GroupInv, TypeOK
<1> QED BY <1>3, <1>5

\* A PPU thread begins to wait for a stop, with the stop_count it has read.
LEMMA BeginWaitStop ==
    ASSUME GroupInv, StopInv, NEW p \in Ppus, pc[p] # "stopping",
           pc' = [pc EXCEPT ![p] = "stopping"],
           last_stop' = [last_stop EXCEPT ![p] = stop_count],
           UNCHANGED <<stop_count, over, state, run_state>>
    PROVE  StopInv'
<1>1. /\ pc'[p] = "stopping" /\ last_stop'[p] = stop_count
      /\ \A q \in Ppus \ {p} : pc'[q] = pc[q] /\ last_stop'[q] = last_stop[q]
      /\ \A r \in Spus : pc'[r] = pc[r]
  BY Apart DEF GroupInv, TypeOK
<1>2. ~over[p]
  BY DEF StopInv
<1>3. \A r \in Spus : Live(r)' <=> Live(r)
  BY <1>1 DEF Live
<1> QED BY <1>1, <1>2, <1>3 DEF StopInv, GroupInv, TypeOK

\* sys_spu_thread_group_terminate: the second one, and the first one with the
\* flags it raises.
LEMMA TerminateInv ==
    ASSUME GroupInv, NEW p \in Ppus, Terminate(p)
    PROVE  GroupInv' /\ (StopInv => StopInv')
<1> USE DEF groupVars, spuVars, queueVars, ppuVars, Goto
<1>1. /\ pc[p] = "idle" /\ mutex = None /\ run_state \in {"RUNNING", "SUSPENDED"}
      /\ run_state \notin Rest /\ ~freed /\ None \notin Spus \cup Ppus /\ p \notin Spus
      /\ UNCHANGED <<run_state, running, join_state, exit_status, stop_count, waiter, freed,
                     exited, published, sq, over>>
  BY Apart DEF Terminate, Rest, Initialized, GroupInv, MutexInv
<1>2. CASE set_terminate
  <2>1. /\ pc' = [pc EXCEPT ![p] = "stopping"]
        /\ last_stop' = [last_stop EXCEPT ![p] = stop_count]
        /\ UNCHANGED <<set_terminate, decider, state, mutex>>
    BY <1>2 DEF Terminate
  <2>2. /\ "stopping" \in PpuPlaces \ {"notify"} /\ "stopping" # "destroy"
        /\ last_stop' \in [Ppus -> 0..Umax] /\ over' \in [Ppus -> BOOLEAN] /\ freed' \in BOOLEAN
    BY <1>1, <2>1 DEF PpuPlaces, GroupInv, TypeOK
  <2>3. GroupInv'
    BY Zenon, <1>1, <2>1, <2>2, PpuMove
  <2> QED BY Zenon, <1>1, <2>1, <2>3, BeginWaitStop
<1>3. CASE ~set_terminate
  <2> USE DEF GroupInv
  <2>1. /\ set_terminate' = TRUE /\ decider' = p /\ StopAll /\ mutex' = p
        /\ pc' = [pc EXCEPT ![p] = "notify"] /\ last_stop' = last_stop
    BY <1>3 DEF Terminate
  <2>2. /\ pc'[p] = "notify" /\ \A q \in Ppus \ {p} : pc'[q] = pc[q]
        /\ \A r \in Spus : pc'[r] = pc[r]
    BY <2>1, Apart DEF TypeOK
  <2>3. /\ state' \in [Spus -> SUBSET Flags]
        /\ \A r \in Spus : FlagsOf(r)' /\ (Live(r)' <=> Live(r))
        /\ \A r \in Spus : /\ "signal" \in state'[r] <=> "signal" \in state[r]
                           /\ "suspend" \in state'[r] <=> "suspend" \in state[r]
    BY Zenon, <2>1, <2>2, StopAllKeeps
  <2>4. TypeOK'
    <3>1. /\ pc' \in [Spus \cup Ppus -> SpuPlaces \cup PpuPlaces]
          /\ \A q \in Ppus : pc'[q] \in PpuPlaces
          /\ \A r \in Spus : pc'[r] \in SpuPlaces
      BY <2>1, <2>2 DEF TypeOK, PpuPlaces
    <3>2. set_terminate' \in BOOLEAN /\ mutex' \in Spus \cup Ppus \cup {None}
      BY <2>1
    <3> QED BY Zenon, <1>1, <2>1, <2>3, <3>1, <3>2 DEF TypeOK
  <2>5. MutexInv'
    <3>1. waiter # None => pc'[waiter] = "join"
      BY <1>1, <2>2 DEF TypeOK, MutexInv
    <3>2. \A r \in Spus : pc[r] # "statuses"
      BY <1>1 DEF MutexInv
    <3>3. \A q \in Ppus : pc[q] # "notify" /\ pc'[q] # "destroy"
      BY Zenon, <1>1, <2>2 DEF MutexInv
    <3> QED BY <1>1, <2>1, <2>2, <3>1, <3>2, <3>3 DEF MutexInv
  <2>6. RunInv'
    <3>1. running' = Cardinality({r \in Spus : Live(r)}')
      BY Zenon, <1>1, <2>3, SameLive DEF RunInv
    <3> QED BY Zenon, <1>1, <2>2, <2>3, <3>1 DEF RunInv
  <2>7. ResultInv'
    BY <1>1, <1>3, <2>1 DEF ResultInv
  <2>8. SleepInv'
    BY Zenon, <1>1, <2>2, <2>3 DEF SleepInv, TypeOK
  <2>9. ASSUME StopInv PROVE StopInv'
    <3>1. \A r, q \in Spus : pc[r] = "drain" => pc'[q] \notin Ending
      BY <2>2, <2>9 DEF StopInv
    <3>2. \A q \in Ppus : pc'[q] = "stopping" <=> pc[q] = "stopping"
      BY <1>1, <2>2
    <3> QED BY Zenon, <1>1, <2>1, <2>2, <2>3, <2>9, <3>1, <3>2, StopSame
  <2> QED BY <2>4, <2>5, <2>6, <2>7, <2>8, <2>9
<1> QED BY <1>2, <1>3

\* The first termination has notified every thread, sets the result and
\* unlocks the mutex.
LEMMA SetResultInv ==
    ASSUME GroupInv, NEW p \in Ppus, SetResult(p)
    PROVE  GroupInv' /\ (StopInv => StopInv')
<1> USE DEF GroupInv
<1>1. /\ pc[p] = "notify" /\ mutex' = None
      /\ exit_status' = p /\ join_state' = "TERMINATED"
      /\ pc' = [pc EXCEPT ![p] = "stopping"]
      /\ last_stop' = [last_stop EXCEPT ![p] = stop_count]
      /\ UNCHANGED <<run_state, running, set_terminate, stop_count, waiter, freed, decider,
                     state, exited, published, sq, over>>
  BY DEF SetResult, Goto, spuVars, queueVars
<1>2. /\ mutex = p /\ p \notin Spus /\ None \notin Spus \cup Ppus
      /\ set_terminate /\ decider = p
      /\ run_state \in {"RUNNING", "SUSPENDED"} /\ run_state \notin Rest /\ ~freed
  BY <1>1, Apart DEF MutexInv, ResultInv, Rest, Initialized
<1>3. /\ pc'[p] = "stopping" /\ \A q \in Ppus \ {p} : pc'[q] = pc[q]
      /\ \A r \in Spus : pc'[r] = pc[r]
  BY <1>1, Apart DEF TypeOK
<1>4. TypeOK'
  <2>1. /\ pc' \in [Spus \cup Ppus -> SpuPlaces \cup PpuPlaces]
        /\ \A q \in Ppus : pc'[q] \in PpuPlaces
        /\ \A r \in Spus : pc'[r] \in SpuPlaces
    BY <1>1, <1>3 DEF TypeOK, PpuPlaces
  <2>2. last_stop' \in [Ppus -> 0..Umax] /\ mutex' \in Spus \cup Ppus \cup {None}
    BY <1>1 DEF TypeOK
  <2> QED BY Zenon, <1>1, <2>1, <2>2 DEF TypeOK
<1>5. MutexInv'
  <2>1. waiter # None => pc'[waiter] = "join"
    BY <1>1, <1>3 DEF TypeOK, MutexInv
  <2>2. \A r \in Spus : pc'[r] # "statuses"
    BY <1>2, <1>3 DEF MutexInv
  <2>3. \A q \in Ppus : pc'[q] # "notify" /\ pc'[q] # "destroy"
    BY <1>2, <1>3 DEF MutexInv
  <2> QED BY <1>1, <1>2, <2>1, <2>2, <2>3 DEF MutexInv
<1>6. RunInv'
  <2>1. \A r \in Spus : (Live(r)' <=> Live(r)) /\ FlagsOf(r)'
    BY <1>1, <1>3 DEF Live, FlagsOf, RunInv
  <2>2. running' = Cardinality({r \in Spus : Live(r)}')
    BY Zenon, <1>1, <2>1, SameLive DEF RunInv
  <2> QED BY Zenon, <1>1, <1>2, <1>3, <2>1, <2>2 DEF RunInv
<1>7. ResultInv'
  BY <1>1, <1>2 DEF ResultInv, Cause
<1>8. SleepInv'
  BY Zenon, <1>1, <1>3 DEF SleepInv, TypeOK
<1>9. StopInv => StopInv'
  BY Zenon, <1>1, BeginWaitStop
<1> QED BY <1>4, <1>5, <1>6, <1>7, <1>8, <1>9

\* The status of the group, the queue and the flags suspend and signal change,
\* and no run begins or ends.
LEMMA StatusMove ==
    ASSUME GroupInv, mutex = None, run_state # "DESTROYED",
           UNCHANGED <<running, join_state, exit_status, set_terminate, stop_count, waiter, mutex,
                       exited, published, pc, last_stop, freed, decider, over>>,
           run_state' \in Rest <=> run_state \in Rest,
           run_state' \in Rest \cup Waiting \cup {"RUNNING"},
           state' \in [Spus -> SUBSET Flags], sq' \in SUBSET Spus,
           \A r \in Spus : /\ "stop" \in state'[r] <=> "stop" \in state[r]
                           /\ "ret" \in state'[r] <=> "ret" \in state[r],
           SleepInv'
    PROVE  GroupInv' /\ (StopInv => StopInv')
<1> USE DEF GroupInv
<1>1. \A r \in Spus : (Live(r)' <=> Live(r)) /\ FlagsOf(r)'
  BY DEF Live, FlagsOf, RunInv
<1>2. TypeOK'
  BY Zenon DEF TypeOK
<1>3. MutexInv'
  BY Apart DEF MutexInv
<1>4. RunInv'
  <2>1. running' = Cardinality({r \in Spus : Live(r)}')
    BY Zenon, <1>1, SameLive DEF RunInv
  <2> QED BY Zenon, <1>1, <2>1 DEF RunInv
<1>5. ResultInv'
  BY Apart DEF ResultInv, Cause
<1>6. ASSUME StopInv PROVE StopInv'
  <2>1. \A r, q \in Spus : pc[r] = "drain" => pc'[q] \notin Ending
    BY <1>6 DEF StopInv
  <2> QED BY Zenon, <1>1, <1>6, <2>1, StopSame
<1> QED BY <1>2, <1>3, <1>4, <1>5, <1>6

\* sys_spu_thread_initialize, sys_spu_thread_group_suspend and
\* sys_spu_thread_group_resume
LEMMA StatusCallsInv ==
    ASSUME GroupInv, Initialize \/ Suspend \/ Resume
    PROVE  GroupInv' /\ (StopInv => StopInv')
<1> USE DEF GroupInv, groupVars, spuVars, queueVars, ppuVars
<1>1. /\ mutex = None /\ sq' = sq
      /\ UNCHANGED <<running, join_state, exit_status, set_terminate, stop_count, waiter, mutex,
                     exited, published, pc, last_stop, freed, decider, over>>
  BY DEF Initialize, Suspend, Resume
<1>2. sq' \in SUBSET Spus /\ state \in [Spus -> SUBSET Flags]
  BY <1>1 DEF TypeOK
<1>3. CASE Initialize
  <2>1. /\ run_state # "DESTROYED" /\ run_state' \in Rest /\ run_state \in Rest
        /\ run_state' \in Rest \cup Waiting \cup {"RUNNING"} /\ state' = state
    BY <1>3 DEF Initialize, Rest, Initialized
  <2>2. SleepInv'
    BY Zenon, <1>1, <2>1 DEF SleepInv, Rest, Initialized, Waiting
  <2> QED BY Zenon, <1>1, <1>2, <2>1, <2>2, StatusMove
<1>4. CASE Suspend
  <2>1. /\ run_state # "DESTROYED" /\ run_state' \notin Rest /\ run_state \notin Rest
        /\ run_state' \in Rest \cup Waiting \cup {"RUNNING"}
    BY Zenon, <1>4 DEF Suspend, Rest, Initialized, Waiting
  <2>2. /\ \A r \in Spus : state'[r] = state[r] \cup {"suspend"}
        /\ state' \in [Spus -> SUBSET Flags]
    BY <1>2, <1>4 DEF Suspend, Flags
  <2>3. \A r \in Spus : /\ "stop" \in state'[r] <=> "stop" \in state[r]
                        /\ "ret" \in state'[r] <=> "ret" \in state[r]
                        /\ "signal" \in state'[r] <=> "signal" \in state[r]
                        /\ "suspend" \in state'[r]
    BY <2>2
  <2>4. SleepInv'
    <3>1. run_state' \in {"WAITING", "WAITING_AND_SUSPENDED"}
            <=> run_state \in {"WAITING", "WAITING_AND_SUSPENDED"}
      BY <1>4 DEF Suspend
    <3> QED BY Zenon, <1>1, <1>2, <2>3, <3>1 DEF SleepInv
  <2> QED BY Zenon, <1>1, <1>2, <2>1, <2>2, <2>3, <2>4, StatusMove
<1>5. CASE Resume
  <2>1. /\ run_state # "DESTROYED" /\ run_state' \notin Rest /\ run_state \notin Rest
        /\ run_state' \in Rest \cup Waiting \cup {"RUNNING"}
    BY <1>5 DEF Resume, Rest, Initialized, Waiting
  <2>2. \/ state' = state
        \/ /\ state' = [s \in Spus |-> state[s] \ {"suspend"}]
           /\ run_state' \notin Waiting
    BY <1>5 DEF Resume, Waiting
  <2>3. state' \in [Spus -> SUBSET Flags]
    BY <1>2, <2>2 DEF Flags
  <2>4. \A r \in Spus : /\ "stop" \in state'[r] <=> "stop" \in state[r]
                        /\ "ret" \in state'[r] <=> "ret" \in state[r]
                        /\ "signal" \in state'[r] <=> "signal" \in state[r]
    BY <1>2, <2>2
  <2>5. SleepInv'
    <3>1. run_state' \in {"WAITING", "WAITING_AND_SUSPENDED"}
            <=> run_state \in {"WAITING", "WAITING_AND_SUSPENDED"}
      BY <1>5 DEF Resume
    <3>2. run_state' \in Waiting => \A r \in Spus : "suspend" \in state'[r]
      BY <1>5, <2>2 DEF SleepInv, Resume, Waiting
    <3> QED BY Zenon, <1>1, <1>2, <2>4, <3>1, <3>2 DEF SleepInv
  <2> QED BY Zenon, <1>1, <1>2, <2>1, <2>3, <2>4, <2>5, StatusMove
<1> QED BY <1>3, <1>4, <1>5

\* lv2_event_queue::send wakes the SPU that sleeps in the queue.
LEMMA ResumeFromWaitingInv ==
    ASSUME GroupInv, NEW s \in Spus, ResumeFromWaiting(s)
    PROVE  GroupInv' /\ (StopInv => StopInv')
<1> USE DEF GroupInv, ppuVars
<1>1. /\ mutex = None /\ s \in sq /\ sq' = sq \ {s}
      /\ UNCHANGED <<running, join_state, exit_status, set_terminate, stop_count, waiter, mutex,
                     exited, published, pc, last_stop, freed, decider, over>>
  BY DEF ResumeFromWaiting
<1>2. /\ run_state \in {"WAITING", "WAITING_AND_SUSPENDED"} /\ sq' = {}
      /\ pc[s] = "sleep" /\ "signal" \notin state[s]
      /\ \A r \in Spus : "suspend" \in state[r]
      /\ \A r \in Spus \ {s} : ~(pc[r] = "sleep" /\ "signal" \notin state[r])
  BY <1>1 DEF SleepInv, Waiting
<1>3. /\ run_state' \in {"RUNNING", "SUSPENDED"}
      /\ run_state # "DESTROYED" /\ run_state' \notin Rest /\ run_state \notin Rest
      /\ run_state' \in Rest \cup Waiting \cup {"RUNNING"} /\ sq' \in SUBSET Spus
  BY <1>2 DEF ResumeFromWaiting, Rest, Initialized, Waiting
<1>4. state \in [Spus -> SUBSET Flags]
  BY DEF TypeOK
<1>5. /\ state' \in [Spus -> SUBSET Flags]
      /\ \A r \in Spus : /\ "stop" \in state'[r] <=> "stop" \in state[r]
                         /\ "ret" \in state'[r] <=> "ret" \in state[r]
                         /\ "signal" \in state'[r] <=> "signal" \in state[r] \/ r = s
                         /\ run_state' = "SUSPENDED" => "suspend" \in state'[r]
  <2>1. CASE run_state = "WAITING_AND_SUSPENDED"
    <3>1. state' = [state EXCEPT ![s] = @ \cup {"signal"}]
      BY <2>1 DEF ResumeFromWaiting
    <3> QED BY <1>2, <1>4, <3>1 DEF Flags
  <2>2. CASE run_state = "WAITING"
    <3>1. /\ state' = [r \in Spus |-> IF r = s THEN Toggle(state[r]) ELSE state[r] \ {"suspend"}]
          /\ run_state' = "RUNNING"
      BY <2>2 DEF ResumeFromWaiting
    <3>2. Toggle(state[s]) = (state[s] \ {"suspend"}) \cup {"signal"}
      BY <1>2 DEF Toggle
    <3>3. ASSUME NEW r \in Spus
          PROVE  state'[r] = IF r = s THEN (state[r] \ {"suspend"}) \cup {"signal"}
                                      ELSE state[r] \ {"suspend"}
      BY <3>1, <3>2
    <3>4. \A r \in Spus : state'[r] \in SUBSET Flags
      BY Zenon, <1>4, <3>3 DEF Flags
    <3>5. state' \in [Spus -> SUBSET Flags]
      BY <3>1, <3>4
    <3>6. ASSUME NEW r \in Spus
          PROVE  /\ "stop" \in state'[r] <=> "stop" \in state[r]
                 /\ "ret" \in state'[r] <=> "ret" \in state[r]
                 /\ "signal" \in state'[r] <=> "signal" \in state[r] \/ r = s
      <4>1. CASE r = s
        <5>1. state'[r] = (state[r] \ {"suspend"}) \cup {"signal"}
          BY Zenon, <3>3, <4>1
        <5> QED BY <4>1, <5>1
      <4>2. CASE r # s
        <5>1. state'[r] = state[r] \ {"suspend"}
          BY Zenon, <3>3, <4>2
        <5> QED BY <4>2, <5>1
      <4> QED BY <4>1, <4>2
    <3>7. run_state' # "SUSPENDED"
      BY <3>1
    <3> QED BY Zenon, <3>5, <3>6, <3>7
  <2> QED BY <1>2, <2>1, <2>2
<1>6. SleepInv'
  <2>1. \A r \in Spus : "signal" \in state'[r] => pc[r] = "sleep"
    BY <1>2, <1>5 DEF SleepInv
  <2>2. \A r \in Spus : pc[r] = "sleep" => "signal" \in state'[r]
    BY <1>2, <1>5
  <2>3. run_state' \in Waiting => run_state' = "SUSPENDED"
    BY <1>3 DEF Waiting
  <2>4. run_state' \notin {"WAITING", "WAITING_AND_SUSPENDED"}
    BY <1>3
  <2> QED BY <1>1, <1>2, <1>5, <2>1, <2>2, <2>3, <2>4 DEF SleepInv
<1> QED BY Zenon, <1>1, <1>3, <1>5, <1>6, StatusMove

-----------------------------------------------------------------------------
\* The steps that need facts about cardinalities, and the theorems

LEMMA Finite ==
    IsFiniteSet(Spus) /\ Cardinality(Spus) = Num /\ IsFiniteSet(Ppus)
<1>1. Num \in Nat /\ 1 \in Int /\ Num \in Int
  BY SpuGroupAssumption
<1>2. IsFiniteSet(1..Num) /\ Cardinality(1..Num) = Num
  BY <1>1, FS_Interval
<1> QED BY <1>2, SpuGroupAssumption DEF Spus

\* A group that has just been created satisfies the invariant.
LEMMA InitInv == Init => GroupInv /\ StopInv
<1> SUFFICES ASSUME Init PROVE GroupInv /\ StopInv
  OBVIOUS
<1> USE DEF Init
<1>1. TypeOK
  <2>1. stop_count \in 0..Umax /\ last_stop \in [Ppus -> 0..Umax]
    BY SpuGroupAssumption
  <2>2. /\ \A s \in Spus : pc[s] = "off"
        /\ \A p \in Ppus : pc[p] = "idle"
        /\ pc \in [Spus \cup Ppus -> SpuPlaces \cup PpuPlaces]
    BY Apart DEF SpuPlaces, PpuPlaces
  <2>3. state \in [Spus -> SUBSET Flags]
    BY DEF Flags
  <2> QED BY Zenon, <2>1, <2>2, <2>3 DEF TypeOK, Rest, Initialized, SpuPlaces, PpuPlaces
<1>2. /\ \A s \in Spus : pc[s] = "off" /\ state[s] = {"stop"}
      /\ \A p \in Ppus : pc[p] = "idle"
  BY Apart
<1>3. MutexInv
  BY <1>2, Apart DEF MutexInv
<1>4. RunInv
  <2>1. \A s \in Spus : ~Live(s) /\ FlagsOf(s)
    BY <1>2 DEF Live, FlagsOf, Active
  <2>2. {s \in Spus : Live(s)} = {}
    BY <2>1
  <2>3. running = Cardinality({s \in Spus : Live(s)})
    BY <2>2, FS_EmptySet
  <2> QED BY <1>2, <2>1, <2>3 DEF RunInv, Ending
<1>5. ResultInv
  BY Apart DEF ResultInv, Rest, Initialized
<1>6. SleepInv
  BY <1>2 DEF SleepInv, Waiting
<1>7. StopInv
  BY <1>2 DEF StopInv, Ending
<1> QED BY <1>1, <1>3, <1>4, <1>5, <1>6, <1>7 DEF GroupInv

\* cpu_return of a thread that is not the last, and the wait for terminators.
LEMMA ReturnsInv ==
    ASSUME GroupInv, NEW s \in Spus, Publish(s) \/ Drain(s)
    PROVE  GroupInv' /\ (StopInv => StopInv')
<1>1. PICK l \in {"off", "dead"} : pc' = [pc EXCEPT ![s] = l]
  BY DEF Publish, Drain, Returned, Goto
<1>2. /\ UNCHANGED <<groupVars, state, exited, sq, ppuVars, mutex>>
      /\ published' \in {published, [published EXCEPT ![s] = TRUE]}
      /\ pc[s] \in {"publish", "drain"} /\ (pc[s] = "drain" => wait_term_count = 0)
  BY DEF Publish, Drain, spuVars, queueVars
<1>3. pc[s] = "drain" => \A p \in Ppus : pc[p] # "stopping"
  <2>1. IsFiniteSet({p \in Ppus : pc[p] = "stopping"})
    BY Finite, FS_Subset
  <2> QED BY <1>2, <2>1, FS_EmptySet DEF wait_term_count
<1>4. /\ pc[s] \notin Ending \cup {"sleep", "dec"} /\ l \notin Active
      /\ l \in SpuPlaces \ (Ending \cup {"drain", "sleep", "dec"})
  BY <1>1, <1>2, PlacesOf DEF Ending
<1> QED BY Zenon, <1>1, <1>2, <1>3, <1>4, PlaceMove

\* cpu_return counts the thread: it was in the run, and no other is at the end.
LEMMA DecrementInv ==
    ASSUME GroupInv, NEW s \in Spus, Decrement(s)
    PROVE  GroupInv' /\ (StopInv => StopInv')
<1> USE DEF GroupInv
<1>1. /\ pc[s] = "dec" /\ running' = running - 1
      /\ UNCHANGED <<run_state, join_state, exit_status, set_terminate, stop_count, waiter, freed,
                     decider, state, exited, published, sq, last_stop, over, mutex>>
  BY DEF Decrement, spuVars, queueVars, ppuVars
<1>2. PICK l \in {"last", "publish", "off", "dead"} :
         pc' = [pc EXCEPT ![s] = l] /\ (l = "last" => running = 1)
  BY DEF Decrement, Returned, Goto
<1>3. /\ pc'[s] = l /\ \A r \in Spus \ {s} : pc'[r] = pc[r]
      /\ \A p \in Ppus : pc'[p] = pc[p]
  BY <1>2, Apart DEF TypeOK
<1>4. /\ Live(s) /\ ~Live(s)' /\ FlagsOf(s)'
      /\ run_state \notin Rest /\ \A r \in Spus : pc[r] \notin Ending
  <2>1. FlagsOf(s) /\ Live(s)
    BY <1>1 DEF RunInv, Live
  <2>2. l # "dec" /\ l \notin Active
    BY PlacesOf
  <2> QED BY <1>1, <1>3, <2>1, <2>2 DEF RunInv, FlagsOf, Live
<1>5. \A r \in Spus \ {s} : FlagsOf(r)' /\ (Live(r)' <=> Live(r))
  BY <1>1, <1>3 DEF RunInv, FlagsOf, Live
<1> DEFINE L == {r \in Spus : Live(r)}
<1>6. /\ IsFiniteSet(L) /\ s \in L /\ L' = L \ {s}
      /\ running = Cardinality(L) /\ Cardinality(L') = Cardinality(L) - 1
  <2>1. IsFiniteSet(L) /\ s \in L /\ running = Cardinality(L)
    BY <1>4, Finite, FS_Subset DEF RunInv
  <2>2. L' = L \ {s}
    BY <1>4, <1>5
  <2> HIDE DEF L
  <2> QED BY <2>1, <2>2, FS_RemoveElement
<1>7. l = "last" => \A r \in Spus : ~Live(r)'
  <2>1. l = "last" => Cardinality(L') = 0 /\ IsFiniteSet(L')
    BY <1>2, <1>6, FS_Subset
  <2>2. l = "last" => L' = {}
    BY <2>1, FS_EmptySet
  <2> QED BY <2>2
<1> HIDE DEF L
<1>8. TypeOK'
  <2>1. pc' \in [Spus \cup Ppus -> SpuPlaces \cup PpuPlaces] /\ \A r \in Spus : pc'[r] \in SpuPlaces
    BY <1>2, <1>3, PlacesOf DEF TypeOK
  <2> QED BY Zenon, <1>1, <1>3, <2>1 DEF TypeOK
<1>9. MutexInv'
  <2>1. waiter # None => pc'[waiter] = pc[waiter]
    BY <1>3 DEF TypeOK
  <2>2. \A r \in Spus : pc'[r] = "statuses" <=> pc[r] = "statuses"
    BY <1>1, <1>3
  <2> QED BY <1>1, <1>3, <2>1, <2>2 DEF MutexInv
<1>10. RunInv'
  <2>1. running' = Cardinality({r \in Spus : Live(r)}')
    BY <1>1, <1>6 DEF L
  <2>2. \A r \in Spus : pc'[r] \in Ending => r = s /\ l = "last"
    BY <1>3, <1>4 DEF Ending
  <2>3. \A r \in Spus : FlagsOf(r)'
    BY <1>4, <1>5
  <2> QED BY Zenon, <1>1, <1>4, <1>7, <2>1, <2>2, <2>3 DEF RunInv
<1>11. ResultInv'
  BY Zenon, <1>1 DEF ResultInv, Cause
<1>12. SleepInv'
  <2>1. \A r \in Spus : pc'[r] = "sleep" <=> pc[r] = "sleep"
    BY <1>1, <1>3
  <2> QED BY Zenon, <1>1, <2>1 DEF SleepInv, TypeOK
<1>13. ASSUME StopInv PROVE StopInv'
  <2>1. \A r \in Spus : pc'[r] = "drain" <=> pc[r] = "drain"
    BY <1>1, <1>3
  <2>2. \A r \in Spus : pc[r] = "drain" => Live(r)'
    BY <1>1, <1>4, <1>5, <1>13 DEF StopInv
  <2>3. \A r, q \in Spus : pc[r] = "drain" => pc'[q] \notin Ending
    BY <1>3, <1>4, <1>7, <2>2 DEF Ending
  <2> QED BY Zenon, <1>1, <1>3, <1>13, <2>1, <2>2, <2>3, StopSame
<1> QED BY <1>8, <1>9, <1>10, <1>11, <1>12, <1>13

\* sys_spu_thread_group_start: every thread of the run before has been counted.
LEMMA StartInv ==
    ASSUME GroupInv, Start
    PROVE  GroupInv' /\ (StopInv => StopInv')
<1> USE DEF GroupInv
<1>1. /\ mutex = None /\ run_state = "INITIALIZED" /\ run_state' = "RUNNING"
      /\ join_state' = None /\ exit_status' = None /\ running' = Num
      /\ set_terminate' = FALSE /\ decider' = None
      /\ exited' = [s \in Spus |-> FALSE]
      /\ state' = [s \in Spus |-> state[s] \ {"stop"}]
      /\ UNCHANGED <<stop_count, waiter, freed, published, sq, last_stop, over, mutex, pc>>
  BY DEF Start, queueVars, ppuVars
<1>2. /\ run_state \in Rest /\ run_state' \notin Rest /\ run_state' \notin Waiting
      /\ run_state' \notin {"WAITING", "WAITING_AND_SUSPENDED"} /\ sq = {}
      /\ mutex \notin Spus /\ mutex \notin Ppus
  BY <1>1, Apart DEF Rest, Initialized, Waiting, SleepInv
<1>3. \A r \in Spus : /\ ~Live(r) /\ pc[r] \notin Ending
                      /\ "ret" \notin state[r] /\ pc[r] # "dec"
  BY <1>1, <1>2 DEF RunInv, Ending, MutexInv, Live
<1>4. \A r \in Spus : state'[r] = state[r] \ {"stop"}
  BY <1>1
<1>5. \A r \in Spus : Live(r)' /\ FlagsOf(r)'
  BY <1>1, <1>3, <1>4 DEF Live, FlagsOf
<1>6. TypeOK'
  <2>1. state' \in [Spus -> SUBSET Flags] /\ exited' \in [Spus -> BOOLEAN]
    BY <1>1 DEF TypeOK
  <2>2. run_state' \in Rest \cup Waiting \cup {"RUNNING"} /\ set_terminate' \in BOOLEAN
    BY Zenon, <1>1
  <2> QED BY Zenon, <1>1, <2>1, <2>2 DEF TypeOK
<1>7. MutexInv'
  BY <1>1, <1>2 DEF MutexInv
<1>8. RunInv'
  <2>1. {r \in Spus : Live(r)}' = Spus
    BY <1>5
  <2>2. running' = Cardinality({r \in Spus : Live(r)}')
    BY Zenon, <1>1, <2>1, Finite
  <2> QED BY Zenon, <1>1, <1>2, <1>3, <1>5, <2>2 DEF RunInv
<1>9. ResultInv'
  BY <1>1, <1>2 DEF ResultInv
<1>10. SleepInv'
  BY <1>1, <1>2, <1>4 DEF SleepInv
<1>11. StopInv => StopInv'
  BY Zenon, <1>1, <1>5, StopSame DEF StopInv
<1> QED BY <1>6, <1>7, <1>8, <1>9, <1>10, <1>11

------------------------------------------------------------------------------
\* Every step keeps the invariant.
LEMMA NextInv ==
    ASSUME GroupInv, [Next]_vars
    PROVE  GroupInv' /\ (StopInv /\ NotLapped => StopInv')
<1> USE DEF groupVars, spuVars, queueVars, ppuVars
<1>1. ASSUME NEW s \in Spus, HostStep(s) PROVE GroupInv' /\ (StopInv /\ NotLapped => StopInv')
  <2>1. CASE CpuTask(s) \/ CheckState(s)
    BY <2>1, StepsInv
  <2>2. CASE SeeRet(s)
    BY <2>2, SeeRetInv
  <2>3. CASE Decrement(s)
    BY <2>3, DecrementInv
  <2>4. CASE Publish(s) \/ Drain(s)
    BY <2>4, ReturnsInv
  <2>5. CASE EndRun(s)
    BY <2>5, EndRunInv
  <2>6. CASE StopRun(s)
    BY <2>6, StopRunInv
  <2> QED BY <1>1, <2>1, <2>2, <2>3, <2>4, <2>5, <2>6 DEF HostStep
<1>2. ASSUME NEW s \in Spus, SpuCall(s) PROVE GroupInv' /\ (StopInv => StopInv')
  <2>1. CASE ThreadExit(s)
    BY <2>1, ThreadExitInv
  <2>2. CASE Call(s)
    BY <2>2, StepsInv
  <2>3. CASE CheckGroup(s)
    BY <2>3, CheckGroupInv
  <2>4. CASE GroupExit(s)
    BY <2>4, GroupExitInv
  <2>5. CASE ReceiveEvent(s)
    BY <2>5, ReceiveEventInv
  <2>6. CASE Woken(s)
    BY <2>6, WokenInv
  <2>7. CASE TryReceive(s)
    BY <2>7, NothingMoves DEF TryReceive
  <2> QED BY <1>2, <2>1, <2>2, <2>3, <2>4, <2>5, <2>6, <2>7 DEF SpuCall
<1>3. ASSUME NEW p \in Ppus, PpuStep(p) \/ Terminate(p) \/ Join(p) \/ Destroy(p)
      PROVE  GroupInv' /\ (StopInv => StopInv')
  <2>1. CASE NotifyThread(p)
    BY <2>1, NothingMoves DEF NotifyThread
  <2>2. CASE SetResult(p)
    BY <2>2, SetResultInv
  <2>3. CASE TerminateReturn(p)
    BY <2>3, TerminateReturnInv
  <2>4. CASE Free(p) \/ Destroy(p)
    BY <2>4, PpuCallsInv
  <2>5. CASE Terminate(p)
    BY <2>5, TerminateInv
  <2>6. CASE Join(p)
    <3>1. pc' = pc \/ waiter' = p
      BY <2>6 DEF Join
    <3> QED BY <2>6, <3>1, TakeResultInv, PpuCallsInv
  <2> QED BY <1>3, <2>1, <2>2, <2>3, <2>4, <2>5, <2>6 DEF PpuStep
<1>4. CASE \E s \in Spus : ResumeFromWaiting(s)
  BY <1>4, ResumeFromWaitingInv
<1>5. CASE Initialize \/ Suspend \/ Resume
  BY <1>5, StatusCallsInv
<1>6. CASE Start
  BY <1>6, StartInv
<1>7. CASE SendEvent
  BY <1>7, NothingMoves DEF SendEvent
<1>8. CASE UNCHANGED vars
  BY <1>8, NothingMoves DEF vars
<1> QED BY Zenon, <1>1, <1>2, <1>3, <1>4, <1>5, <1>6, <1>7, <1>8 DEF Next

\* The group, its threads and its result stay consistent.
THEOREM GroupInvariant == Spec => []GroupInv
<1>1. Init => GroupInv
  BY InitInv
<1>2. GroupInv /\ [Next]_vars => GroupInv'
  BY NextInv
<1> QED BY <1>1, <1>2, PTL DEF Spec

\* Every thread of a group leaves a run through cpu_return once, however
\* exits, a group exit and terminations race: running counts those that have
\* yet to, and one thread at most ends the run.
THEOREM RunningIsCounted == Spec => []RunningCounted
<1>1. ASSUME GroupInv PROVE RunningCounted
  <2> DEFINE E == {s \in Spus : pc[s] \in {"last", "statuses"}}
  <2>1. \A s, r \in E : s = r
    BY <1>1 DEF GroupInv, RunInv, Ending
  <2>2. Cardinality(E) <= 1
    <3>1. CASE E = {}
      BY <3>1, FS_EmptySet
    <3>2. CASE E # {}
      <4>1. PICK s \in E : TRUE
        BY <3>2
      <4>2. E = {s}
        BY <2>1, <4>1
      <4>3. Cardinality({s}) = 1
        BY FS_Singleton
      <4> QED BY <4>2, <4>3
    <3> QED BY <3>1, <3>2
  <2> QED BY <1>1, <2>2 DEF RunningCounted, GroupInv, RunInv
<1> QED BY <1>1, GroupInvariant, PTL

\* A group that may be started again or is about to be cleaned up is at rest:
\* all threads have been counted, and their exit statuses can be read.
THEOREM StoppedGroupIsQuiet == Spec => []StoppedIsQuiet
<1>1. ASSUME GroupInv PROVE StoppedIsQuiet
  <2> SUFFICES ASSUME (run_state \in Initialized /\ mutex = None) \/ freed
               PROVE  /\ running = 0
                      /\ \A s \in Spus : /\ ~Live(s) /\ pc[s] \notin {"last", "statuses"}
                                         /\ exited[s] => published[s]
    BY DEF StoppedIsQuiet
  <2>1. run_state \in Rest /\ mutex = None
    BY <1>1 DEF GroupInv, MutexInv, Rest
  <2>2. \A s \in Spus : ~Live(s) /\ pc[s] # "last" /\ (exited[s] => published[s])
    BY <1>1, <2>1 DEF GroupInv, RunInv
  <2>3. \A s \in Spus : pc[s] # "statuses"
    BY <1>1, <2>1, Apart DEF GroupInv, MutexInv
  <2>4. {s \in Spus : Live(s)} = {}
    BY <2>2
  <2>5. running = 0
    BY <1>1, <2>4, FS_EmptySet DEF GroupInv, RunInv
  <2> QED BY <2>2, <2>3, <2>5
<1> QED BY <1>1, GroupInvariant, PTL

\* The result of a run is that of the first group exit or termination, or says
\* that all threads exited, and no joiner waits beside it.
THEOREM JoinerGetsOutcome == Spec => []JoinOutcome
<1>1. GroupInv => JoinOutcome
  BY DEF JoinOutcome, GroupInv, ResultInv, Cause, Rest, Initialized
<1> QED BY <1>1, GroupInvariant, PTL

\* The group waits for an event exactly when one of its threads sleeps in the
\* queue, and its threads are held while it is suspended or waits.
THEOREM StatusOfThreads == Spec => []StatusMatchesThreads
<1>1. ASSUME GroupInv PROVE StatusMatchesThreads
  <2>1. sq = {} => Cardinality(sq) = 0
    BY FS_EmptySet
  <2>2. sq # {} => Cardinality(sq) = 1
    <3> SUFFICES ASSUME sq # {} PROVE Cardinality(sq) = 1
      OBVIOUS
    <3>1. PICK s \in sq : TRUE
      OBVIOUS
    <3>2. sq = {s}
      BY <1>1, <3>1 DEF GroupInv, SleepInv
    <3> QED BY Zenon, <3>2, FS_Singleton
  <2>3. sq \subseteq Spus
    BY <1>1 DEF GroupInv, TypeOK
  <2>4. \A s \in Spus : pc[s] = "sleep" => (s \in sq <=> "signal" \notin state[s])
    BY <1>1 DEF GroupInv, SleepInv
  <2>5. run_state \in {"WAITING", "WAITING_AND_SUSPENDED"} <=> Cardinality(sq) = 1
    BY <1>1, <2>1, <2>2 DEF GroupInv, SleepInv
  <2> QED BY <1>1, <2>1, <2>2, <2>4, <2>5 DEF StatusMatchesThreads, GroupInv, SleepInv
<1> QED BY <1>1, GroupInvariant, PTL

\* sys_spu_thread_group_terminate recognises the stop it waits for by
\* stop_count, also across the wrap, if it is not so slow that the count goes
\* from Restart to Umax while it waits.
THEOREM StopIsNotMissed == Spec /\ []NotLapped => []StopNotMissed
<1>1. Init => GroupInv /\ StopInv
  BY InitInv
<1>2. GroupInv /\ StopInv /\ NotLapped /\ [Next]_vars => GroupInv' /\ StopInv'
  BY NextInv
<1>3. ASSUME GroupInv, StopInv PROVE StopNotMissed
  <2> SUFFICES ASSUME NEW p \in Ppus, over[p] PROVE stop_count # last_stop[p]
    BY DEF StopNotMissed
  <2>1. stop_count \in Nat /\ last_stop[p] \in Nat
    BY <1>3 DEF GroupInv, TypeOK
  <2> QED BY <1>3, <2>1 DEF StopInv
<1> QED BY <1>1, <1>2, <1>3, PTL DEF Spec

=============================================================================
