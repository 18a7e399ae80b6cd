---------------------------- MODULE Lv2EventFlag ----------------------------
(***************************************************************************)
(* sys_event_flag.cpp: one lv2_event_flag shared by PPU threads.           *)
(*                                                                         *)
(* The 64-bit pattern is the set of its bits.  Waits test and clear it, and *)
(* sys_event_flag_clear and sys_event_flag_trywait change it, without      *)
(* lv2_event_flag::mutex; sys_event_flag_set holds the mutex but publishes  *)
(* what it decided for all waiters with one compare-and-swap that may fail. *)
(* A wait tests the pattern once without and once with the mutex; either   *)
(* test is WaitAtOnce.  The pattern reported to the guest (gpr[6]) is left  *)
(* out.                                                                    *)
(***************************************************************************)
EXTENDS Naturals, Sequences, FiniteSets, SequencesExt, Lv2Threads, Lv2WaitQueue

CONSTANTS Bits,       \* the bits of the pattern in use
          InitPattern,\* the initial value passed to sys_event_flag_create
          Waits,      \* the waits each thread may make
          Sets,       \* the bits each thread may set
          Clears,     \* the masks each thread may pass to sys_event_flag_clear
          Cancels,    \* the threads that may cancel the waits
          SingleWaiter, \* SYS_SYNC_WAITER_SINGLE
          Savestates, \* TRUE when the emulator may save and reload
          None        \* not a thread: nobody

\* The arguments of a wait: bitptn, mode & 0xf, mode & ~0xf, timeout (0 is none).
Requests == [bits : SUBSET Bits, op : {"and", "or"}, clear : {"none", "bits", "all"}, timeout : Nat]

ASSUME FlagAssumption ==
    /\ InitPattern \subseteq Bits
    /\ \A t \in Threads :
          /\ \A r \in Waits[t] : r \in Requests
          /\ Sets[t] \subseteq SUBSET Bits
          /\ Clears[t] \subseteq SUBSET Bits
    /\ Cancels \subseteq Threads
    /\ {SingleWaiter, Savestates} \subseteq BOOLEAN
    /\ None \notin Threads
    /\ Protocol \in {"fifo", "prio"}
    /\ Prio \in [Threads -> Nat]

VARIABLES pattern, sq, mutex, exists, \* lv2_event_flag
          stop,                       \* a savestate was requested
          pc,                         \* where each thread is
          req,                        \* its wait: gpr[4], gpr[5], timeout
          res,                        \* its gpr[3]: -1 is "none"
          bitptn,                     \* the argument of its sys_event_flag_set
          old                         \* the local "pattern" there

flagVars == <<pattern, sq, mutex, exists>>
setVars == <<bitptn, old>>
vars == <<flagVars, stop, pc, req, res, setVars, threadVars>>

NoRequest == [bits |-> {}, op |-> "and", clear |-> "none", timeout |-> 0]

Places == {"user", "halted", "waiting", "resched", "expired", "s_lock", "s_apply",
           "again_w", "again_s", "again_c", "redo_w", "redo_s", "redo_c"}

TypeOK ==
    /\ ThreadsTypeOK
    /\ pattern \subseteq Bits
    /\ sq \in Seq(Threads) /\ IsInjective(sq)
    /\ mutex \in Threads \cup {None}
    /\ {exists, stop} \subseteq BOOLEAN
    /\ pc \in [Threads -> Places]
    /\ \A t \in Threads : req[t] \in Requests
    /\ res \in [Threads -> {"none", "ok", "canceled", "timedout"}]
    /\ bitptn \in [Threads -> SUBSET Bits]
    /\ old \in [Threads -> SUBSET Bits]

Init ==
    /\ ThreadsInit
    /\ pattern = InitPattern
    /\ sq = <<>>
    /\ mutex = None
    /\ exists = TRUE
    /\ stop = FALSE
    /\ pc = [t \in Threads |-> "user"]
    /\ req = [t \in Threads |-> NoRequest]
    /\ res = [t \in Threads |-> "none"]
    /\ bitptn = [t \in Threads |-> {}]
    /\ old = [t \in Threads |-> {}]

-----------------------------------------------------------------------------
Goto(t, to) == pc' = [pc EXCEPT ![t] = to]

\* Threads that repeat their wait before the scheduler is started (g_to_sleep).
FutureSleepers == {t \in Threads : st[t] = "sleep" /\ pc[t] = "redo_w"}

MayEnter(t) == FutureSleepers = {} \/ t \in FutureSleepers

\* A waiter was stopped while queued and will repeat its call (cpu_flag::again).
SomeRepeating == \E i \in DOMAIN sq : pc[sq[i]] = "again_w"

\* check_pattern(): the test ...
Matches(pat, r) ==
    IF r.op = "and" THEN r.bits \subseteq pat ELSE r.bits \cap pat # {}

\* ... and what it leaves.
Cleared(pat, r) ==
    CASE r.clear = "none" -> pat
      [] r.clear = "bits" -> pat \ r.bits
      [] r.clear = "all"  -> {}

-----------------------------------------------------------------------------
\* sys_event_flag_wait

Entering(t, r) ==
    /\ exists
    /\ MayEnter(t)
    /\ \/ pc[t] = "user" /\ r \in Waits[t]
       \/ pc[t] = "redo_w" /\ r = req[t]

WaitAtOnce(t, r) ==
    /\ Entering(t, r)
    /\ Matches(pattern, r)
    /\ pattern' = Cleared(pattern, r)
    /\ Goto(t, "user")
    /\ UNCHANGED <<sq, mutex, exists, stop, req, res, setVars, threadVars>>

WaitSleep_Mutant(t, r) ==
    /\ Entering(t, r)
    /\ mutex = None
    /\ ~Matches(pattern, r)
    /\ ~(SingleWaiter /\ sq # <<>>)
    /\ Sleep(t)
    /\ sq' = Emplace(sq, t)
    /\ req' = [req EXCEPT ![t] = r]
    /\ Goto(t, "waiting")
    /\ UNCHANGED <<pattern, mutex, exists, stop, res, setVars>>

\* Under the mutex; a second waiter of a single waiter flag gets EPERM.
WaitSleep(t, r) ==
    /\ Entering(t, r)
    /\ mutex = None
    /\ ~Matches(pattern, r)
    /\ ~(SingleWaiter /\ sq # <<>>)
    /\ Sleep(t)
    /\ sq' = Emplace(sq, t)
    /\ req' = [req EXCEPT ![t] = r]
    /\ res' = [res EXCEPT ![t] = "none"]
    /\ Goto(t, "waiting")
    /\ UNCHANGED <<pattern, mutex, exists, stop, setVars>>

Queued(t) == InQueue(sq, t)

\* The loop finds cpu_flag::signal and the call returns gpr[3].
WaitSignaled(t) ==
    /\ pc[t] = "waiting"
    /\ Resume(t)
    /\ Goto(t, "user")
    /\ UNCHANGED <<flagVars, stop, req, res, setVars>>

\* The loop finds the thread stopped: repeat the call if still queued.
WaitStopped(t) ==
    /\ pc[t] = "waiting"
    /\ stop
    /\ mutex = None
    /\ Goto(t, IF Queued(t) THEN "again_w" ELSE "halted")
    /\ UNCHANGED <<flagVars, stop, req, res, setVars, threadVars>>

\* wait_timeout() returns true, check_state() waits for rescheduling.
WaitTimeout(t) ==
    /\ pc[t] = "waiting"
    /\ req[t].timeout # 0
    /\ SelfAwake(t)
    /\ Goto(t, "resched")
    /\ UNCHANGED <<flagVars, stop, req, res, setVars>>

WaitRescheduled(t) ==
    /\ pc[t] = "resched"
    /\ \/ Resume(t) /\ Goto(t, "expired")
       \/ /\ stop                          \* check_state() returns true
          /\ Goto(t, "waiting")
          /\ Resume(t) \/ UNCHANGED threadVars
    /\ UNCHANGED <<flagVars, stop, req, res, setVars>>

\* A thread that is no longer queued was served: gpr[3] says how.
WaitExpired(t) ==
    /\ pc[t] = "expired"
    /\ mutex = None
    /\ sq' = IF Queued(t) THEN Unqueue(sq, t) ELSE sq
    /\ res' = IF Queued(t) THEN [res EXCEPT ![t] = "timedout"] ELSE res
    /\ Goto(t, "user")
    /\ UNCHANGED <<pattern, mutex, exists, stop, req, setVars, threadVars>>

\* sys_event_flag_trywait
TryWait(t, r) ==
    /\ pc[t] = "user"
    /\ exists
    /\ MayEnter(t)
    /\ r \in Waits[t]
    /\ Matches(pattern, r)
    /\ pattern' = Cleared(pattern, r)
    /\ UNCHANGED <<sq, mutex, exists, stop, pc, req, res, setVars, threadVars>>

-----------------------------------------------------------------------------
\* sys_event_flag_set

\* get_next(): all waiters, in the order in which they are served.
Turn(i, j) == IF Protocol = "fifo" THEN i > j ELSE Before(sq, i, j)

Waiters == LET turn == SetToSortSeq(DOMAIN sq, Turn)
           IN  [i \in DOMAIN sq |-> sq[turn[i]]]

\* The bits of the previous value that the wake-up of a waiter depends on.
DependantMask(r, bits, pat) ==
    IF r.op = "or" \/ r.bits \subseteq bits \cap pat THEN {} ELSE r.bits

Exhausted_Mutant(left) == TRUE

\* Nothing is left to write: the pass breaks off.
Exhausted(left) == left = {}

\* The pass over the waiters for the value x: to_write, dependant_mask, the
\* waiters that it tells what to return, and whether it broke off.
Pass(x, bits) ==
    LET serve(p, t) ==
            CASE p.done -> p
              [] ~p.done /\ Matches(p.to_write, req[t]) ->
                   LET left == Cleared(p.to_write, req[t])
                   IN  [to_write |-> left,
                        mask |-> p.mask \cup DependantMask(req[t], bits, p.to_write),
                        ok |-> p.ok \cup {t},
                        no |-> p.no,
                        done |-> Exhausted(left)]
              [] OTHER -> [p EXCEPT !.no = @ \cup {t}]
    IN  FoldLeft(serve, [to_write |-> x \cup bits, mask |-> {}, ok |-> {}, no |-> {}, done |-> FALSE],
                 Waiters)

\* get_unlocked(), and nothing to do when all bits are set already.
SetCall(t, bits) ==
    /\ exists
    /\ MayEnter(t)
    /\ \/ pc[t] = "user" /\ bits \in Sets[t]
       \/ pc[t] = "redo_s" /\ bits = bitptn[t]
    /\ IF bits \subseteq pattern
       THEN Goto(t, "user") /\ bitptn' = [bitptn EXCEPT ![t] = {}]
       ELSE Goto(t, "s_lock") /\ bitptn' = [bitptn EXCEPT ![t] = bits]
    /\ UNCHANGED <<flagVars, stop, req, res, old, threadVars>>

\* Lock, look for waiters that repeat their call and read the pattern.
SetLock(t) ==
    /\ pc[t] = "s_lock"
    /\ mutex = None
    /\ IF SomeRepeating
       THEN /\ Goto(t, "again_s")
            /\ UNCHANGED <<mutex, old>>
       ELSE /\ Goto(t, "s_apply")
            /\ mutex' = t
            /\ old' = [old EXCEPT ![t] = pattern]
    /\ UNCHANGED <<pattern, sq, exists, stop, req, res, bitptn, threadVars>>

\* fetch_op: no bit that the pass depends on has changed since it was read.
MayApply(t, p) ==
    \A b \in p.mask \ bitptn[t] : b \in pattern <=> b \in old[t]

\* Set the bits and "clear the bit-wise difference".
Applied(t, p) ==
    (pattern \cup bitptn[t]) \ ((old[t] \cup bitptn[t]) \ p.to_write)

\* The pass writes gpr[3] of the waiters it reaches.
Marked(p) ==
    [t \in Threads |-> IF t \in p.ok THEN "ok" ELSE IF t \in p.no THEN "none" ELSE res[t]]

\* Remove waiters: the ones marked by this pass, or by an earlier one.
SetApply(t) ==
    LET p == Pass(old[t], bitptn[t])
        woken == {u \in Threads : Queued(u) /\ Marked(p)[u] = "ok" /\ p.ok # {}}
    IN  /\ pc[t] = "s_apply"
        /\ res' = Marked(p)
        /\ IF MayApply(t, p)
           THEN /\ pattern' = Applied(t, p)
                /\ sq' = SelectSeq(sq, LAMBDA u : u \notin woken)
                /\ Awake(woken)
                /\ mutex' = None
                /\ Goto(t, "user")
                /\ bitptn' = [bitptn EXCEPT ![t] = {}]
                /\ old' = [old EXCEPT ![t] = {}]
           ELSE /\ old' = [old EXCEPT ![t] = pattern]
                /\ UNCHANGED <<pattern, sq, mutex, pc, bitptn, threadVars>>
        /\ UNCHANGED <<exists, stop, req>>

-----------------------------------------------------------------------------
\* sys_event_flag_clear keeps the bits of the mask.
Clear(t, mask) ==
    /\ pc[t] = "user"
    /\ exists
    /\ MayEnter(t)
    /\ mask \in Clears[t]
    /\ pattern' = pattern \cap mask
    /\ UNCHANGED <<sq, mutex, exists, stop, pc, req, res, setVars, threadVars>>

\* sys_event_flag_cancel: every waiter returns ECANCELED.
Cancel(t) ==
    /\ \/ pc[t] = "user" /\ t \in Cancels
       \/ pc[t] = "redo_c"
    /\ exists
    /\ MayEnter(t)
    /\ mutex = None
    /\ IF SomeRepeating
       THEN /\ Goto(t, "again_c")
            /\ UNCHANGED <<sq, res, threadVars>>
       ELSE /\ res' = [u \in Threads |-> IF Queued(u) THEN "canceled" ELSE res[u]]
            /\ sq' = <<>>
            /\ Awake({u \in Threads : Queued(u)})
            /\ Goto(t, "user")
    /\ UNCHANGED <<pattern, mutex, exists, stop, req, setVars>>

\* sys_event_flag_destroy, unless there are waiters (EBUSY).
Destroy(t) ==
    /\ pc[t] = "user"
    /\ exists
    /\ MayEnter(t)
    /\ sq = <<>>
    /\ exists' = FALSE
    /\ UNCHANGED <<pattern, sq, mutex, stop, pc, req, res, setVars, threadVars>>

-----------------------------------------------------------------------------
\* Savestates

Stop ==
    /\ Savestates
    /\ ~stop
    /\ FutureSleepers = {}
    /\ stop' = TRUE
    /\ UNCHANGED <<flagVars, pc, req, res, setVars, threadVars>>

Halt(t) ==
    /\ stop
    /\ pc[t] = "user"
    /\ Goto(t, "halted")
    /\ UNCHANGED <<flagVars, stop, req, res, setVars, threadVars>>

\* lv2_event_flag::save writes the pattern; the waiters that sleep enter their
\* queue again themselves, before anything else runs.
Reload ==
    /\ stop
    /\ \A t \in Threads : pc[t] \in {"halted", "again_w", "again_s", "again_c",
                                     "redo_w", "redo_s", "redo_c"}
    /\ stop' = FALSE
    /\ sq' = <<>>
    /\ pc' = [t \in Threads |-> CASE pc[t] \in {"again_w", "redo_w"} -> "redo_w"
                                  [] pc[t] \in {"again_s", "redo_s"} -> "redo_s"
                                  [] pc[t] \in {"again_c", "redo_c"} -> "redo_c"
                                  [] OTHER -> "user"]
    /\ st' = [t \in Threads |->
                IF pc[t] = "again_w" /\ st[t] = "sleep" THEN "sleep" ELSE "onproc"]
    /\ UNCHANGED <<pattern, mutex, exists, req, res, setVars, cancel>>

-----------------------------------------------------------------------------
Wait(t) ==
    \/ \E r \in Waits[t] \cup {req[t]} : WaitAtOnce(t, r) \/ WaitSleep(t, r)
    \/ WaitSignaled(t) \/ WaitStopped(t) \/ WaitTimeout(t) \/ WaitRescheduled(t) \/ WaitExpired(t)

Set(t) ==
    \/ \E bits \in Sets[t] : SetCall(t, bits)
    \/ SetLock(t) \/ SetApply(t)

Next ==
    \/ \E t \in Threads :
          \/ Wait(t) \/ Set(t) \/ Cancel(t) \/ Destroy(t) \/ Halt(t)
          \/ \E r \in Waits[t] : TryWait(t, r)
          \/ \E mask \in Clears[t] : Clear(t, mask)
    \/ Stop
    \/ Reload

Spec == Init /\ [][Next]_vars

-----------------------------------------------------------------------------
\* Properties

\* Nobody sleeps for bits that are there: whenever the mutex is free, the current
\* pattern, to which waits, clears and sets have contributed in any order, satisfies
\* no thread in the queue.  The early return of sys_event_flag_set when the bits are
\* already set, and its pass over the waiters for a value that may be out of date,
\* both rely on it; so do the sleepers that repeat their wait after a reload.
NoneOverlooked ==
    \A t \in Threads :
        \/ mutex = None /\ Queued(t)
        \/ pc[t] = "redo_w" /\ st[t] = "sleep"
        => ~Matches(pattern, req[t])

\* A wait that is over knows how it ended: a thread that sys_event_flag_set or
\* sys_event_flag_cancel unlinked is awake and finds CELL_OK or ECANCELED in
\* gpr[3], never ETIMEDOUT or the initial -1, and a thread still in the queue finds nothing yet,
\* although its timeout may be racing with either of them.
WaitersAnswered ==
    \A t \in Threads :
        mutex = None /\ pc[t] \in {"waiting", "resched", "expired"} =>
            IF Queued(t) THEN res[t] = "none"
            ELSE res[t] \in {"ok", "canceled"} /\ st[t] # "sleep"

=============================================================================
