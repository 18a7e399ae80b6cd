---------------------------- MODULE CondVariable ----------------------------
(***************************************************************************)
(* cond_variable (Utilities/cond.h, cond.cpp) used with a shared_mutex:    *)
(* a word whose low bits count the waiters and whose high bits count the   *)
(* signals since there was no waiter.                                      *)
(*                                                                         *)
(* Its users hold the mutex when they test the condition `flag' that they  *)
(* wait for and when they change it; one that makes it true notifies, with *)
(* the mutex or after it has released it.                                  *)
(***************************************************************************)
EXTENDS SharedMutex

CONSTANTS c_waiters,   \* the largest number of waiters, c_waiter_mask = 2^13 - 1
          c_signals    \* the largest number of signals, 2^19 - 1

ASSUME CondVariableAssumption == c_waiters \in Nat \ {0} /\ c_signals \in Nat \ {0}

VARIABLES waiters, signals,  \* the two fields of cond_variable::m_value
          cpc,               \* what each thread is doing with the condition variable
          c_old,             \* _old of its wait
          relocks,           \* its wait locks the mutex again, as wait_unlock does not
          flag               \* the condition: "no", or how its last setter notifies
                             \* ("one" or "all")

cvars == <<waiters, signals, cpc, c_old, relocks, flag>>

CondTypeOK ==
    /\ SharedTypeOK
    /\ waiters \in 0..c_waiters
    /\ signals \in 0..c_signals
    /\ cpc \in [Threads -> {"out", "add", "wait", "parked", "cleanup", "relock",
                         "wake_one", "wake_all", "notify_one", "notify_all"}]
    /\ relocks \in [Threads -> BOOLEAN]
    /\ flag \in {"no", "one", "all"}

CondInit ==
    /\ Init
    /\ waiters = 0 /\ signals = 0
    /\ cpc = [t \in Threads |-> "out"]
    /\ c_old = [t \in Threads |-> <<0, 0>>]
    /\ relocks = [t \in Threads |-> TRUE]
    /\ flag = "no"

-----------------------------------------------------------------------------
CGoto(t, to) == cpc' = [cpc EXCEPT ![t] = to]

\* add_waiter, with the mutex.
AddWaiter(t) ==
    /\ cpc[t] = "out" /\ pc[t] = "w" /\ flag = "no"
    /\ waiters # c_waiters /\ signals # c_signals
    /\ waiters' = waiters + 1
    /\ c_old' = [c_old EXCEPT ![t] = <<waiters + 1, signals>>]
    /\ CGoto(t, "add")
    /\ UNCHANGED <<vars, signals, flag>>

\* wait: on overflow it returns at once.
Wait(t) ==
    /\ AddWaiter(t)
    /\ UNCHANGED relocks

\* wait_unlock: on overflow it only unlocks (Unlock).
WaitUnlock(t) ==
    /\ AddWaiter(t)
    /\ relocks' = [relocks EXCEPT ![t] = FALSE]

\* object.unlock() has returned.
Unlocked(t) ==
    /\ cpc[t] = "add" /\ pc[t] = "idle"
    /\ CGoto(t, "wait")
    /\ UNCHANGED <<vars, waiters, signals, c_old, relocks, flag>>

\* Mutant: it blocks without comparing the signals.
Block_Mutant(t) ==
    /\ cpc[t] = "wait"
    /\ CGoto(t, IF c_old[t][1] = waiters THEN "parked" ELSE "cleanup")
    /\ c_old' = [c_old EXCEPT ![t] = <<0, 0>>]
    /\ UNCHANGED <<vars, waiters, signals, relocks, flag>>

\* m_value.wait(_old): block if the word is still _old.
Block(t) ==
    /\ cpc[t] = "wait"
    /\ CGoto(t, IF c_old[t] = <<waiters, signals>> THEN "parked" ELSE "cleanup")
    /\ c_old' = [c_old EXCEPT ![t] = <<0, 0>>]
    /\ UNCHANGED <<vars, waiters, signals, relocks, flag>>

\* The timeout of m_value.wait.
TimedOut(t) ==
    /\ cpc[t] = "parked"
    /\ CGoto(t, "cleanup")
    /\ UNCHANGED <<vars, waiters, signals, c_old, relocks, flag>>

\* The end of imp_wait: the last waiter clears the signals.
Cleanup(t) ==
    /\ cpc[t] = "cleanup"
    /\ waiters' = waiters - 1
    /\ signals' = IF waiters = 1 THEN 0 ELSE signals
    /\ CGoto(t, IF relocks[t] THEN "relock" ELSE "out")
    /\ relocks' = [relocks EXCEPT ![t] = TRUE]
    /\ UNCHANGED <<vars, c_old, flag>>

\* object.lock() has returned.
Relocked(t) ==
    /\ cpc[t] = "relock" /\ pc[t] = "w"
    /\ CGoto(t, "out")
    /\ UNCHANGED <<vars, waiters, signals, c_old, relocks, flag>>

-----------------------------------------------------------------------------
\* A user makes the condition true, or false again.
SetFlag(t) ==
    /\ cpc[t] = "out" /\ pc[t] = "w"
    /\ \/ flag' = "no" /\ UNCHANGED cpc
       \/ flag' = "one" /\ CGoto(t, "wake_one")
       \/ flag' = "all" /\ CGoto(t, "wake_all")
    /\ UNCHANGED <<vars, waiters, signals, c_old, relocks>>

\* notify_one, notify_all, and imp_wake up to its notification: add a signal if there
\* is a waiter; the last signal that fits is for everyone.
Wake(t) ==
    /\ cpc[t] \in {"wake_one", "wake_all"}
    /\ IF waiters + signals = 0 \/ signals = c_signals
          THEN CGoto(t, "out") /\ UNCHANGED signals
          ELSE /\ signals' = signals + 1
               /\ CGoto(t, IF cpc[t] = "wake_all" \/ signals' = c_signals
                              THEN "notify_all" ELSE "notify_one")
    /\ UNCHANGED <<vars, waiters, c_old, relocks, flag>>

CondParked == {t \in Threads : cpc[t] = "parked"}

NotifyOne(t) ==
    /\ cpc[t] = "notify_one"
    /\ \/ \E u \in CondParked : cpc' = [cpc EXCEPT ![t] = "out", ![u] = "cleanup"]
       \/ CondParked = {} /\ CGoto(t, "out")
    /\ UNCHANGED <<vars, waiters, signals, c_old, relocks, flag>>

NotifyAll(t) ==
    /\ cpc[t] = "notify_all"
    /\ cpc' = [u \in Threads |-> CASE u = t -> "out"
                                 [] u \in CondParked -> "cleanup"
                                 [] OTHER -> cpc[u]]
    /\ UNCHANGED <<vars, waiters, signals, c_old, relocks, flag>>

-----------------------------------------------------------------------------
\* What a thread does with the mutex meanwhile.
GuardedMutexStep(t) ==
    \/ cpc[t] = "out" /\ MutexStep(t)
    \/ cpc[t] = "relock" /\ (Lock(t) \/ Take(t) \/ Park(t))
    \/ /\ cpc[t] \in {"add", "wake_one", "wake_all", "notify_one", "notify_all"}
       /\ Unlock(t) \/ Signal(t) \/ Notify(t)

CondStep(t) ==
    \/ Wait(t) \/ WaitUnlock(t) \/ Unlocked(t) \/ Block(t) \/ TimedOut(t) \/ Cleanup(t)
    \/ Relocked(t) \/ SetFlag(t) \/ Wake(t) \/ NotifyOne(t) \/ NotifyAll(t)

CondNext ==
    \/ \E t \in Threads : CondStep(t)
    \/ \E t \in Threads : GuardedMutexStep(t) /\ UNCHANGED cvars

CondSpec == CondInit /\ [][CondNext]_<<vars, cvars>>

-----------------------------------------------------------------------------
\* Properties

\* The word counts the threads in wait, and keeps no signal without one: a later
\* notify_one finds waiters exactly if there are some.
WaitersCounted ==
    /\ waiters = Cardinality({t \in Threads : cpc[t] \in {"add", "wait", "parked", "cleanup"}})
    /\ waiters = 0 => signals = 0

\* No notification is lost between add_waiter, the unlock and the wait, in the
\* reset of the signals by the last waiter or at the limit of the signals: when the
\* condition holds and nobody is about to notify all, nobody sleeps; and the word
\* counts who waits (WaitersCounted).
NotifyReachesAll ==
    /\ WaitersCounted
    /\ flag = "all" /\ (\A t \in Threads : cpc[t] \notin {"wake_all", "notify_all"})
         => CondParked = {}

=============================================================================
