------------------------------- MODULE Lv2Lock -------------------------------
(***************************************************************************)
(* What sys_mutex and sys_cond promise to the threads that use them: a     *)
(* lock that one thread has at a time, at some depth if it is recursive,   *)
(* and a wait that gives up all levels and returns with the same number.   *)
(* Destroying, timing out, signalling and saving the state do not show.    *)
(***************************************************************************)
EXTENDS Naturals

CONSTANTS Threads, Recursive

VARIABLES depth,  \* how often each thread has locked the mutex
          held    \* during sys_cond_wait: the depth the thread had

lockVars == <<depth, held>>

Init ==
    /\ depth = [t \in Threads |-> 0]
    /\ held = [t \in Threads |-> 0]

OthersOut(t) == \A u \in Threads \ {t} : depth[u] = 0

Lock(t) ==
    /\ OthersOut(t)
    /\ depth[t] > 0 => Recursive
    /\ depth' = [depth EXCEPT ![t] = @ + 1]
    /\ UNCHANGED held

Unlock(t) ==
    /\ depth[t] > 0
    /\ depth' = [depth EXCEPT ![t] = @ - 1]
    /\ UNCHANGED held

Wait(t) ==
    /\ depth[t] > 0
    /\ held[t] = 0
    /\ depth' = [depth EXCEPT ![t] = 0]
    /\ held' = [held EXCEPT ![t] = depth[t]]

Return(t) ==
    /\ held[t] > 0
    /\ depth[t] = 0
    /\ OthersOut(t)
    /\ depth' = [depth EXCEPT ![t] = held[t]]
    /\ held' = [held EXCEPT ![t] = 0]

Next == \E t \in Threads : Lock(t) \/ Unlock(t) \/ Wait(t) \/ Return(t)

Spec == Init /\ [][Next]_lockVars

=============================================================================
