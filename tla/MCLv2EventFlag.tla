--------------------------- MODULE MCLv2EventFlag ---------------------------
(***************************************************************************)
(* Instances of Lv2EventFlag.                                              *)
(***************************************************************************)
EXTENDS Lv2EventFlag

CONSTANTS w1, w2, s1, s2, a, b

Request(bits, op, clear, timeout) ==
    [bits |-> bits, op |-> op, clear |-> clear, timeout |-> timeout]

\* Two threads wait in all modes, two others set, clear and cancel.
MCThreads == {w1, w2, s1, s2}

MCPrio == [t \in Threads |-> IF t = w2 THEN 1 ELSE 2]

MCWaits == [t \in Threads |->
    CASE t = w1 -> {Request({a, b}, "and", "bits", 0), Request({a, b}, "or", "bits", 0)}
      [] t = w2 -> {Request({a}, "and", "all", 0), Request({a}, "or", "none", 1)}
      [] OTHER -> {}]

MCSets == [t \in Threads |-> CASE t = s1 -> {{a}, {a, b}} [] t = s2 -> {{b}} [] OTHER -> {}]

MCClears == [t \in Threads |-> IF t = s2 THEN {{a}, {}} ELSE {}]

\* Bound: a savestate is not requested while a timed wait is in progress (the
\* README describes what can happen then).
UntimedStops ==
    stop => \A t \in Threads :
        pc[t] \in {"waiting", "resched", "expired", "again_w"} => req[t].timeout = 0

=============================================================================
