--------------------------- MODULE MCLv2EventQueue ---------------------------
(***************************************************************************)
(* Instances of Lv2EventQueue.                                             *)
(***************************************************************************)
EXTENDS Lv2EventQueue, TLC

CONSTANTS r1, r2, s1, s2

\* r1 is more important than the senders, r2 less.
MCThreads == {r1, r2, s1, s2}

MCPrio == [t \in Threads |-> CASE t = r1 -> 1 [] t = r2 -> 3 [] OTHER -> 2]

\* The senders are interchangeable.
Twins == Permutations({s1, s2})

=============================================================================
