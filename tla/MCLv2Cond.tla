----------------------------- MODULE MCLv2Cond ------------------------------
(***************************************************************************)
(* Instances of Lv2Cond.                                                   *)
(***************************************************************************)
EXTENDS Lv2Cond

CONSTANTS t1, t2, t3

MCThreads == {t1, t2, t3}

\* t3 is more important than t1 and t2.
MCPrio == [t \in Threads |-> IF t = t3 THEN 1 ELSE 2]

\* Bound: t2 waits without a timeout.
Patient == arg[t2] = 0

=============================================================================
