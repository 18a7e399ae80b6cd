---------------------------- MODULE MCLv2RwLock -----------------------------
(***************************************************************************)
(* Instances of Lv2RwLock.                                                 *)
(***************************************************************************)
EXTENDS Lv2RwLock

CONSTANTS t1, t2, t3

MCThreads == {t1, t2, t3}

\* t3 is more important than t1 and t2.
MCPrio == [t \in Threads |-> IF t = t3 THEN 1 ELSE 2]

=============================================================================
