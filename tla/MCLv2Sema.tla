----------------------------- MODULE MCLv2Sema ------------------------------
(***************************************************************************)
(* Instances of Lv2Sema for TLC.                                           *)
(***************************************************************************)
EXTENDS Lv2Sema, TLC

CONSTANTS t1, t2, t3

ThreeThreads == {t1, t2, t3}

\* t1 has the higher priority, t2 and t3 the same one.
ThreePrio == (t1 :> 1) @@ (t2 :> 2) @@ (t3 :> 2)

OneOrTwo == {1, 2}
WithTimeout == {0, 1}

=============================================================================
