--------------------------- MODULE MCCondVariable ---------------------------
(* Three threads that use the mutex in every way and the condition         *)
(* variable: two wait while the third notifies.  The limits of the word    *)
(* are reached.                                                            *)
EXTENDS CondVariable, TLC

CONSTANTS t1, t2, t3

MCThreads == {t1, t2, t3}
Symmetry == Permutations(MCThreads)

=============================================================================
