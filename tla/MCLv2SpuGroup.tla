--------------------------- MODULE MCLv2SpuGroup ---------------------------
EXTENDS Lv2SpuGroup, TLC

Symmetry == Permutations(Ppus)
=============================================================================
