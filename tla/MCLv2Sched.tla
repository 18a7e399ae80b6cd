----------------------------- MODULE MCLv2Sched -----------------------------
(***************************************************************************)
(* Instances of Lv2Sched for TLC.                                          *)
(***************************************************************************)
EXTENDS Lv2Sched

CONSTANTS t1, t2

TwoThreads == {t1, t2}

TwoPrios == {1, 2}

\* t1 has the higher priority.
TwoPrio == (t1 :> 1) @@ (t2 :> 2)

AllFeatures == {"timeout", "announce", "priority", "savestate"}
AnnouncedAndLoaded == {"announce", "savestate"}

=============================================================================
