----------------------------- MODULE MCLv2Timer -----------------------------
(***************************************************************************)
(* Instances of Lv2Timer: u1 makes, connects and starts the timer, u2     *)
(* inquires and stops.                                                     *)
(***************************************************************************)
EXTENDS Lv2Timer, TLC

CONSTANTS a, u1, u2

MCCalls == (u1 :> {"create", "connect", "start", "disconnect", "destroy"})
           @@ (u2 :> {"information", "stop"})

\* A oneshot timer, a periodic one, one with a base time, and a bad period.
MCStarts == {<<2, 0>>, <<0, 2>>, <<1, 2>>, <<0, 1>>}

=============================================================================
