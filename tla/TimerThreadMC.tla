--------------------------- MODULE TimerThreadMC ---------------------------
(***************************************************************************)
(* Instances of TimerThread for TLC.                                       *)
(***************************************************************************)
EXTENDS TimerThread, TLC

CONSTANTS t1, t2

\* A timer that is never precise next to one that may be.
MixedTypes == (t1 :> {"ONE_SHOT"}) @@ (t2 :> {"REPEATING_SLACK", "REPEATING_PRECISE"})

\* Timers come to fire early.
Early == {-1}
=============================================================================
