---------------------------- MODULE MCGammaIndex ----------------------------
(* GammaIndex with two processes over as many asserter directories. *)
EXTENDS GammaIndex

CONSTANTS p1, p2

\* Each process has an asserter of its own.
OwnHomes == p1 :> 1 @@ p2 :> 2
=============================================================================
