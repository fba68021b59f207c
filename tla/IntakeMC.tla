------------------------------- MODULE IntakeMC -------------------------------
(* Constants for TLC: two complaints name the same wallet. *)
EXTENDS Intake, TLC

CONSTANTS c1, c2, a1

MCSuspect == (c1 :> a1) @@ (c2 :> a1)
=============================================================================
