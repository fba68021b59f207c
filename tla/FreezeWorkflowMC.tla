--------------------------- MODULE FreezeWorkflowMC ---------------------------
(* Constants for TLC: an investigator, two supervisors and two workers. *)
EXTENDS FreezeWorkflow, TLC

CONSTANTS inv, sup1, sup2, w1, w2, r1, r2

MCUsers == {inv, sup1, sup2}
MCRole == (inv :> "investigator") @@ (sup1 :> "supervisor") @@ (sup2 :> "admin")

\* Workers and requests are interchangeable, officers are not.
MCSymmetry == Permutations(Workers) \cup Permutations(Requests)
=============================================================================
