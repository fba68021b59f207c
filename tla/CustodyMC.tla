------------------------------ MODULE CustodyMC ------------------------------
(* The two approvers and the two workers are interchangeable. *)
EXTENDS Custody, TLC

Symmetric == Permutations(Approvers) \cup Permutations(Workers)
=============================================================================
