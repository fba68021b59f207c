------------------------------- MODULE ServingMC -------------------------------
(* Constants for TLC: start-ups alone, sign-ins alone, traces alone. *)
EXTENDS Serving

MCClients == {{}, {"login"}, {"trace"}}
=============================================================================
