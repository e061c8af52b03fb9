---------------------------- MODULE MCIncomingCall ----------------------------
(* IncomingCall with two callers. *)
EXTENDS IncomingCall, TLC

Callers == Permutations(Calls)
=============================================================================
