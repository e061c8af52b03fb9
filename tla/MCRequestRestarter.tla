-------------------------- MODULE MCRequestRestarter --------------------------
(* Instances of RequestRestarter for TLC. *)
EXTENDS RequestRestarter, TLC

\* Threads of a pool are interchangeable (safety run only).
PoolSymmetry == Permutations(Requesters) \cup Permutations(Restarters)
=============================================================================
