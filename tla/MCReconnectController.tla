------------------------ MODULE MCReconnectController ------------------------
(* Instances of ReconnectController for TLC. *)
EXTENDS ReconnectController, TLC

\* Threads of a pool are interchangeable (safety runs only).
PoolSymmetry ==
  Permutations(Callers) \cup Permutations(Workers) \cup Permutations(Retriers)
=============================================================================
