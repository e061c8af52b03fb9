----------------------------- MODULE MCCallWaiting -----------------------------
(* Instance of CallWaiting for TLC: the calls that arrive are interchangeable. *)
EXTENDS CallWaiting, TLC

Arriving == Permutations(Calls \ {First})
=============================================================================
