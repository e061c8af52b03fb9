------------------------ MODULE ReconnectSingleFlight ------------------------
(***************************************************************************)
(* What ImsReconnectController promises, without threads, mailbox or       *)
(* retries: requests and invalidations are numbered, one flight at a time  *)
(* is open, and the attempts made in it are for ever newer numbers.        *)
(***************************************************************************)
EXTENDS Integers

VARIABLES
  latest,     \* number of requests and invalidations so far
  busy,       \* a flight is open
  attempted   \* number of the last request a connection was attempted for

vars == <<latest, busy, attempted>>

Init == latest = 0 /\ busy = FALSE /\ attempted = 0

Announce == latest' = latest + 1 /\ UNCHANGED <<busy, attempted>>

Open == ~busy /\ busy' = TRUE /\ UNCHANGED <<latest, attempted>>

Attempt ==
  /\ busy
  /\ attempted' \in (attempted + 1)..latest
  /\ UNCHANGED <<latest, busy>>

Close == busy /\ busy' = FALSE /\ UNCHANGED <<latest, attempted>>

Next == Announce \/ Open \/ Attempt \/ Close

Spec == Init /\ [][Next]_vars
=============================================================================
