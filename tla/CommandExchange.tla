--------------------------- MODULE CommandExchange ---------------------------
(***************************************************************************)
(* What a stream of the audio HAL promises its client, without threads,    *)
(* queues or event flags: a command is carried out once, its answer is     *)
(* about this command and about nothing it did not ask for or offer, and   *)
(* the next one begins without anything left of it.                        *)
(***************************************************************************)
EXTENDS Naturals

CONSTANTS
  Streams,
  Amounts   \* amounts of data that a command may be about

VARIABLES
  exchange,   \* per stream: its phase, the command under way, an amount of data: what the
              \* command asks for or offers, and after its answer what was transferred
  data        \* per stream: the data handed over and not yet taken

vars == <<exchange, data>>

At(phase, kind, amount) == [phase |-> phase, kind |-> kind, amount |-> amount]
Is(s, phase) == exchange[s].phase = phase

New == At("new", "ask", 0)
Idle == At("idle", "ask", 0)
Over == At("over", "ask", 0)

Init == exchange = [s \in Streams |-> New] /\ data = [s \in Streams |-> 0]

Moves(s, now, left) ==
  /\ exchange' = [exchange EXCEPT ![s] = now]
  /\ data' = [data EXCEPT ![s] = left]

Open(s) == Is(s, "new") /\ Moves(s, Idle, 0)

\* Data to be written are handed over with the command.
Ask(s) ==
  /\ Is(s, "idle")
  /\ \/ \E n \in Amounts : Moves(s, At("asked", "write", n), n)
     \/ \E n \in Amounts : Moves(s, At("asked", "read", n), 0)
     \/ Moves(s, At("asked", "ask", 0), 0)

Begin(s) == Is(s, "asked") /\ Moves(s, [exchange[s] EXCEPT !.phase = "working"], data[s])

\* No more is transferred than was offered or asked for. Only data that were read are left.
Answer(s) ==
  /\ Is(s, "working")
  /\ \E n \in 0 .. exchange[s].amount :
       Moves(s, At("answered", exchange[s].kind, n),
             IF exchange[s].kind = "read" THEN n ELSE 0)

\* The client takes the answer and the data.
Take(s) == Is(s, "answered") /\ Moves(s, Idle, 0)

\* A client closes its stream between two commands, or dies.
Close(s) == Is(s, "idle") /\ Moves(s, Over, 0)
Die ==
  \E S \in SUBSET Streams :
    /\ \A s \in S : ~Is(s, "new")
    /\ exchange' = [s \in Streams |-> IF s \in S THEN Over ELSE exchange[s]]
    /\ data' = [s \in Streams |-> IF s \in S THEN 0 ELSE data[s]]

Next ==
  \/ \E s \in Streams : Open(s) \/ Ask(s) \/ Begin(s) \/ Answer(s) \/ Take(s) \/ Close(s)
  \/ Die

Spec == Init /\ [][Next]_vars
=============================================================================
