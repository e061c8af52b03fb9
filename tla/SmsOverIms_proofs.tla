--------------------------- MODULE SmsOverIms_proofs ---------------------------
(***************************************************************************)
(* Theorems about SmsOverIms, for any messages, references and deliveries   *)
(* and any bound on them. A result is reported by whoever takes a message   *)
(* out of byCallId, so it is enough that a message stays out once it is out *)
(* (NoResultYet) and that an entry under a reference is one of byCallId     *)
(* (RefsPointToPending): an RP result finds a message with its reference.    *)
(***************************************************************************)
EXTENDS SmsOverIms, TLAPS

(* The tables agree. *)
RefsPointToPending ==
  \A r \in Refs : byRef[r] # Nobody => byRef[r] \in byCallId /\ ref[byRef[r]] = r

(* What is pending has no result; what has not been sent is unknown to all. *)
NoResultYet ==
  \A m \in Messages :
    /\ m \in byCallId => results[m] = << >> /\ sender[m] # "idle"
    /\ sender[m] = "idle" => results[m] = << >>
    /\ sender[m] # "done" => network[m] = "none"

(* A result is final, and a success is the network's word for a message with the reference. *)
AckedFor(m) == \E n \in Messages : ref[n] = ref[m] /\ network[n] \in {"acked", "confirmed"}
ResultsFinal ==
  \A m \in Messages :
    /\ results[m] \in {<< >>, <<"failure">>, <<"success">>}
    /\ results[m] = <<"success">> => AckedFor(m)

(* A token belongs to one delivery, from the reader to the framework and the map. *)
TokensDrawn ==
  /\ \A d \in Deliveries : reading[d] # NoToken => reading[d] < nextToken
  /\ \A p \in inbox : p[1] < nextToken
  /\ \A t \in Tokens : headers[t] # Nobody => t < nextToken
TokensApart ==
  /\ \A p, q \in inbox : p[1] = q[1] => p = q
  /\ \A d, e \in Deliveries : reading[d] # NoToken /\ reading[d] = reading[e] => d = e
  /\ \A d \in Deliveries, p \in inbox : reading[d] # p[1]
HeadersMatch ==
  /\ \A p \in inbox : headers[p[1]] \in {Nobody, p[2]}
  /\ \A d \in Deliveries : reading[d] # NoToken => headers[reading[d]] = Nobody

Pending == RefsPointToPending /\ NoResultYet /\ ResultsFinal
Receiving == TokensDrawn /\ TokensApart /\ HeadersMatch /\ AckMeansAccepted
Inv == TypeOK /\ Pending /\ Receiving

LEMMA InitInvariant == Init => Inv
<1> SUFFICES ASSUME Init PROVE Inv
  OBVIOUS
<1> USE InputsAssumption, RefsAssumption, NobodyAssumption DEF Init
<1>1. TypeOK
  <2>1. (CHOOSE r \in Refs : TRUE) \in Refs
    OBVIOUS
  <2>2. ref \in [Messages -> Refs]
    BY <2>1
  <2>3. results \in [Messages -> Seq({"success", "failure"})]
    OBVIOUS
  <2>4. reading \in [Deliveries -> Tokens \cup {NoToken}]
    BY DEF NoToken
  <2>5. inputs \in 0 .. MaxInputs /\ nextToken \in 0 .. inputs
    OBVIOUS
  <2> QED BY <2>2, <2>3, <2>4, <2>5 DEF TypeOK
<1>2. Pending
  BY DEF Pending, RefsPointToPending, NoResultYet, ResultsFinal
<1>3. Receiving
  BY DEF Receiving, TokensDrawn, TokensApart, HeadersMatch, AckMeansAccepted, Tokens, NoToken
<1> QED BY <1>1, <1>2, <1>3 DEF Inv

(* The actions that leave the incoming side alone, and those that leave the outgoing side. *)
Outgoing ==
  \/ \E m \in Messages :
       \/ Bypass(m) \/ SendThrows(m) \/ (\E r \in Refs : RememberPending(m, r))
       \/ Sender(m) \/ TimeOut(m)
       \/ MessageAccepted(m) \/ MessageRefused(m) \/ NetworkForgets(m)
       \/ \E verdict \in {"acked", "refused"}, named \in BOOLEAN : RpResult(m, verdict, named)
  \/ CoolDown \/ DropCallbacks \/ Reconnect
Incoming ==
  \E d \in Deliveries :
    \/ TakeToken(d) \/ Deliver(d)
    \/ \E t \in Tokens, ok \in BOOLEAN : Acknowledge(t, d, ok)

LEMMA NextSplits == [Next]_vars => Outgoing \/ Incoming \/ ClearState \/ UNCHANGED vars
  BY DEF Next, Outgoing, Incoming

LEMMA Frames ==
  /\ Outgoing => UNCHANGED incoming
  /\ Incoming => UNCHANGED <<tables, sending, outcome, link>>
<1>1. Outgoing => UNCHANGED incoming
  BY DEF Outgoing, Sender, Bypass, SendThrows, WriteThrows, RememberPending, SetCallback, Write, WriteFails, TimeOut,
         CoolDown, MessageAccepted, MessageRefused, RpResult, NetworkForgets, DropCallbacks,
         Reconnect
<1>2. Incoming => UNCHANGED <<tables, sending, outcome, link>>
  BY DEF Incoming, TakeToken, Deliver, Acknowledge
<1> QED BY <1>1, <1>2

LEMMA ReportType ==
  ASSUME TypeOK, NEW m \in Messages, NEW result \in {"success", "failure"}, Report(m, result)
  PROVE  results' \in [Messages -> Seq({"success", "failure"})]
<1>1. Append(results[m], result) \in Seq({"success", "failure"})
  BY DEF TypeOK
<1> QED BY <1>1 DEF TypeOK, Report

LEMMA FailPendingType ==
  ASSUME TypeOK, NEW m \in Messages, FailPending(m)
  PROVE  /\ byCallId' \subseteq Messages /\ byRef' \in [Refs -> Messages \cup {Nobody}]
         /\ results' \in [Messages -> Seq({"success", "failure"})]
<1>1. CASE m \in byCallId
  BY <1>1, ReportType DEF FailPending, Remove, TypeOK
<1>2. CASE m \notin byCallId
  BY <1>2 DEF FailPending, TypeOK, tables
<1> QED BY <1>1, <1>2

LEMMA OutgoingType == TypeOK /\ Outgoing => TypeOK'
<1> SUFFICES ASSUME TypeOK, Outgoing PROVE TypeOK'
  OBVIOUS
<1>0. UNCHANGED incoming
  BY Frames
<1> USE InputsAssumption
<1>1. ASSUME inputs' \in 0 .. MaxInputs, inputs' >= inputs,
             byCallId' \subseteq Messages, byRef' \in [Refs -> Messages \cup {Nobody}],
             results' \in [Messages -> Seq({"success", "failure"})],
             ref' \in [Messages -> Refs], UNCHANGED <<bypass, link, forgotten>>,
             sender' \in [Messages -> {"idle", "remembered", "listening", "done"}],
             timers' \subseteq Messages, callbacks' \subseteq Messages,
             network' \in [Messages -> {"none", "held", "acked", "confirmed", "refused", "gone"}]
      PROVE TypeOK'
  BY <1>0, <1>1 DEF TypeOK, incoming
<1>2. ASSUME NEW m \in Messages, Bypass(m) PROVE TypeOK'
  BY <1>2, <1>1, ReportType DEF Bypass, Input, TypeOK, tables, incoming
<1>3. ASSUME NEW m \in Messages, NEW r \in Refs, RememberPending(m, r) PROVE TypeOK'
  BY <1>3, <1>1 DEF RememberPending, Input, TypeOK, outcome
<1>4. ASSUME NEW m \in Messages,
             SendThrows(m) \/ SetCallback(m) \/ Write(m) \/ WriteThrows(m) \/ NetworkForgets(m)
      PROVE TypeOK'
  <2>1. CASE SetCallback(m)
    BY <2>1, <1>1 DEF SetCallback, TypeOK, tables, outcome
  <2>2. CASE Write(m)
    <3>1. network' \in [Messages -> {"none", "held", "acked", "confirmed", "refused", "gone"}]
      BY <2>2 DEF Write, TypeOK
    <3> QED BY <2>2, <3>1, <1>1 DEF Write, TypeOK, tables, outcome
  <2>3. CASE NetworkForgets(m)
    BY <2>3, <1>1 DEF NetworkForgets, TypeOK, tables, outcome
  <2>4. CASE SendThrows(m)
    BY <2>4, <1>1 DEF SendThrows, Input, TypeOK, tables, outcome
  <2>5. CASE WriteThrows(m)
    BY <2>5, <1>1 DEF WriteThrows, TypeOK, tables, outcome
  <2> QED BY <1>4, <2>1, <2>2, <2>3, <2>4, <2>5
<1>5. ASSUME NEW m \in Messages, WriteFails(m) \/ TimeOut(m) PROVE TypeOK'
  <2>1. CASE WriteFails(m)
    BY <2>1, <1>1, FailPendingType DEF WriteFails, TypeOK
  <2>2. CASE TimeOut(m)
    BY <2>2, <1>1, FailPendingType DEF TimeOut, TypeOK
  <2> QED BY <1>5, <2>1, <2>2
<1>6. ASSUME NEW m \in Messages, MessageAccepted(m) PROVE TypeOK'
  BY <1>6, <1>1 DEF MessageAccepted, TypeOK, tables, outcome
<1>7. ASSUME NEW m \in Messages, MessageRefused(m) PROVE TypeOK'
  <2>1. bypass' \in BOOLEAN
    BY <1>7 DEF MessageRefused, TypeOK
  <2> QED BY <1>7, <1>0, <2>1, FailPendingType DEF MessageRefused, TypeOK, incoming
<1>8. ASSUME NEW m \in Messages, NEW verdict \in {"acked", "refused"}, NEW named \in BOOLEAN,
             RpResult(m, verdict, named)
      PROVE TypeOK'
  <2> DEFINE p == Answered(m, named)
  <2>1. p \in Messages \cup {Nobody}
    BY DEF Answered, TypeOK
  <2>2. CASE p = Nobody
    BY <1>8, <1>1, <2>2 DEF RpResult, TypeOK, tables
  <2>3. CASE p # Nobody
    <3>1. PICK result \in {"success", "failure"} : Remove(p) /\ Report(p, result)
      BY <1>8, <2>3 DEF RpResult
    <3> QED BY <1>8, <1>1, <2>1, <2>3, <3>1, ReportType DEF RpResult, Remove, TypeOK
  <2> QED BY <2>2, <2>3
<1>9. ASSUME CoolDown \/ DropCallbacks \/ Reconnect PROVE TypeOK'
  BY <1>9, <1>0 DEF CoolDown, DropCallbacks, Reconnect, TypeOK, tables, outcome, sending, incoming
<1> QED BY <1>2, <1>3, <1>4, <1>5, <1>6, <1>7, <1>8, <1>9 DEF Outgoing, Sender

LEMMA TypeOKStep == TypeOK /\ [Next]_vars => TypeOK'
<1> SUFFICES ASSUME TypeOK, [Next]_vars PROVE TypeOK'
  OBVIOUS
<1> USE InputsAssumption
<1>1. CASE Outgoing
  BY <1>1, OutgoingType
<1>2. CASE Incoming
  <2>1. UNCHANGED <<tables, sending, outcome, link>>
    BY <1>2, Frames
  <2>2. ASSUME NEW d \in Deliveries, TakeToken(d) PROVE TypeOK'
    <3>1. nextToken \in Tokens
      BY <2>2 DEF TakeToken, Input, TypeOK, Tokens
    <3>2. nextToken' \in 0 .. inputs' /\ inputs' \in 0 .. MaxInputs
      BY <2>2 DEF TakeToken, Input, TypeOK
    <3>3. reading' \in [Deliveries -> Tokens \cup {NoToken}]
      BY <2>2, <3>1 DEF TakeToken, TypeOK
    <3> QED BY <2>1, <2>2, <3>2, <3>3 DEF TakeToken, TypeOK, tables, sending, outcome
  <2>3. ASSUME NEW d \in Deliveries, Deliver(d) PROVE TypeOK'
    <3>1. reading[d] \in Tokens
      BY <2>3 DEF Deliver, TypeOK
    <3>2. headers' \in [Tokens -> Deliveries \cup {Nobody}] /\ inbox' \subseteq Tokens \X Deliveries
      BY <2>3, <3>1 DEF Deliver, TypeOK
    <3>3. reading' \in [Deliveries -> Tokens \cup {NoToken}]
      BY <2>3 DEF Deliver, TypeOK
    <3> QED BY <2>1, <2>3, <3>2, <3>3 DEF Deliver, TypeOK, tables, sending, outcome
  <2>4. ASSUME NEW d \in Deliveries, NEW t \in Tokens, NEW ok \in BOOLEAN, Acknowledge(t, d, ok)
        PROVE TypeOK'
    <3>1. acked' \subseteq Deliveries /\ accepted' \subseteq Deliveries
      BY <2>4 DEF Acknowledge, TypeOK
    <3>2. headers' \in [Tokens -> Deliveries \cup {Nobody}] /\ inbox' \subseteq Tokens \X Deliveries
      BY <2>4 DEF Acknowledge, TypeOK
    <3> QED BY <2>1, <2>4, <3>1, <3>2 DEF Acknowledge, TypeOK, tables, sending, outcome
  <2> QED BY <1>2, <2>2, <2>3, <2>4 DEF Incoming
<1>3. CASE ClearState
  BY <1>3 DEF ClearState, TypeOK, sending
<1>4. CASE UNCHANGED vars
  BY <1>4 DEF vars, TypeOK, tables, sending, outcome, incoming
<1> QED BY <1>1, <1>2, <1>3, <1>4, NextSplits

-----------------------------------------------------------------------------
(* The outgoing side *)

\* Nothing happens to the results and the sending of other messages.
Alone(m) ==
  \A n \in Messages \ {m} : results'[n] = results[n] /\ sender'[n] = sender[n]

\* What the network has acknowledged stays so, and it knows only what was written.
NetworkGoesOn ==
  /\ ref' = ref
  /\ \A n \in Messages :
       /\ network[n] \in {"acked", "confirmed"} => network'[n] \in {"acked", "confirmed"}
       /\ sender'[n] # "done" => network'[n] = "none"

LEMMA AckedForStays ==
  ASSUME NetworkGoesOn, NEW m \in Messages, AckedFor(m)
  PROVE  AckedFor(m)'
  BY DEF NetworkGoesOn, AckedFor

\* A message that is out of the tables, with a result or without.
LEMMA OutOfTables ==
  ASSUME TypeOK, Pending, NetworkGoesOn, NEW m \in Messages, byCallId' = byCallId \ {m},
         \A r \in Refs : byRef'[r] # Nobody => byRef'[r] = byRef[r] /\ byRef[r] # m,
         Alone(m), sender'[m] = "idle" => results'[m] = << >>,
         results'[m] \in {<< >>, <<"failure">>, <<"success">>},
         results'[m] = <<"success">> => AckedFor(m)'
  PROVE  Pending'
<1>1. RefsPointToPending'
  BY DEF Pending, RefsPointToPending, NetworkGoesOn
<1>2. NoResultYet'
  BY DEF Pending, NoResultYet, Alone, NetworkGoesOn
<1>3. ResultsFinal'
  BY AckedForStays DEF Pending, ResultsFinal, Alone
<1> QED BY <1>1, <1>2, <1>3 DEF Pending

\* A message that stays where it is, in the tables or out of them.
LEMMA StaysInTables ==
  ASSUME TypeOK, Pending, NetworkGoesOn, NEW m \in Messages, UNCHANGED <<tables, results>>,
         Alone(m), sender[m] # "idle", sender'[m] # "idle"
  PROVE  Pending'
<1> USE DEF tables
<1>1. RefsPointToPending'
  BY DEF Pending, RefsPointToPending, NetworkGoesOn
<1>2. NoResultYet'
  BY DEF Pending, NoResultYet, Alone, NetworkGoesOn
<1>3. ResultsFinal'
  BY AckedForStays DEF Pending, ResultsFinal, Alone
<1> QED BY <1>1, <1>2, <1>3 DEF Pending

\* failPendingOutgoingSms..., whether it finds the message or not.
LEMMA FailPendingEffect ==
  ASSUME TypeOK, Pending, NEW m \in Messages, FailPending(m)
  PROVE  /\ byCallId' = byCallId \ {m}
         /\ \A r \in Refs : byRef'[r] # Nobody => byRef'[r] = byRef[r] /\ byRef[r] # m
         /\ \A n \in Messages \ {m} : results'[n] = results[n]
         /\ results'[m] \in {<< >>, <<"failure">>, <<"success">>}
         /\ results'[m] = <<"success">> => results[m] = <<"success">>
         /\ sender[m] = "idle" => results'[m] = results[m]
<1>1. CASE m \in byCallId
  <2>1. results[m] = << >> /\ sender[m] # "idle"
    BY <1>1 DEF Pending, NoResultYet
  <2>2. results' = [results EXCEPT ![m] = <<"failure">>]
    BY <1>1, <2>1 DEF FailPending, Report, TypeOK
  <2>3. results'[m] = <<"failure">> /\ <<"failure">> # <<"success">>
    BY <2>2 DEF TypeOK
  <2>4. Remove(m)
    BY <1>1 DEF FailPending
  <2>5. \A r \in Refs : byRef'[r] # Nobody => byRef'[r] = byRef[r] /\ byRef[r] # m
    BY <2>4 DEF Remove, TypeOK, Pending, RefsPointToPending
  <2>6. \A n \in Messages \ {m} : results'[n] = results[n]
    BY <2>2 DEF TypeOK
  <2> QED BY <2>1, <2>3, <2>4, <2>5, <2>6 DEF Remove
<1>2. CASE m \notin byCallId
  BY <1>2 DEF FailPending, tables, Pending, RefsPointToPending, ResultsFinal
<1> QED BY <1>1, <1>2

\* Whoever fails a message that has been sent, if it is still pending.
LEMMA FailPendingPending ==
  ASSUME TypeOK, Pending, NEW m \in Messages, FailPending(m), NetworkGoesOn,
         \A n \in Messages \ {m} : sender'[n] = sender[n], sender'[m] = "idle" => sender[m] = "idle"
  PROVE  Pending'
<1>1. Alone(m)
  BY FailPendingEffect DEF Alone
<1>2. results'[m] = <<"success">> => AckedFor(m)'
  BY FailPendingEffect, AckedForStays DEF Pending, ResultsFinal
<1>3. sender'[m] = "idle" => results'[m] = << >>
  BY FailPendingEffect DEF Pending, NoResultYet
<1> QED BY <1>1, <1>2, <1>3, FailPendingEffect, OutOfTables

\* sendSms that gives up before the message is remembered, with a failure or without.
LEMMA UnsentPending ==
  ASSUME TypeOK, Pending, NEW m \in Messages, Bypass(m) \/ SendThrows(m)
  PROVE  Pending'
<1>1. sender[m] = "idle" /\ m \notin byCallId /\ results[m] = << >> /\ network[m] = "none"
  BY DEF Bypass, SendThrows, Pending, NoResultYet
<1>2. results' = [results EXCEPT ![m] = <<"failure">>] \/ results' = results
  BY <1>1 DEF Bypass, SendThrows, Report, TypeOK, outcome
<1>3. results'[m] \in {<< >>, <<"failure">>} /\ <<"failure">> # <<"success">>
  BY <1>1, <1>2 DEF TypeOK
<1>4. UNCHANGED <<tables, ref, network>> /\ sender' = [sender EXCEPT ![m] = "done"]
  BY DEF Bypass, SendThrows
<1>5. sender'[m] = "done" /\ Alone(m)
  BY <1>2, <1>4 DEF TypeOK, Alone
<1>6. NetworkGoesOn
  BY <1>4, <1>5 DEF NetworkGoesOn, Alone, Pending, NoResultYet
<1>7. \A r \in Refs : byRef'[r] # Nobody => byRef'[r] = byRef[r] /\ byRef[r] # m
  BY <1>1, <1>4 DEF tables, Pending, RefsPointToPending
<1> QED BY <1>1, <1>3, <1>4, <1>5, <1>6, <1>7, OutOfTables DEF tables

LEMMA RememberPendingPending ==
  ASSUME TypeOK, Pending, NEW m \in Messages, NEW r \in Refs, RememberPending(m, r)
  PROVE  Pending'
<1>1. sender[m] = "idle" /\ m \notin byCallId /\ results[m] = << >> /\ network[m] = "none"
  BY DEF RememberPending, Pending, NoResultYet
<1>2. /\ sender'[m] = "remembered" /\ ref'[m] = r
      /\ \A n \in Messages \ {m} : sender'[n] = sender[n] /\ ref'[n] = ref[n]
      /\ UNCHANGED <<network, results>>
  BY DEF RememberPending, TypeOK, outcome
<1>3. byCallId' = byCallId \cup {m} /\ byRef' = [byRef EXCEPT ![r] = m]
  BY DEF RememberPending
<1>4. RefsPointToPending'
  BY <1>1, <1>2, <1>3 DEF Pending, RefsPointToPending, TypeOK
<1>5. NoResultYet'
  BY <1>1, <1>2, <1>3 DEF Pending, NoResultYet
<1>6. ResultsFinal'
  BY <1>1, <1>2 DEF Pending, ResultsFinal, AckedFor
<1> QED BY <1>4, <1>5, <1>6 DEF Pending

LEMMA SenderPending ==
  ASSUME TypeOK, Pending, NEW m \in Messages, Sender(m)
  PROVE  Pending'
<1>1. CASE SetCallback(m)
  <2>1. UNCHANGED <<tables, ref, results, network>> /\ sender' = [sender EXCEPT ![m] = "listening"]
    BY <1>1 DEF SetCallback, outcome
  <2>2. sender[m] = "remembered" /\ sender'[m] = "listening"
    BY <1>1, <2>1 DEF SetCallback, TypeOK
  <2>3. Alone(m)
    BY <2>1 DEF Alone, TypeOK
  <2>4. NetworkGoesOn
    BY <2>1, <2>2, <2>3 DEF NetworkGoesOn, Alone, Pending, NoResultYet
  <2> QED BY <2>1, <2>2, <2>3, <2>4, StaysInTables
<1>2. CASE Write(m) \/ WriteThrows(m)
  <2>1. UNCHANGED <<tables, ref, results>> /\ sender' = [sender EXCEPT ![m] = "done"]
    BY <1>2 DEF Write, WriteThrows, outcome
  <2>2. sender[m] \in {"remembered", "listening"} /\ sender'[m] = "done"
    BY <1>2, <2>1 DEF Write, WriteThrows, TypeOK
  <2>3. Alone(m)
    BY <2>1 DEF Alone, TypeOK
  <2>4. network[m] = "none" /\ \A n \in Messages \ {m} : network'[n] = network[n]
    BY <1>2, <2>2 DEF Write, WriteThrows, TypeOK, Pending, NoResultYet
  <2>5. NetworkGoesOn
    BY <2>1, <2>2, <2>3, <2>4 DEF NetworkGoesOn, Alone, Pending, NoResultYet
  <2> QED BY <2>1, <2>2, <2>3, <2>5, StaysInTables
<1>3. CASE WriteFails(m)
  <2>1. /\ ref' = ref /\ network' = network /\ sender' = [sender EXCEPT ![m] = "done"]
        /\ FailPending(m)
    BY <1>3 DEF WriteFails
  <2>2. sender'[m] = "done" /\ \A n \in Messages \ {m} : sender'[n] = sender[n]
    BY <2>1 DEF TypeOK
  <2>3. NetworkGoesOn
    BY <2>1, <2>2 DEF NetworkGoesOn, Pending, NoResultYet
  <2> QED BY <2>1, <2>2, <2>3, FailPendingPending
<1> QED BY <1>1, <1>2, <1>3 DEF Sender

LEMMA TimeOutPending ==
  ASSUME TypeOK, Pending, NEW m \in Messages, TimeOut(m)
  PROVE  Pending'
<1>1. UNCHANGED <<ref, sender, network>> /\ FailPending(m)
  BY DEF TimeOut
<1>2. NetworkGoesOn
  BY <1>1 DEF NetworkGoesOn, Pending, NoResultYet
<1> QED BY <1>1, <1>2, FailPendingPending

LEMMA NetworkPending ==
  ASSUME TypeOK, Pending, NEW m \in Messages,
         MessageAccepted(m) \/ MessageRefused(m) \/ NetworkForgets(m)
  PROVE  Pending'
<1>1. network[m] # "none" /\ sender[m] = "done"
  BY DEF MessageAccepted, MessageRefused, NetworkForgets, Pending, NoResultYet
<1>2. CASE MessageAccepted(m)
  <2>1. UNCHANGED <<tables, ref, sender, network, results>>
    BY <1>2 DEF MessageAccepted, outcome
  <2>2. NetworkGoesOn
    BY <2>1 DEF NetworkGoesOn, Pending, NoResultYet
  <2> QED BY <1>1, <2>1, <2>2, StaysInTables DEF Alone, tables
<1>3. CASE MessageRefused(m)
  <2>1. /\ UNCHANGED <<ref, sender>> /\ FailPending(m) /\ network[m] = "held"
        /\ network' = [network EXCEPT ![m] = "gone"]
    BY <1>3 DEF MessageRefused
  <2>2. \A n \in Messages \ {m} : network'[n] = network[n]
    BY <2>1 DEF TypeOK
  <2>3. NetworkGoesOn
    BY <1>1, <2>1, <2>2 DEF NetworkGoesOn, Pending, NoResultYet
  <2> QED BY <2>1, <2>3, FailPendingPending
<1>4. CASE NetworkForgets(m)
  <2>1. /\ UNCHANGED <<tables, ref, sender, results>>
        /\ network[m] \in {"held", "acked", "refused"}
        /\ network' = [network EXCEPT ![m] = IF @ = "acked" THEN "confirmed" ELSE "gone"]
    BY <1>4 DEF NetworkForgets, outcome
  <2>2. /\ \A n \in Messages \ {m} : network'[n] = network[n]
        /\ network[m] = "acked" => network'[m] = "confirmed"
    BY <2>1 DEF TypeOK
  <2>3. NetworkGoesOn
    BY <1>1, <2>1, <2>2 DEF NetworkGoesOn, Pending, NoResultYet
  <2> QED BY <1>1, <2>1, <2>3, StaysInTables DEF Alone
<1> QED BY <1>2, <1>3, <1>4

\* An RP result completes a pending message with the reference of the one it is about.
LEMMA AnswerHasReference ==
  ASSUME TypeOK, Pending, NEW m \in Messages, NEW named, Answered(m, named) # Nobody
  PROVE  Answered(m, named) \in byCallId /\ ref[Answered(m, named)] = ref[m]
<1>1. CASE named /\ m \in byCallId
  BY <1>1 DEF Answered
<1>2. CASE ~(named /\ m \in byCallId)
  BY <1>2 DEF Answered, Pending, RefsPointToPending, TypeOK
<1> QED BY <1>1, <1>2

LEMMA RpResultPending ==
  ASSUME TypeOK, Pending, NEW m \in Messages, NEW verdict \in {"acked", "refused"},
         NEW named \in BOOLEAN, RpResult(m, verdict, named)
  PROVE  Pending'
<1>1. network[m] \in {"held", verdict} /\ sender[m] = "done"
  BY DEF RpResult, Pending, NoResultYet
<1>2. UNCHANGED <<ref, sender>> /\ network' = [network EXCEPT ![m] = verdict]
  BY DEF RpResult
<1>3. /\ network'[m] = verdict /\ (network[m] \in {"acked", "confirmed"} => verdict = "acked")
      /\ \A n \in Messages \ {m} : network'[n] = network[n]
  BY <1>1, <1>2 DEF TypeOK
<1>4. NetworkGoesOn
  BY <1>1, <1>2, <1>3 DEF NetworkGoesOn, Pending, NoResultYet
<1>5. CASE Answered(m, named) = Nobody
  <2>1. UNCHANGED <<tables, results>>
    BY <1>5 DEF RpResult
  <2> QED BY <1>1, <1>2, <1>4, <2>1, StaysInTables DEF Alone
<1>6. CASE Answered(m, named) # Nobody
  <2>1. PICK p \in byCallId : p = Answered(m, named) /\ p \in Messages /\ ref[p] = ref[m]
    BY <1>6, AnswerHasReference DEF TypeOK
  <2>2. PICK result \in {"success", "failure"} :
          Remove(p) /\ Report(p, result) /\ (result = "success" => verdict = "acked")
    BY <1>6, <2>1 DEF RpResult
  <2>3. results[p] = << >> /\ sender[p] # "idle"
    BY <2>1 DEF Pending, NoResultYet
  <2>4. results' = [results EXCEPT ![p] = <<result>>]
    <3>1. Append(<< >>, result) = <<result>>
      OBVIOUS
    <3> QED BY <2>1, <2>2, <2>3, <3>1 DEF Report, TypeOK
  <2>5. results'[p] = <<result>> /\ <<"failure">> # <<"success">>
    BY <2>1, <2>4 DEF TypeOK
  <2>6. Alone(p)
    BY <1>2, <2>1, <2>4 DEF Alone, TypeOK
  <2>7. /\ byCallId' = byCallId \ {p}
        /\ \A r \in Refs : byRef'[r] # Nobody => byRef'[r] = byRef[r] /\ byRef[r] # p
    BY <2>1, <2>2 DEF Remove, TypeOK, Pending, RefsPointToPending
  <2>8. results'[p] = <<"success">> => AckedFor(p)'
    <3>1. results'[p] = <<"success">> => verdict = "acked"
      <4>1. result = "failure" => results'[p] = <<"failure">>
        BY <2>5
      <4> QED BY <2>2, <2>5, <4>1
    <3>2. ref'[m] = ref'[p] /\ (verdict = "acked" => network'[m] = "acked")
      BY <1>2, <1>3, <2>1
    <3> QED BY <3>1, <3>2 DEF AckedFor
  <2>9. sender'[p] # "idle"
    BY <1>2, <2>3
  <2> QED BY <1>4, <2>1, <2>5, <2>6, <2>7, <2>8, <2>9, OutOfTables
<1> QED BY <1>5, <1>6

LEMMA OutgoingPending == TypeOK /\ Pending /\ Outgoing => Pending'
<1> SUFFICES ASSUME TypeOK, Pending, Outgoing PROVE Pending'
  OBVIOUS
<1>1. CASE CoolDown \/ DropCallbacks \/ Reconnect
  <2>1. UNCHANGED <<tables, ref, sender, network, results>>
    BY <1>1 DEF CoolDown, DropCallbacks, Reconnect, outcome, sending
  <2> QED BY <2>1 DEF Pending, RefsPointToPending, NoResultYet, ResultsFinal, AckedFor,
                      tables
<1> QED BY <1>1, UnsentPending, RememberPendingPending, SenderPending, TimeOutPending, NetworkPending,
           RpResultPending DEF Outgoing

LEMMA PendingStep == TypeOK /\ Pending /\ [Next]_vars => Pending'
<1> SUFFICES ASSUME TypeOK, Pending, [Next]_vars PROVE Pending'
  OBVIOUS
<1>1. CASE Outgoing
  BY <1>1, OutgoingPending
<1>2. CASE UNCHANGED <<tables, ref, sender, network, results>>
  BY <1>2 DEF Pending, RefsPointToPending, NoResultYet, ResultsFinal, AckedFor, tables
<1>3. CASE Incoming
  BY <1>2, <1>3, Frames DEF sending, outcome
<1>4. CASE ClearState
  <2>1. /\ UNCHANGED <<ref, sender, network, results>>
        /\ byCallId' = {} /\ byRef' = [r \in Refs |-> Nobody]
    BY <1>4 DEF ClearState, sending
  <2>2. RefsPointToPending' /\ NoResultYet'
    BY <2>1 DEF Pending, RefsPointToPending, NoResultYet
  <2>3. ResultsFinal'
    BY <2>1 DEF Pending, ResultsFinal, AckedFor
  <2> QED BY <2>2, <2>3 DEF Pending
<1>5. CASE UNCHANGED vars
  BY <1>2, <1>5 DEF vars, sending, outcome
<1> QED BY <1>1, <1>3, <1>4, <1>5, NextSplits

-----------------------------------------------------------------------------
(* The incoming side *)

LEMMA NoTokenIsNone == NoToken \notin Tokens
  BY InputsAssumption DEF NoToken, Tokens

LEMMA TakeTokenReceiving ==
  ASSUME TypeOK, Receiving, NEW d \in Deliveries, TakeToken(d)
  PROVE  Receiving'
<1> USE InputsAssumption
<1>1. /\ UNCHANGED <<headers, inbox, accepted, acked>>
      /\ reading[d] = NoToken /\ nextToken \in Tokens
      /\ reading' = [reading EXCEPT ![d] = nextToken] /\ nextToken' = nextToken + 1
  BY DEF TakeToken, Input, TypeOK, Tokens
<1>2. /\ reading'[d] = nextToken
      /\ \A e \in Deliveries \ {d} : reading'[e] = reading[e]
      /\ \A e \in Deliveries : reading[e] \in Nat
      /\ \A p \in inbox : p[1] \in Nat
      /\ nextToken \in Nat /\ nextToken < NoToken
  BY <1>1 DEF TypeOK, Tokens, NoToken
<1>3. TokensDrawn'
  BY <1>1, <1>2 DEF Receiving, TokensDrawn, TypeOK, Tokens
<1>4. TokensApart'
  BY <1>1, <1>2 DEF Receiving, TokensDrawn, TokensApart
<1>5. headers[nextToken] = Nobody
  BY <1>1, <1>2 DEF Receiving, TokensDrawn
<1>6. HeadersMatch'
  BY <1>1, <1>2, <1>5 DEF Receiving, HeadersMatch
<1> QED BY <1>1, <1>3, <1>4, <1>6 DEF Receiving, AckMeansAccepted

LEMMA DeliverReceiving ==
  ASSUME TypeOK, Receiving, NEW d \in Deliveries, Deliver(d)
  PROVE  Receiving'
<1> DEFINE t == reading[d]
<1>1. /\ UNCHANGED <<nextToken, accepted, acked>>
      /\ t # NoToken /\ t \in Tokens /\ t < nextToken /\ headers[t] = Nobody
      /\ inbox' = inbox \cup {<<t, d>>}
      /\ reading' = [reading EXCEPT ![d] = NoToken]
  BY DEF Deliver, TypeOK, Receiving, TokensDrawn, HeadersMatch
<1>2. /\ headers'[t] \in {Nobody, d}
      /\ \A u \in Tokens \ {t} : headers'[u] = headers[u]
  BY <1>1 DEF Deliver, TypeOK
<1>3. /\ reading'[d] = NoToken
      /\ \A e \in Deliveries \ {d} : reading'[e] = reading[e]
      /\ \A e \in Deliveries : reading[e] \in Tokens \cup {NoToken}
  BY <1>1 DEF TypeOK
<1>4. TokensDrawn'
  BY <1>1, <1>2, <1>3 DEF Receiving, TokensDrawn
<1>5. TokensApart'
  <2>1. /\ \A p \in inbox : p[1] # t /\ p[1] \in Tokens
        /\ \A e \in Deliveries \ {d} : reading[e] # t
    BY <1>1 DEF Receiving, TokensApart, TypeOK
  <2>2. \A p, q \in inbox' : p[1] = q[1] => p = q
    BY <1>1, <2>1 DEF Receiving, TokensApart
  <2>3. \A e, f \in Deliveries : reading'[e] # NoToken /\ reading'[e] = reading'[f] => e = f
    BY <1>3 DEF Receiving, TokensApart
  <2>4. \A e \in Deliveries, p \in inbox' : reading'[e] # p[1]
    BY <1>1, <1>3, <2>1, NoTokenIsNone DEF Receiving, TokensApart
  <2> QED BY <2>2, <2>3, <2>4 DEF TokensApart
<1>6. HeadersMatch'
  BY <1>1, <1>2, <1>3 DEF Receiving, HeadersMatch, TokensApart, TypeOK
<1> QED BY <1>1, <1>4, <1>5, <1>6 DEF Receiving, AckMeansAccepted

LEMMA AcknowledgeReceiving ==
  ASSUME TypeOK, Receiving, NEW d \in Deliveries, NEW t \in Tokens, NEW ok \in BOOLEAN,
         Acknowledge(t, d, ok)
  PROVE  Receiving'
<1>1. /\ UNCHANGED <<nextToken, reading>> /\ <<t, d>> \in inbox
      /\ inbox' = inbox \ {<<t, d>>} /\ headers' = [headers EXCEPT ![t] = Nobody]
  BY DEF Acknowledge
<1>2. headers'[t] = Nobody /\ \A u \in Tokens \ {t} : headers'[u] = headers[u]
  BY <1>1 DEF TypeOK
<1>3. TokensDrawn' /\ TokensApart'
  BY <1>1, <1>2 DEF Receiving, TokensDrawn, TokensApart
<1>4. HeadersMatch'
  BY <1>1, <1>2 DEF Receiving, HeadersMatch, TypeOK
<1>5. headers[t] \in {Nobody, d}
  BY <1>1 DEF Receiving, HeadersMatch
<1>6. AckMeansAccepted'
  BY <1>5 DEF Acknowledge, Receiving, AckMeansAccepted
<1> QED BY <1>3, <1>4, <1>6 DEF Receiving

LEMMA ReceivingStep == TypeOK /\ Receiving /\ [Next]_vars => Receiving'
<1> SUFFICES ASSUME TypeOK, Receiving, [Next]_vars PROVE Receiving'
  OBVIOUS
<1>1. CASE UNCHANGED incoming
  BY <1>1 DEF incoming, Receiving, TokensDrawn, TokensApart, HeadersMatch, AckMeansAccepted
<1>2. CASE Outgoing
  BY <1>1, <1>2, Frames
<1>3. CASE Incoming
  BY <1>3, TakeTokenReceiving, DeliverReceiving, AcknowledgeReceiving DEF Incoming
<1>4. CASE ClearState
  <2>1. /\ UNCHANGED <<nextToken, reading, inbox, accepted, acked>>
        /\ headers' = [t \in Tokens |-> Nobody]
    BY <1>4 DEF ClearState
  <2>2. /\ \A p \in inbox : p[1] \in Tokens
        /\ \A d \in Deliveries : reading[d] # NoToken => reading[d] \in Tokens
    BY DEF TypeOK
  <2> QED BY <2>1, <2>2 DEF Receiving, TokensDrawn, TokensApart, HeadersMatch, AckMeansAccepted
<1>5. CASE UNCHANGED vars
  BY <1>1, <1>5 DEF vars
<1> QED BY <1>2, <1>3, <1>4, <1>5, NextSplits

-----------------------------------------------------------------------------
LEMMA Invariance == Spec => []Inv
<1>1. Inv /\ [Next]_vars => Inv'
  BY TypeOKStep, PendingStep, ReceivingStep DEF Inv
<1> QED BY InitInvariant, <1>1, PTL DEF Spec

(* Every reachable state is well typed: in particular the tables hold messages only, and    *)
(* a token never exceeds what has been handled (SipSmsHandler's fields).                     *)
THEOREM TypeCorrect == Spec => []TypeOK
<1>1. Inv => TypeOK
  BY DEF Inv
<1> QED BY <1>1, Invariance, PTL

(* For any messages in flight, whoever wins among RP result, refusal, failed write and        *)
(* timeout is the only one to report to PhhImsSms.                                            *)
THEOREM ResultOnce == Spec => []OneResult
<1>1. Inv => OneResult
  <2> SUFFICES ASSUME Inv, NEW m \in Messages PROVE Len(results[m]) <= 1
    BY DEF OneResult
  <2>1. CASE results[m] = << >>
    BY <2>1
  <2>2. CASE results[m] = <<"failure">>
    BY <2>2
  <2>3. CASE results[m] = <<"success">>
    BY <2>3
  <2> QED BY <2>1, <2>2, <2>3 DEF Inv, Pending, ResultsFinal
<1> QED BY <1>1, Invariance, PTL

(* For any references and messages, onSendSmsResultSuccess follows an RP-ACK for a message    *)
(* with that reference: for this message, if no other has it (removePendingOutgoingSms).      *)
THEOREM SuccessNeedsAck == Spec => []SuccessIsAcked
<1>1. Inv => SuccessIsAcked
  <2> SUFFICES ASSUME Inv, NEW m \in Messages, NEW i \in 1 .. Len(results[m]),
                      results[m][i] = "success"
               PROVE  AckedFor(m)
    BY DEF SuccessIsAcked, AckedFor
  <2>1. results[m] \in {<< >>, <<"failure">>, <<"success">>}
    BY DEF Inv, Pending, ResultsFinal
  <2>2. results[m] = <<"success">>
    BY <2>1
  <2> QED BY <2>2 DEF Inv, Pending, ResultsFinal
<1> QED BY <1>1, Invariance, PTL

(* For any deliveries and reconnects, sendSmsAck writes an RP-ACK only for a message that     *)
(* the framework has taken: a token is never drawn twice.                                     *)
THEOREM AckNeedsAcceptance == Spec => []AckMeansAccepted
<1>1. Inv => AckMeansAccepted
  BY DEF Inv, Receiving
<1> QED BY <1>1, Invariance, PTL
=============================================================================
