------------------------------- MODULE SmsOverIms -------------------------------
(***************************************************************************)
(* SMS over IMS: SipSmsHandler with the response callbacks of SipDispatcher,*)
(* the learned fallback of SipHandler.sendSms and the part of a reconnect   *)
(* that forgets all of it.                                                  *)
(*                                                                         *)
(* An outgoing message is sent on a binder thread; its result comes from    *)
(* whichever of the RP result, the refusal of the MESSAGE, the failed write *)
(* and the timer on the looper takes it out of the tables first. Each step  *)
(* of a thread is one critical section of smsLock, or one write. A message  *)
(* stands for its Call-ID. Texts, addresses and PDUs are left out.          *)
(***************************************************************************)
EXTENDS Naturals, Sequences

CONSTANTS
  Messages,    \* what the framework sends
  Refs,        \* RP message references
  Deliveries,  \* incoming RP-DATA, each a MESSAGE with a Call-ID of its own
  Nobody,
  MaxInputs    \* bound on messages sent and deliveries handled, together

ASSUME NobodyAssumption == Nobody \notin Messages \cup Deliveries
ASSUME RefsAssumption == Refs # {}
ASSUME InputsAssumption == MaxInputs \in Nat

VARIABLES
  byCallId,   \* pendingOutgoingSmsByCallId
  byRef,      \* pendingOutgoingSmsByRef
  ref,        \* the reference a message was sent with
  sender,     \* progress of sendSms
  timers,     \* messages whose RP timeout is posted
  callbacks,  \* messages with a response callback
  bypass,     \* SipSmsFallbackPolicy has learned to bypass IMS
  nextToken,  \* smsToken
  headers,    \* smsHeadersMap
  reading,    \* token of the delivery a reader is handling
  link,       \* registration: dispatcher and sockets
  network,    \* what the message centre knows of a message
  results,    \* what the framework was told of a message
  forgotten,  \* messages a reconnect has taken out of the tables
  inbox,      \* deliveries the framework is working on, by token
  accepted,   \* deliveries the framework has taken
  acked,      \* deliveries for which an RP-ACK was written
  inputs

tables   == <<byCallId, byRef>>
sending  == <<ref, sender, timers, callbacks, bypass, network>>
outcome  == <<results, forgotten>>
incoming == <<nextToken, headers, reading, inbox, accepted, acked>>
vars == <<tables, sending, outcome, link, incoming, inputs>>

Tokens == 0 .. MaxInputs - 1
NoToken == MaxInputs

TypeOK ==
  /\ byCallId \subseteq Messages /\ byRef \in [Refs -> Messages \cup {Nobody}]
  /\ ref \in [Messages -> Refs]
  /\ sender \in [Messages -> {"idle", "remembered", "listening", "done"}]
  /\ timers \subseteq Messages /\ callbacks \subseteq Messages
  /\ bypass \in BOOLEAN
  /\ inputs \in 0 .. MaxInputs /\ nextToken \in 0 .. inputs
  /\ headers \in [Tokens -> Deliveries \cup {Nobody}]
  /\ reading \in [Deliveries -> Tokens \cup {NoToken}]
  /\ link \in {"up", "unrouted", "cleared", "closed"}
  /\ network \in [Messages -> {"none", "held", "acked", "confirmed", "refused", "gone"}]
  /\ results \in [Messages -> Seq({"success", "failure"})]
  /\ forgotten \subseteq Messages
  /\ inbox \subseteq Tokens \X Deliveries
  /\ accepted \subseteq Deliveries /\ acked \subseteq Deliveries

Init ==
  /\ byCallId = {} /\ byRef = [r \in Refs |-> Nobody]
  /\ ref = [m \in Messages |-> CHOOSE r \in Refs : TRUE]
  /\ sender = [m \in Messages |-> "idle"]
  /\ timers = {} /\ callbacks = {} /\ bypass = FALSE
  /\ nextToken = 0 /\ headers = [t \in Tokens |-> Nobody]
  /\ reading = [d \in Deliveries |-> NoToken]
  /\ link = "up"
  /\ network = [m \in Messages |-> "none"]
  /\ results = [m \in Messages |-> << >>] /\ forgotten = {}
  /\ inbox = {} /\ accepted = {} /\ acked = {} /\ inputs = 0

Input == inputs < MaxInputs /\ inputs' = inputs + 1

Open == link # "closed"

-----------------------------------------------------------------------------
(* The tables of pending messages *)

Report(m, result) == results' = [results EXCEPT ![m] = Append(@, result)]

\* Both tables lose the entry; whatever stands under its reference goes with it.
Remove(m) ==
  /\ byCallId' = byCallId \ {m}
  /\ byRef' = [byRef EXCEPT ![ref[m]] = Nobody]

\* Mutant: the entry under the reference stays.
FailPendingByCallId(m) ==
  IF m \in byCallId
    THEN byCallId' = byCallId \ {m} /\ UNCHANGED byRef /\ Report(m, "failure")
    ELSE UNCHANGED <<tables, results>>

\* failPendingOutgoingSms...: whoever finds the message pending reports its failure.
FailPending(m) ==
  IF m \in byCallId THEN Remove(m) /\ Report(m, "failure")
  ELSE UNCHANGED <<tables, results>>

-----------------------------------------------------------------------------
(* sendSms *)

Bypass(m) ==
  /\ sender[m] = "idle" /\ bypass /\ Input
  /\ sender' = [sender EXCEPT ![m] = "done"]
  /\ Report(m, "failure")
  /\ UNCHANGED <<tables, ref, timers, callbacks, bypass, network, forgotten, link, incoming>>

\* The reference is the framework's, modulo 256: nobody looks whether it is still in use.
RememberPending(m, r) ==
  /\ sender[m] = "idle" /\ ~bypass /\ Input
  /\ ref' = [ref EXCEPT ![m] = r]
  /\ byCallId' = byCallId \cup {m} /\ byRef' = [byRef EXCEPT ![r] = m]
  /\ timers' = timers \cup {m}
  /\ sender' = [sender EXCEPT ![m] = "remembered"]
  /\ UNCHANGED <<callbacks, bypass, network, outcome, link, incoming>>

SetCallback(m) ==
  /\ sender[m] = "remembered"
  /\ callbacks' = callbacks \cup {m}
  /\ sender' = [sender EXCEPT ![m] = "listening"]
  /\ UNCHANGED <<tables, ref, timers, bypass, network, outcome, link, incoming, inputs>>

\* The message may still be lost on its way.
Write(m) ==
  /\ sender[m] = "listening" /\ Open
  /\ sender' = [sender EXCEPT ![m] = "done"]
  /\ network' = [network EXCEPT ![m] = "held"] \/ network' = [network EXCEPT ![m] = "gone"]
  /\ UNCHANGED <<tables, ref, timers, callbacks, bypass, outcome, link, incoming, inputs>>

WriteFails(m) ==
  /\ sender[m] = "listening"
  /\ sender' = [sender EXCEPT ![m] = "done"]
  /\ callbacks' = callbacks \ {m}
  /\ FailPending(m)
  /\ UNCHANGED <<ref, timers, bypass, network, forgotten, link, incoming, inputs>>

\* Building the message throws; PhhImsSms.sendSms swallows it and reports nothing.
SendThrows(m) ==
  /\ sender[m] = "idle" /\ ~bypass /\ Input
  /\ sender' = [sender EXCEPT ![m] = "done"]
  /\ UNCHANGED <<tables, ref, timers, callbacks, bypass, network, outcome, link, incoming>>

\* The same, once the message is remembered: the timer is left to answer.
WriteThrows(m) ==
  /\ sender[m] \in {"remembered", "listening"}
  /\ sender' = [sender EXCEPT ![m] = "done"]
  /\ UNCHANGED <<tables, ref, timers, callbacks, bypass, network, outcome, link, incoming, inputs>>

\* Mutant: the timeout gives up on the SIP transaction only.
TimeOutOfTransaction(m) ==
  /\ m \in timers
  /\ timers' = timers \ {m}
  /\ IF m \in callbacks THEN FailPending(m) ELSE UNCHANGED <<tables, results>>
  /\ UNCHANGED <<ref, sender, callbacks, bypass, network, forgotten, link, incoming, inputs>>

\* The RP timeout, on the looper.
TimeOut(m) ==
  /\ m \in timers
  /\ timers' = timers \ {m}
  /\ FailPending(m)
  /\ UNCHANGED <<ref, sender, callbacks, bypass, network, forgotten, link, incoming, inputs>>

\* The cooldown of the learned fallback is over.
CoolDown ==
  /\ bypass
  /\ bypass' = FALSE
  /\ UNCHANGED <<tables, ref, sender, timers, callbacks, network, outcome, link, incoming, inputs>>

-----------------------------------------------------------------------------
(* What the network answers *)

\* Mutant: the 2xx is the result.
AcceptedIsSuccess(m) ==
  /\ Open /\ m \in callbacks /\ network[m] \in {"held", "acked", "confirmed", "refused"}
  /\ callbacks' = callbacks \ {m}
  /\ IF m \in byCallId THEN Remove(m) /\ Report(m, "success") ELSE UNCHANGED <<tables, results>>
  /\ UNCHANGED <<ref, sender, timers, bypass, network, forgotten, link, incoming, inputs>>

\* 200 or 202: the RP result is still to come, or has come already.
MessageAccepted(m) ==
  /\ Open /\ m \in callbacks /\ network[m] \in {"held", "acked", "confirmed", "refused"}
  /\ callbacks' = callbacks \ {m}
  /\ UNCHANGED <<tables, ref, sender, timers, bypass, network, outcome, link, incoming, inputs>>

\* Any other final response; some status codes teach the fallback.
MessageRefused(m) ==
  /\ Open /\ m \in callbacks /\ network[m] = "held"
  /\ callbacks' = callbacks \ {m}
  /\ network' = [network EXCEPT ![m] = "gone"]
  /\ FailPending(m)
  /\ bypass' \in IF m \in byCallId THEN {bypass, TRUE} ELSE {bypass}
  /\ UNCHANGED <<ref, sender, timers, forgotten, link, incoming, inputs>>

\* removePendingOutgoingSms: by In-Reply-To, else by reference, whoever has it by now.
Answered(m, named) == IF named /\ m \in byCallId THEN m ELSE byRef[ref[m]]

\* RP-ACK or RP-ERROR, perhaps once more. Without a pending message an RP-ACK is passed to
\* the framework as a status report.
RpResult(m, verdict, named) ==
  /\ link = "up" /\ network[m] \in {"held", verdict}
  /\ network' = [network EXCEPT ![m] = verdict]
  /\ LET pending == Answered(m, named)
     IN  IF pending = Nobody THEN UNCHANGED <<tables, results>>
         ELSE /\ Remove(pending)
              /\ Report(pending, IF verdict = "acked" THEN "success" ELSE "failure")
  /\ UNCHANGED <<ref, sender, timers, callbacks, bypass, forgotten, link, incoming, inputs>>

NetworkForgets(m) ==
  /\ network[m] \in {"held", "acked", "refused"}
  /\ network' = [network EXCEPT ![m] = IF @ = "acked" THEN "confirmed" ELSE "gone"]
  /\ UNCHANGED <<tables, ref, sender, timers, callbacks, bypass, outcome, link, incoming, inputs>>

-----------------------------------------------------------------------------
(* Incoming messages *)

\* handleSms for RP-DATA, first or repeated, on one of the readers.
TakeToken(d) ==
  /\ link = "up" /\ reading[d] = NoToken /\ Input
  /\ reading' = [reading EXCEPT ![d] = nextToken]
  /\ nextToken' = nextToken + 1
  /\ UNCHANGED <<tables, sending, outcome, link, headers, inbox, accepted, acked>>

\* The map is written without the lock: of two readers that store at once, one may not.
Deliver(d) ==
  /\ reading[d] # NoToken
  /\ \/ headers' = [headers EXCEPT ![reading[d]] = d]
     \/ /\ \E other \in Deliveries \ {d} : reading[other] # NoToken
        /\ UNCHANGED headers
  /\ inbox' = inbox \cup {<<reading[d], d>>}
  /\ reading' = [reading EXCEPT ![d] = NoToken]
  /\ UNCHANGED <<tables, sending, outcome, link, nextToken, accepted, acked, inputs>>

\* acknowledgeSms and sendSmsAck: an RP-ACK for what stands under the token, if the
\* framework has taken the message and the write succeeds.
Acknowledge(t, d, ok) ==
  /\ <<t, d>> \in inbox
  /\ inbox' = inbox \ {<<t, d>>}
  /\ accepted' = IF ok THEN accepted \cup {d} ELSE accepted
  /\ headers' = [headers EXCEPT ![t] = Nobody]
  /\ \/ /\ ok /\ Open /\ headers[t] # Nobody
        /\ acked' = acked \cup {headers[t]}
     \/ UNCHANGED acked
  /\ UNCHANGED <<tables, sending, outcome, link, nextToken, reading, inputs>>

-----------------------------------------------------------------------------
(* A reconnect: dropImsConnection and connect *)

DropCallbacks ==
  /\ link = "up" /\ link' = "unrouted"
  /\ callbacks' = {}
  /\ UNCHANGED <<tables, ref, sender, timers, bypass, network, outcome, incoming, inputs>>

\* Mutant: tokens start again.
ClearResetsTokens ==
  /\ link = "unrouted" /\ link' = "cleared"
  /\ forgotten' = forgotten \cup byCallId
  /\ byCallId' = {} /\ byRef' = [r \in Refs |-> Nobody]
  /\ headers' = [t \in Tokens |-> Nobody] /\ nextToken' = 0
  /\ UNCHANGED <<sending, results, reading, inbox, accepted, acked, inputs>>

ClearState ==
  /\ link = "unrouted" /\ link' = "cleared"
  /\ forgotten' = forgotten \cup byCallId
  /\ byCallId' = {} /\ byRef' = [r \in Refs |-> Nobody]
  /\ headers' = [t \in Tokens |-> Nobody]
  /\ UNCHANGED <<sending, results, nextToken, reading, inbox, accepted, acked, inputs>>

Reconnect ==
  /\ \/ link = "cleared" /\ link' = "closed"
     \/ link = "closed" /\ link' = "up"
  /\ UNCHANGED <<tables, sending, outcome, incoming, inputs>>

-----------------------------------------------------------------------------
Sender(m) == SetCallback(m) \/ Write(m) \/ WriteFails(m) \/ WriteThrows(m)

Next ==
  \/ \E m \in Messages :
       \/ Bypass(m) \/ SendThrows(m) \/ (\E r \in Refs : RememberPending(m, r))
       \/ Sender(m) \/ TimeOut(m)
       \/ MessageAccepted(m) \/ MessageRefused(m) \/ NetworkForgets(m)
       \/ \E verdict \in {"acked", "refused"}, named \in BOOLEAN : RpResult(m, verdict, named)
  \/ CoolDown
  \/ \E d \in Deliveries :
       \/ TakeToken(d) \/ Deliver(d)
       \/ \E t \in Tokens, ok \in BOOLEAN : Acknowledge(t, d, ok)
  \/ DropCallbacks \/ ClearState \/ Reconnect

Spec == Init /\ [][Next]_vars

\* The looper runs what is posted, and a thread that sends goes on.
FairSpec == Spec /\ \A m \in Messages : WF_vars(TimeOut(m)) /\ WF_vars(Sender(m))

-----------------------------------------------------------------------------
(* Properties *)

\* RP result, refusal, failed write and timeout race for a pending message; the framework
\* hears of only one of them (PhhImsSms passes each on as a result of the same token).
OneResult == \A m \in Messages : Len(results[m]) <= 1

\* onSendSmsResultSuccess means that the message centre has acknowledged a message with the
\* reference of this one: a 200 or 202 for the MESSAGE is not enough, and no result finds its
\* way to a message with another reference, whatever In-Reply-To says and however late it
\* comes. That it was this message holds only as long as no other had the reference.
SuccessIsAcked ==
  \A m \in Messages :
    (\E i \in 1 .. Len(results[m]) : results[m][i] = "success")
       => \E n \in Messages : ref[n] = ref[m] /\ network[n] \in {"acked", "confirmed"}

\* An RP-ACK tells the message centre to forget the message. It is written only for a
\* delivery that the framework has taken, across reconnects in between.
AckMeansAccepted == acked \subseteq accepted

\* Every message that is remembered gets a result, whatever throws or fails after that,
\* unless a reconnect forgets it.
EverySendAnswered ==
  \A m \in Messages : sender[m] = "remembered" ~> (results[m] # << >> \/ m \in forgotten)
=============================================================================
