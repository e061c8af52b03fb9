------------------------------ MODULE OutgoingCall ------------------------------
(***************************************************************************)
(* Outgoing calls: SipHandler.call, the response callback of its INVITE,    *)
(* terminateCall, the RTP timeout after the answer, and what the framework  *)
(* session hears of them (PhhMmTelFeature).                                 *)
(*                                                                         *)
(* The calling thread, the looper, the SIP reader, the threads that wait    *)
(* for RTP and the reconnect share one currentCall, one pending INVITE and  *)
(* the media flags, none of them under a lock. A step ends where its thread *)
(* writes to the socket. A call stands for its Call-ID and RTP socket; CSeq *)
(* is the number of times the INVITE was sent again. SDP is the codec it    *)
(* selects. Incoming and waiting calls are left out.                        *)
(***************************************************************************)
EXTENDS Naturals, Sequences

CONSTANTS
  MaxCalls,
  Codecs,
  NoSdp,
  MaxInputs    \* bound on hang-ups, messages of the callee and faults, together

ASSUME CallsAssumption == MaxCalls \in Nat
ASSUME NoSdpAssumption == NoSdp \notin Codecs
ASSUME InputsAssumption == MaxInputs \in Nat

\* Calls are numbered in the order in which they are made.
Calls == 1 .. MaxCalls
NoCall == 0

VARIABLES
  pending,      \* pendingOutgoingInvite
  attempt,      \* CSeq of the pending copy of the INVITE
  cancelSent,   \* calls whose pending INVITE has cancelSent set
  retried,      \* <<call, kind>> for retriedAfter422 and retriedAfterIllegalSdp
  current,      \* currentCall
  codec, rtp, notified,       \* of the currentCall object
  stopped, started, threads,  \* callStopped, callStarted, threadsStarted
  connectedIds, \* outgoingConnectedCallIds
  inFlight,     \* respInFlight: the response a PRACK answer resumes
  listening,    \* calls with a response callback
  reported,     \* outgoingCallSetupFailureReported
  caller,       \* thread of call()
  hangUp,       \* terminateCall is posted
  looper,       \* its write that is under way
  byeTimers,    \* calls whose BYE has its four-second timer
  restarts,     \* calls whose media restart is posted
  reader,       \* the 2xx whose ACK is written
  watch,        \* thread of scheduleOutgoingPostAnswerRtpTimeout
  session, owner, sipId,      \* framework sessions; the latest, and outgoingCallSipCallId
  link,         \* control socket
  uas, uasAttempt, wire,      \* callee, the INVITE it works on, its messages on their way
  acked,        \* calls whose 2xx was acknowledged
  redials,      \* calls begun before the last one was cleared away
  cut,          \* calls that something else has cut off
  inputs

invite  == <<pending, attempt, cancelSent, retried>>
dialog  == <<current, codec, rtp, notified>>
media   == <<stopped, started, threads>>
tasks   == <<hangUp, looper, byeTimers, restarts, watch>>
told    == <<session, sipId>>
peer    == <<uas, uasAttempt, wire>>
history == <<acked, cut>>
vars == <<invite, dialog, media, tasks, told, peer, history, connectedIds, inFlight,
          listening, reported, caller, reader, owner, redials, link, inputs>>

Live == {"dialing", "connected"}
NoJob == [call |-> NoCall, kind |-> "none", seq |-> 0]
NoAnswer == [call |-> NoCall, sdp |-> NoSdp, cancelled |-> FALSE]
Msg(kind, sdp) == [kind |-> kind, sdp |-> sdp]
Responses == {"180", "183", "reliable", "prackOk", "prackFailed", "422", "illegal", "refused",
              "updateFailed", "200", "byeAnswer"}
Messages == [kind : Responses \cup {"bye"}, sdp : Codecs \cup {NoSdp}]

InviteTyped ==
  /\ pending \in Calls \cup {NoCall} /\ attempt \in [Calls -> Nat]
  /\ cancelSent \subseteq Calls /\ retried \subseteq Calls \X {"422", "illegal"}
  /\ caller \in [Calls -> {"none", "begun", "prepared", "done"}] /\ reported \in BOOLEAN
DialogTyped ==
  /\ current \in Calls \cup {NoCall} /\ codec \in Codecs \cup {NoSdp}
  /\ rtp \in BOOLEAN /\ notified \in BOOLEAN
  /\ stopped \in BOOLEAN /\ started \in BOOLEAN /\ threads \in BOOLEAN
TasksTyped ==
  /\ hangUp \in BOOLEAN /\ byeTimers \subseteq Calls /\ restarts \subseteq Calls
  /\ looper \in [call : Calls, kind : {"cancel", "cancelCurrent", "bye"}, seq : Nat] \cup {NoJob}
  /\ watch \in [Calls -> {"none", "sleeps", "ending"}]
ReaderTyped ==
  /\ reader \in [call : Calls, sdp : Codecs \cup {NoSdp}, cancelled : BOOLEAN] \cup {NoAnswer}
  /\ inFlight \in [call : Calls \cup {NoCall}, sdp : Codecs \cup {NoSdp}]
  /\ connectedIds \subseteq Calls /\ listening \subseteq Calls
SessionTyped ==
  /\ session \in [Calls -> {"none", "ended"} \cup Live]
  /\ owner \in Calls \cup {NoCall} /\ sipId \in Calls \cup {NoCall}
PeerTyped ==
  /\ uas \in [Calls -> {"none", "early", "media", "answered", "confirmed", "over"}]
  /\ uasAttempt \in [Calls -> Nat] /\ wire \in [Calls -> Seq(Messages)]
RestTyped ==
  /\ link \in {"up", "broken", "down"} /\ inputs \in 0 .. MaxInputs
  /\ acked \subseteq Calls /\ cut \subseteq Calls /\ redials \subseteq Calls
TypeOK ==
  /\ InviteTyped /\ DialogTyped /\ TasksTyped /\ ReaderTyped /\ SessionTyped /\ PeerTyped
  /\ RestTyped

Init ==
  /\ pending = NoCall /\ attempt = [c \in Calls |-> 0] /\ cancelSent = {} /\ retried = {}
  /\ current = NoCall /\ codec = NoSdp /\ rtp = FALSE /\ notified = FALSE
  /\ stopped = FALSE /\ started = FALSE /\ threads = FALSE
  /\ connectedIds = {} /\ inFlight = [call |-> NoCall, sdp |-> NoSdp]
  /\ listening = {} /\ reported = FALSE
  /\ caller = [c \in Calls |-> "none"] /\ hangUp = FALSE /\ looper = NoJob
  /\ byeTimers = {} /\ restarts = {} /\ reader = NoAnswer
  /\ watch = [c \in Calls |-> "none"]
  /\ session = [c \in Calls |-> "none"] /\ owner = NoCall /\ sipId = NoCall
  /\ link = "up"
  /\ uas = [c \in Calls |-> "none"] /\ uasAttempt = [c \in Calls |-> 0]
  /\ wire = [c \in Calls |-> << >>]
  /\ acked = {} /\ cut = {} /\ redials = {} /\ inputs = 0

Input == inputs < MaxInputs /\ inputs' = inputs + 1

-----------------------------------------------------------------------------
(* What the actions are made of *)

\* onCancelledCall with the Call-ID c, or none: whose session it ends.
Tell(c, starting) ==
  IF /\ owner # NoCall /\ session[owner] \in Live
     /\ c = NoCall \/ c = sipId \/ (starting /\ sipId = NoCall)
    THEN session' = [session EXCEPT ![owner] = "ended"] /\ sipId' = NoCall
    ELSE UNCHANGED told

StopRuntime == stopped' = TRUE /\ started' = FALSE /\ threads' = FALSE

\* clearPendingOutgoingInvite
Cleared(c) == IF pending = c THEN NoCall ELSE pending

\* What reaches the callee of c, and what it answers; w is the wire after the read.
CalleeGets(c, state, reply, w) ==
  /\ uas' = [uas EXCEPT ![c] = state]
  /\ wire' = [w EXCEPT ![c] = @ \o reply]

\* A first INVITE may be swallowed; the network that has answered one answers its repetition.
Invited(c, w) ==
  /\ \E state \in IF attempt'[c] = 0 THEN {"early", "over"} ELSE {"early"} :
       CalleeGets(c, state, << >>, w)
  /\ uasAttempt' = [uasAttempt EXCEPT ![c] = attempt'[c]]

\* A CANCEL is for one INVITE. Nothing answers when the INVITE went astray.
Cancelled(c, seq, w) ==
  IF uas[c] \in {"early", "media"} /\ uasAttempt[c] = seq
    THEN CalleeGets(c, "over", <<Msg("refused", NoSdp)>>, w)
    ELSE CalleeGets(c, uas[c], << >>, w)

Byed(c, w) == CalleeGets(c, "over", <<Msg("byeAnswer", NoSdp)>>, w)

Popped(c) == [wire EXCEPT ![c] = Tail(@)]

\* failOutgoingCallSetup for the RTP socket of call s.
FailSetup(s) ==
  IF reported
    THEN UNCHANGED <<reported, media, listening, current, pending, connectedIds, told>>
    ELSE /\ reported' = TRUE /\ StopRuntime
         /\ listening' = listening \ {pending}
         /\ current' = IF s # NoCall /\ current = s THEN NoCall ELSE current
         /\ pending' = NoCall /\ connectedIds' = connectedIds \ {pending}
         /\ Tell(pending, TRUE)

-----------------------------------------------------------------------------
(* The calling thread *)

\* Nothing of an earlier call is pending, current or in the hands of a thread.
Settled ==
  /\ current = NoCall /\ pending = NoCall /\ looper = NoJob /\ reader = NoAnswer
  /\ \A c \in Calls : caller[c] \in {"none", "done"}

\* ImsCallSessionImplBase.start: the framework has no other live session; whether the program
\* is done with the last one is not asked.
Start(c) ==
  /\ session[c] = "none" /\ link = "up"
  /\ \A d \in Calls : session[d] \notin Live /\ (d < c => session[d] # "none")
  /\ session' = [session EXCEPT ![c] = "dialing"] /\ owner' = c /\ sipId' = NoCall
  /\ caller' = [caller EXCEPT ![c] = "begun"]
  /\ redials' = IF Settled THEN redials ELSE redials \cup {c}
  /\ UNCHANGED <<invite, dialog, media, tasks, peer, acked, cut, connectedIds, inFlight, listening,
                 reported, reader, link, inputs>>

\* call() up to the INVITE in pendingOutgoingInvite, with its callback.
CallPrepares(c) ==
  /\ caller[c] = "begun"
  /\ caller' = [caller EXCEPT ![c] = "prepared"]
  /\ stopped' = FALSE /\ started' = FALSE /\ threads' = FALSE /\ reported' = FALSE
  /\ pending' = c /\ attempt' = [attempt EXCEPT ![c] = 0]
  /\ listening' = listening \cup {c}
  /\ UNCHANGED <<cancelSent, retried, dialog, tasks, told, peer, history, connectedIds, inFlight,
                 reader, owner, redials, link, inputs>>

CallWrites(c) ==
  /\ caller[c] = "prepared"
  /\ caller' = [caller EXCEPT ![c] = "done"]
  /\ IF link = "up"
       THEN /\ UNCHANGED attempt /\ Invited(c, wire)
            /\ UNCHANGED <<pending, current, media, told, connectedIds, listening, reported>>
       ELSE FailSetup(c) /\ UNCHANGED <<attempt, peer>>
  /\ UNCHANGED <<cancelSent, retried, codec, rtp, notified, tasks, history, inFlight, reader, owner,
                 redials, link, inputs>>

-----------------------------------------------------------------------------
(* The looper: hang-up, BYE timer, media restart *)

HangUp ==
  /\ owner # NoCall /\ session[owner] \in Live /\ ~hangUp /\ Input
  /\ hangUp' = TRUE
  /\ UNCHANGED <<invite, dialog, media, looper, byeTimers, restarts, watch, told, peer, history,
                 connectedIds, inFlight, listening, reported, caller, reader, owner, redials, link>>

Job(c, kind) == [call |-> c, kind |-> kind, seq |-> attempt[c]]

\* terminateCall(outgoingCallSipCallId) up to its write.
TerminateBegins ==
  /\ hangUp /\ looper = NoJob /\ hangUp' = FALSE
  /\ \/ /\ current = NoCall /\ pending # NoCall /\ sipId \in {NoCall, pending}
        /\ StopRuntime
        /\ looper' = Job(pending, "cancel") /\ cancelSent' = cancelSent \cup {pending}
     \/ /\ current # NoCall /\ sipId \in {NoCall, current}
        /\ stopped' = TRUE /\ UNCHANGED <<started, threads>>
        /\ IF ~started /\ pending = current
             THEN /\ looper' = Job(pending, "cancelCurrent")
                  /\ cancelSent' = cancelSent \cup {pending}
             ELSE looper' = Job(current, "bye") /\ UNCHANGED cancelSent
     \/ /\ current = NoCall => pending = NoCall \/ sipId \notin {NoCall, pending}
        /\ current # NoCall => sipId \notin {NoCall, current}
        /\ UNCHANGED <<media, looper, cancelSent>>
  /\ UNCHANGED <<pending, attempt, retried, dialog, byeTimers, restarts, watch, told, peer, history,
                 connectedIds, inFlight, listening, reported, caller, reader, owner, redials, link,
                 inputs>>

\* Mutant: the INVITE stays pending until its final response.
CancelKeepsPending ==
  /\ looper.kind \in {"cancel", "cancelCurrent"} /\ looper' = NoJob
  /\ LET c == looper.call
     IN  /\ Cancelled(c, looper.seq, wire)
         /\ current' = IF looper.kind = "cancelCurrent" THEN NoCall ELSE current
         /\ Tell(c, TRUE)
  /\ UNCHANGED <<invite, media, connectedIds, codec, rtp, notified, hangUp, byeTimers, restarts,
                 watch, uasAttempt, history, inFlight, listening, reported, caller, reader, owner,
                 redials, link, inputs>>

\* The CANCEL, and the rest of terminateCall.
TerminateCancels ==
  /\ looper.kind \in {"cancel", "cancelCurrent"} /\ looper' = NoJob
  /\ LET c == looper.call
     IN  /\ pending' = Cleared(c) /\ connectedIds' = connectedIds \ {c}
         /\ IF link = "up" THEN Cancelled(c, looper.seq, wire) /\ UNCHANGED media
            ELSE StopRuntime /\ UNCHANGED <<uas, wire>>
         /\ current' = IF looper.kind = "cancelCurrent" \/ (link # "up" /\ current = c) THEN NoCall
                       ELSE current
         /\ Tell(c, TRUE)
  /\ UNCHANGED <<attempt, cancelSent, retried, codec, rtp, notified, hangUp, byeTimers, restarts,
                 watch, uasAttempt, history, inFlight, listening, reported, caller, reader, owner,
                 redials, link, inputs>>

TerminateByes ==
  /\ looper.kind = "bye" /\ looper' = NoJob
  /\ LET c == looper.call
     IN  /\ pending' = Cleared(c) /\ connectedIds' = connectedIds \ {c}
         /\ IF link = "up" THEN Byed(c, wire) /\ UNCHANGED <<media, current>>
            ELSE /\ StopRuntime /\ current' = IF current = c THEN NoCall ELSE current
                 /\ UNCHANGED <<uas, wire>>
         /\ byeTimers' = byeTimers \cup {c}
         /\ Tell(c, FALSE)
  /\ UNCHANGED <<attempt, cancelSent, retried, codec, rtp, notified, hangUp, restarts, watch,
                 uasAttempt, history, inFlight, listening, reported, caller, reader, owner, redials,
                 link, inputs>>

\* Four seconds after a BYE without an answer.
ByeTimer(c) ==
  /\ looper = NoJob /\ c \in byeTimers /\ byeTimers' = byeTimers \ {c}
  /\ current' = IF current = c /\ stopped THEN NoCall ELSE current
  /\ UNCHANGED <<invite, codec, rtp, notified, media, hangUp, looper, restarts, watch, told, peer,
                 history, connectedIds, inFlight, listening, reported, caller, reader, owner,
                 redials, link, inputs>>

\* 150 ms after a change of codec.
RestartMedia(c) ==
  /\ looper = NoJob /\ c \in restarts /\ restarts' = restarts \ {c}
  /\ IF current = c
       THEN /\ stopped' = FALSE /\ started' = FALSE /\ threads' = TRUE
            /\ cut' = IF started THEN cut \cup {c} ELSE cut
       ELSE UNCHANGED <<media, cut>>
  /\ UNCHANGED <<invite, dialog, hangUp, looper, byeTimers, watch, told, peer, acked, connectedIds,
                 inFlight, listening, reported, caller, reader, owner, redials, link, inputs>>

-----------------------------------------------------------------------------
(* The SIP reader: responses *)

\* The head of the wire is a message of call c and one of kinds.
Reads(c, kinds) ==
  /\ reader = NoAnswer /\ link # "down"
  /\ wire[c] # << >> /\ Head(wire[c]).kind \in kinds

Heard(c) == c \in listening /\ (current = c \/ pending = c)

\* No callback, or the stale-response guard, which removes it.
IgnoreResponse(c) ==
  /\ Reads(c, Responses) /\ ~Heard(c)
  /\ wire' = Popped(c) /\ listening' = listening \ {c}
  /\ UNCHANGED <<invite, dialog, media, tasks, told, uas, uasAttempt, history, connectedIds,
                 inFlight, reported, caller, reader, owner, redials, link, inputs>>

\* 180 without SDP.
Progressing(c) ==
  /\ Reads(c, {"180"}) /\ Heard(c)
  /\ wire' = Popped(c) /\ sipId' = c
  /\ UNCHANGED <<invite, dialog, media, tasks, session, uas, uasAttempt, history, connectedIds,
                 inFlight, listening, reported, caller, reader, owner, redials, link, inputs>>

\* A reliable 183 waits in respInFlight for the answer to its PRACK.
ReliableProvisional(c) ==
  /\ Reads(c, {"reliable"}) /\ Heard(c)
  /\ inFlight' = [call |-> c, sdp |-> Head(wire[c]).sdp]
  /\ IF link = "up"
       THEN /\ \E answer \in {"prackOk", "prackFailed"} :
                 CalleeGets(c, uas[c], <<Msg(answer, NoSdp)>>, Popped(c))
            /\ UNCHANGED <<pending, current, media, told, connectedIds, listening, reported>>
       ELSE FailSetup(pending) /\ wire' = Popped(c) /\ UNCHANGED uas
  /\ UNCHANGED <<attempt, cancelSent, retried, codec, rtp, notified, tasks, uasAttempt, history,
                 caller, reader, owner, redials, link, inputs>>

\* restartOutgoingMediaAfterDialogSdpCodecChange asks for a restart.
CodecChanges(c, sdp) == current = c /\ codec # sdp /\ threads

\* installOutgoingDialogFromSdpAnswer for a 183, which starts the media; with preconditions
\* it sends an UPDATE, which may be refused.
InstallProvisional(c, sdp, w) ==
  /\ current' = c /\ codec' = sdp /\ rtp' = FALSE /\ notified' = FALSE
  /\ threads' = TRUE
  /\ IF CodecChanges(c, sdp)
       THEN /\ stopped' = TRUE /\ started' = FALSE /\ restarts' = restarts \cup {c}
            /\ cut' = IF started THEN cut \cup {c} ELSE cut
       ELSE UNCHANGED <<stopped, started, restarts, cut>>
  /\ \/ UNCHANGED uas /\ wire' = w
     \/ link = "up" /\ CalleeGets(c, uas[c], <<Msg("updateFailed", NoSdp)>>, w)

Provisional(c) ==
  /\ Reads(c, {"183", "prackOk"}) /\ Heard(c)
  /\ LET m == Head(wire[c])
     IN  IF m.kind = "183"
           THEN InstallProvisional(c, m.sdp, Popped(c)) /\ UNCHANGED inFlight
           ELSE IF inFlight.call = NoCall
             THEN wire' = Popped(c) /\ UNCHANGED <<dialog, media, restarts, cut, uas, inFlight>>
             ELSE /\ InstallProvisional(inFlight.call, inFlight.sdp, Popped(c))
                  /\ inFlight' = [call |-> NoCall, sdp |-> NoSdp]
  /\ UNCHANGED <<invite, hangUp, looper, byeTimers, watch, told, uasAttempt, acked, connectedIds,
                 listening, reported, caller, reader, owner, redials, link, inputs>>

PrackFailed(c) ==
  /\ Reads(c, {"prackFailed"}) /\ Heard(c)
  /\ wire' = Popped(c) /\ inFlight' = [call |-> NoCall, sdp |-> NoSdp]
  /\ UNCHANGED <<invite, dialog, media, tasks, told, uas, uasAttempt, history, connectedIds,
                 listening, reported, caller, reader, owner, redials, link, inputs>>

\* The same, with an UPDATE that cannot be written.
UpdateUnwritten(c) ==
  /\ Reads(c, {"183", "prackOk"}) /\ Heard(c) /\ link = "broken" /\ ~reported
  /\ Head(wire[c]).kind = "prackOk" => inFlight.call # NoCall
  /\ inFlight' = IF Head(wire[c]).kind = "183" THEN inFlight ELSE [call |-> NoCall, sdp |-> NoSdp]
  /\ wire' = Popped(c)
  /\ reported' = TRUE /\ StopRuntime
  /\ listening' = listening \ {pending} /\ connectedIds' = connectedIds \ {pending}
  /\ pending' = NoCall /\ current' = NoCall
  /\ Tell(pending, TRUE)
  /\ UNCHANGED <<attempt, cancelSent, retried, codec, rtp, notified, tasks, uas, uasAttempt,
                 history, caller, reader, owner, redials, link, inputs>>

\* retryOutgoingInviteAfter422 and retryOutgoingInviteAfterIllegalSdp: once each.
Retries(c, kind) ==
  /\ kind \in {"422", "illegal"} /\ pending = c /\ <<c, kind>> \notin retried
  /\ kind = "illegal" => c \notin cancelSent

Retry(c) ==
  /\ Reads(c, {"422", "illegal"}) /\ Heard(c) /\ Retries(c, Head(wire[c]).kind)
  /\ retried' = retried \cup {<<c, Head(wire[c]).kind>>}
  /\ attempt' = [attempt EXCEPT ![c] = @ + 1]
  /\ IF link = "up"
       THEN /\ Invited(c, Popped(c))
            /\ UNCHANGED <<pending, current, media, told, connectedIds, listening, reported>>
       ELSE FailSetup(c) /\ wire' = Popped(c) /\ UNCHANGED <<uas, uasAttempt>>
  /\ UNCHANGED <<cancelSent, codec, rtp, notified, tasks, history, inFlight, caller, reader, owner,
                 redials, link, inputs>>

\* Any other failure ends the call; that of an early UPDATE cancels the INVITE. The
\* framework is told without a Call-ID.
Fails(c) ==
  /\ Reads(c, {"422", "illegal", "refused", "updateFailed"}) /\ Heard(c)
  /\ LET kind == Head(wire[c]).kind
         cancels == kind = "updateFailed" /\ pending = c /\ c \notin cancelSent
     IN  /\ ~Retries(c, kind)
         /\ cancelSent' = IF cancels THEN cancelSent \cup {c} ELSE cancelSent
         /\ IF cancels /\ link = "up" THEN Cancelled(c, attempt[c], Popped(c))
            ELSE wire' = Popped(c) /\ UNCHANGED uas
  /\ StopRuntime
  /\ current' = IF current = c THEN NoCall ELSE current
  /\ pending' = Cleared(c) /\ connectedIds' = connectedIds \ {c}
  /\ listening' = listening \ {c}
  /\ Tell(NoCall, FALSE)
  /\ UNCHANGED <<attempt, retried, codec, rtp, notified, tasks, uasAttempt, history, inFlight,
                 reported, caller, reader, owner, redials, link, inputs>>

\* A 2xx is acknowledged first, whatever has become of the call.
AckFinal(c) ==
  /\ Reads(c, {"200"}) /\ Heard(c)
  /\ IF link = "up"
       THEN /\ reader' = [call |-> c, sdp |-> Head(wire[c]).sdp,
                          cancelled |-> pending = c /\ c \in cancelSent]
            /\ CalleeGets(c, IF uas[c] = "answered" THEN "confirmed" ELSE uas[c], << >>, Popped(c))
            /\ acked' = acked \cup {c}
            /\ UNCHANGED <<pending, current, media, told, connectedIds, listening, reported>>
       ELSE /\ FailSetup(IF current # NoCall THEN current ELSE pending)
            /\ wire' = Popped(c) /\ UNCHANGED <<uas, reader, acked>>
  /\ UNCHANGED <<attempt, cancelSent, retried, codec, rtp, notified, tasks, uasAttempt, cut,
                 inFlight, caller, owner, redials, link, inputs>>

\* A 2xx of a cancelled call: BYE, if there is a dialog to send it in. An answer with another
\* codec has stopped the media before.
HangUpCancelled(dialogCall) ==
  LET changes == reader.sdp # NoSdp /\ CodecChanges(reader.call, reader.sdp)
      unwritten == dialogCall # NoCall /\ link # "up"
  IN  /\ pending' = Cleared(reader.call) /\ current' = NoCall
      /\ connectedIds' = connectedIds \ {reader.call} /\ listening' = listening \ {reader.call}
      /\ restarts' = IF changes THEN restarts \cup {reader.call} ELSE restarts
      /\ IF changes \/ unwritten THEN StopRuntime
         ELSE started' = TRUE /\ UNCHANGED <<stopped, threads>>
      /\ IF dialogCall # NoCall /\ link = "up" THEN Byed(dialogCall, wire)
         ELSE UNCHANGED <<uas, wire>>
      /\ UNCHANGED <<codec, rtp, notified, watch, cut>>

\* Without SDP the answer waits for RTP, two seconds at most.
AnswerWithoutSdp ==
  /\ pending' = Cleared(reader.call) /\ started' = TRUE
  /\ IF current = NoCall THEN UNCHANGED <<rtp, watch>>
     ELSE rtp' = FALSE /\ watch' = [watch EXCEPT ![reader.call] = "sleeps"]
  /\ UNCHANGED <<current, codec, notified, stopped, threads, restarts, cut, connectedIds,
                 listening, uas, wire>>

AnswerWithSdp ==
  LET c == reader.call
  IN  /\ pending' = Cleared(c) /\ current' = c /\ codec' = reader.sdp
      /\ rtp' = FALSE /\ notified' = FALSE /\ threads' = TRUE
      /\ IF CodecChanges(c, reader.sdp)
           THEN /\ stopped' = TRUE /\ started' = FALSE
                /\ restarts' = restarts \cup {c} /\ cut' = cut \cup {c}
           ELSE started' = TRUE /\ UNCHANGED <<stopped, restarts, cut>>
      /\ UNCHANGED <<watch, connectedIds, listening, uas, wire>>

FinishFinal ==
  /\ reader # NoAnswer /\ reader' = NoAnswer
  /\ LET crossed == pending = reader.call /\ reader.call \in cancelSent
     IN  \/ reader.cancelled /\ HangUpCancelled(current)
         \/ ~reader.cancelled /\ reader.sdp = NoSdp /\ AnswerWithoutSdp
         \/ ~reader.cancelled /\ reader.sdp # NoSdp /\ crossed /\ HangUpCancelled(reader.call)
         \/ ~reader.cancelled /\ reader.sdp # NoSdp /\ ~crossed /\ AnswerWithSdp
  /\ UNCHANGED <<attempt, cancelSent, retried, hangUp, looper, byeTimers, told, uasAttempt, acked,
                 inFlight, reported, caller, owner, redials, link, inputs>>

ByeAnswered(c) ==
  /\ Reads(c, {"byeAnswer"}) /\ Heard(c)
  /\ wire' = Popped(c) /\ current' = NoCall /\ pending' = Cleared(c)
  /\ connectedIds' = connectedIds \ {c} /\ listening' = listening \ {c}
  /\ UNCHANGED <<attempt, cancelSent, retried, codec, rtp, notified, media, tasks, told, uas,
                 uasAttempt, history, inFlight, reported, caller, reader, owner, redials, link,
                 inputs>>

\* handleCancel for a BYE: it ends the current call, whichever that is.
RemoteBye(c) ==
  /\ Reads(c, {"bye"})
  /\ wire' = Popped(c) /\ StopRuntime
  /\ current' = NoCall /\ pending' = Cleared(c) /\ connectedIds' = connectedIds \ {c}
  /\ cut' = IF current \notin {c, NoCall} THEN cut \cup {current} ELSE cut
  /\ Tell(c, FALSE)
  /\ UNCHANGED <<attempt, cancelSent, retried, codec, rtp, notified, tasks, uas, uasAttempt, acked,
                 inFlight, listening, reported, caller, reader, owner, redials, link, inputs>>

-----------------------------------------------------------------------------
(* Media *)

\* Mutant: any RTP counts.
EarlyRtpCounts(c) ==
  /\ current = c /\ threads /\ ~stopped /\ uas[c] # "none"
  /\ rtp' = TRUE
  /\ IF c \in connectedIds THEN UNCHANGED <<connectedIds, told>>
     ELSE /\ connectedIds' = connectedIds \cup {c} /\ sipId' = c
          /\ session' = [session EXCEPT ![owner] = IF @ = "dialing" THEN "connected" ELSE @]
  /\ notified' = TRUE
  /\ UNCHANGED <<invite, current, codec, media, tasks, peer, history, inFlight, listening, reported,
                 caller, reader, owner, redials, link, inputs>>

\* RTP for the current call, maybeNotifyOutgoingCallConnected. Before the answer it is early
\* media; packets under way outlive the callee.
RtpArrives(c) ==
  /\ current = c /\ threads /\ ~stopped /\ started
  /\ uas[c] # "none"
  /\ rtp' = TRUE /\ notified' = TRUE
  /\ IF c \in connectedIds THEN UNCHANGED <<connectedIds, told>>
     ELSE /\ connectedIds' = connectedIds \cup {c} /\ sipId' = c
          /\ session' = [session EXCEPT ![owner] = IF @ = "dialing" THEN "connected" ELSE @]
  /\ UNCHANGED <<invite, current, codec, media, tasks, peer, history, inFlight, listening, reported,
                 caller, reader, owner, redials, link, inputs>>

\* Two seconds after the answer.
WatchEnds(c) ==
  /\ watch[c] = "sleeps"
  /\ IF current = c /\ ~notified /\ ~rtp /\ started
       THEN /\ watch' = [watch EXCEPT ![c] = "ending"]
            /\ connectedIds' = connectedIds \ {c} /\ StopRuntime
       ELSE watch' = [watch EXCEPT ![c] = "none"] /\ UNCHANGED <<connectedIds, media>>
  /\ UNCHANGED <<invite, dialog, hangUp, looper, byeTimers, restarts, told, peer, history, inFlight,
                 listening, reported, caller, reader, owner, redials, link, inputs>>

\* Mutant: it says BYE to the callee and nothing to the session.
WatchByesSilently(c) ==
  /\ watch[c] = "ending" /\ watch' = [watch EXCEPT ![c] = "none"]
  /\ IF link = "up" THEN Byed(c, wire) /\ UNCHANGED media ELSE StopRuntime /\ UNCHANGED <<uas, wire>>
  /\ current' = NoCall /\ pending' = Cleared(c) /\ connectedIds' = connectedIds \ {c}
  /\ UNCHANGED <<attempt, cancelSent, retried, codec, rtp, notified, hangUp, looper, byeTimers,
                 restarts, told, uasAttempt, history, inFlight, listening, reported, caller, reader,
                 owner, redials, link, inputs>>

\* Its BYE; then whatever call is current goes.
WatchByes(c) ==
  /\ watch[c] = "ending" /\ watch' = [watch EXCEPT ![c] = "none"]
  /\ IF link = "up" THEN Byed(c, wire) /\ UNCHANGED media ELSE StopRuntime /\ UNCHANGED <<uas, wire>>
  /\ current' = NoCall /\ pending' = Cleared(c) /\ connectedIds' = connectedIds \ {c}
  /\ cut' = IF current \notin {c, NoCall} THEN cut \cup {current} ELSE cut
  /\ Tell(c, FALSE)
  /\ UNCHANGED <<attempt, cancelSent, retried, codec, rtp, notified, hangUp, looper, byeTimers,
                 restarts, uasAttempt, acked, inFlight, listening, reported, caller, reader, owner,
                 redials, link, inputs>>

-----------------------------------------------------------------------------
(* The control connection *)

Break ==
  /\ link = "up" /\ link' = "broken" /\ Input
  /\ UNCHANGED <<invite, dialog, media, tasks, told, peer, history, connectedIds, inFlight,
                 listening, reported, caller, reader, owner, redials>>

\* clearCallAndCallbackStateForReconnect; the network drops the calls of the old registration.
DropAll ==
  /\ link' = "down"
  /\ StopRuntime /\ current' = NoCall /\ pending' = NoCall /\ listening' = {}
  /\ cut' = {c \in Calls : session[c] # "none"}
  /\ uas' = [c \in Calls |-> IF uas[c] = "none" THEN "none" ELSE "over"] /\ wire' = [c \in Calls |-> << >>]
  /\ UNCHANGED <<attempt, cancelSent, retried, codec, rtp, notified, tasks, uasAttempt, acked,
                 connectedIds, inFlight, caller, reader, owner, redials>>

\* A reconnect says nothing to the session.
DropConnection ==
  /\ \/ link = "up" /\ Input
     \/ link = "broken" /\ UNCHANGED inputs
  /\ DropAll
  /\ UNCHANGED <<told, reported>>

\* outgoingCallSetupFailureForImsNetworkLoss
NetworkLost ==
  /\ link # "down" /\ Input
  /\ DropAll
  /\ LET failed == IF pending # NoCall THEN pending
                   ELSE IF current # NoCall /\ ~started THEN current ELSE NoCall
     IN  IF ~reported /\ (failed # NoCall \/ \E c \in Calls : caller[c] = "prepared")
           THEN reported' = TRUE /\ Tell(failed, TRUE)
           ELSE UNCHANGED <<reported, told>>

Connected ==
  /\ link = "down" /\ link' = "up"
  /\ UNCHANGED <<invite, dialog, media, tasks, told, peer, history, connectedIds, inFlight,
                 listening, reported, caller, reader, owner, redials, inputs>>

-----------------------------------------------------------------------------
(* The callee *)

CalleeOnly == UNCHANGED <<invite, dialog, media, tasks, told, uasAttempt, history, connectedIds,
                          inFlight, listening, reported, caller, reader, owner, redials, link>>

Rings(c) ==
  /\ uas[c] \in {"early", "media"} /\ Input
  /\ CalleeGets(c, uas[c], <<Msg("180", NoSdp)>>, wire) /\ CalleeOnly

SendsSdp(c, kind, sdp) ==
  /\ uas[c] \in {"early", "media"} /\ Input
  /\ CalleeGets(c, "media", <<Msg(kind, sdp)>>, wire) /\ CalleeOnly

Refuses(c, kind) ==
  /\ uas[c] \in {"early", "media"} /\ Input
  /\ CalleeGets(c, "over", <<Msg(kind, NoSdp)>>, wire) /\ CalleeOnly

\* An answer without SDP follows an SDP that came before.
Answers(c, sdp) ==
  /\ uas[c] \in IF sdp = NoSdp THEN {"media"} ELSE {"early", "media"}
  /\ Input
  /\ CalleeGets(c, "answered", <<Msg("200", sdp)>>, wire) /\ CalleeOnly

\* In the end a callee, or the network for it, gives up.
GivesUp(c) ==
  /\ UNCHANGED inputs /\ CalleeOnly
  /\ \/ /\ uas[c] \in {"answered", "confirmed"}
        /\ CalleeGets(c, "over", <<Msg("bye", NoSdp)>>, wire)
     \/ /\ uas[c] \in {"early", "media"}
        /\ CalleeGets(c, "over", <<Msg("refused", NoSdp)>>, wire)

-----------------------------------------------------------------------------
CallThread(c) == CallPrepares(c) \/ CallWrites(c)
Looper == TerminateBegins \/ TerminateCancels \/ TerminateByes
            \/ \E c \in Calls : ByeTimer(c) \/ RestartMedia(c)
ReadsOf(c) ==
  \/ IgnoreResponse(c) \/ Progressing(c) \/ ReliableProvisional(c) \/ Provisional(c)
  \/ PrackFailed(c) \/ UpdateUnwritten(c) \/ Retry(c) \/ Fails(c) \/ AckFinal(c)
  \/ ByeAnswered(c) \/ RemoteBye(c)
WatchThread(c) == WatchEnds(c) \/ WatchByes(c)
Callee(c) ==
  \/ Rings(c)
  \/ \E kind \in {"183", "reliable"}, sdp \in Codecs : SendsSdp(c, kind, sdp)
  \/ \E kind \in {"422", "illegal"} : Refuses(c, kind)
  \/ \E sdp \in Codecs \cup {NoSdp} : Answers(c, sdp)

Next ==
  \/ \E c \in Calls :
       \/ Start(c) \/ CallThread(c) \/ ReadsOf(c) \/ RtpArrives(c) \/ WatchThread(c)
       \/ Callee(c) \/ GivesUp(c)
  \/ HangUp \/ Looper \/ FinishFinal
  \/ Break \/ DropConnection \/ NetworkLost \/ Connected

Spec == Init /\ [][Next]_vars

\* Threads that have begun go on, the looper runs what is posted, the reader reads what has
\* come, a broken connection is replaced, and a callee that has the INVITE gives up in the end.
FairSpec ==
  /\ Spec /\ WF_vars(Looper) /\ WF_vars(FinishFinal) /\ WF_vars(Connected)
  /\ WF_vars(link = "broken" /\ DropConnection)
  /\ \A c \in Calls : /\ WF_vars(CallThread(c)) /\ WF_vars(ReadsOf(c)) /\ WF_vars(WatchThread(c))
                      /\ WF_vars(GivesUp(c))

-----------------------------------------------------------------------------
(* Properties *)

\* callSessionInitiated for a session means that the 2xx of its own call was acknowledged: early
\* media does not count, nor does the RTP or a late answer of an earlier call. Only a call begun
\* before the last one was cleared away may take over the answer of that one.
ConnectedIsAnswered ==
  \A c \in Calls : session[c] = "connected" =>
    c \in acked \/ (c \in redials /\ \E d \in acked : d < c)

\* A call whose session has ended does not stay behind as current call or pending INVITE,
\* where it would keep the program busy (the comment in sendCancelForPendingOutgoingInvite),
\* unless a reconnect cut into it, or it was begun before the last one was cleared away: then
\* the end of that one may end its session.
EndedIsGone ==
  \A c \in Calls :
    <>[](session[c] = "ended" /\ c \notin cut \cup redials => current # c /\ pending # c)

\* A call answered without SDP whose session has its Call-ID is reported as connected or as
\* ended, unless something else has cut it off.
AnswerSettles ==
  \A c \in Calls :
    watch[c] = "sleeps" /\ owner = c /\ sipId = c
      ~> session[c] \in {"connected", "ended"} \/ c \in cut

\* Once the handler of the 2xx is done, a live call is started or stopped: "callStarted.set(true):
\* encode thread exits silence loop, AudioRecord opens (mic live)" (SipHandler.kt:4554). A final
\* answer with another codec than the 183 clears callStarted after that.
ConfirmedIsStarted ==
  \A c \in Calls :
    session[c] \in Live /\ owner = c /\ current = c /\ c \in acked /\ reader = NoAnswer
      => started \/ stopped
=============================================================================
