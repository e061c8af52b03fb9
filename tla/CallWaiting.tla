------------------------------ MODULE CallWaiting ------------------------------
(***************************************************************************)
(* Call waiting, hold, resume and swap of me.phh.sip.SipHandler: the slots  *)
(* for the current, the held, the swapped and the waiting call, the hold    *)
(* and resume re-INVITEs with the continuations of their answers, and the   *)
(* call sessions of PhhMmTelFeature that ask for them.                      *)
(*                                                                         *)
(* One call is established at the start; others arrive. Steps end where the *)
(* code writes to a socket: between the look at a slot, the response that   *)
(* is written and the store that follows it, between the ACK of a 2xx and   *)
(* what its callback does, and before that callback is removed, anything    *)
(* else may happen. The thread of a hold or resume request runs as one step *)
(* up to the write of its re-INVITE, a hang-up with the write of its BYE.   *)
(* Peers may refuse any re-INVITE. Socket failures end in a reconnect, which *)
(* clears every slot, and are left to the other modules, as is the set-up   *)
(* of a plain incoming call, merged here.                                   *)
(***************************************************************************)
EXTENDS Naturals, Sequences

CONSTANTS
  Calls,     \* Call-IDs
  First,     \* the one that is established at the start
  NoCall,
  MaxInputs  \* bound: requests of the framework, INVITEs, CANCELs and BYEs of the peers

ASSUME CallAssumption == NoCall \notin Calls /\ First \in Calls
ASSUME InputAssumption == MaxInputs \in Nat

VARIABLES
  remote,    \* the dialog as the peer sees it
  local,     \* our last final response, or our BYE
  onHold,    \* calls whose peer has accepted a hold re-INVITE last
  current,   \* currentCall
  held,      \* heldForegroundCall
  swapped,   \* pendingSwapHeldActiveCall
  waiting,   \* pendingWaitingInvite
  playing,   \* the call that callStarted has been set for, NoCall when it is not set
  finalSent, \* incomingFinalResponseSent
  hangup,    \* incomingHangupAfterAck
  callback,  \* response callback of a call's last re-INVITE
  wire,      \* re-INVITEs of a call that have no final response yet
  answering, \* the final response in the hands of the reader
  crossed,   \* history: calls with a re-INVITE sent before the last one was dealt with
  lost,      \* history: sessions whose request has lost its callback
  resumed,   \* history: calls the code has resumed by itself since they were last held
  kind,      \* how the call began
  session,   \* the framework's ImsCallSession
  request,   \* the hold or resume the framework has asked of the session
  task,      \* thread of an accept or a reject
  refusal,   \* a local refusal that has been written: what it will clear
  cancel,    \* a CANCEL in the hands of a reader: what it will answer or clear
  inputs     \* counts these

dialogs   == <<remote, local, onHold>>
slots     == <<current, held, swapped, waiting>>
flags     == <<playing, finalSent, hangup>>
history   == <<crossed, lost, resumed>>
reinvites == <<callback, wire, answering, history>>
framework == <<session, request>>
threads   == <<task, refusal, cancel>>
vars == <<dialogs, slots, flags, reinvites, kind, framework, threads, inputs>>

Slot == Calls \cup {NoCall}
Callbacks ==
  [op : {"none", "hold", "resume", "resumeCurrent"},
   then : {"report", "move", "swap", "swapBack", "swapHeld", "auto"},
   other : Slot]
NoCallback == [op |-> "none", then |-> "report", other |-> NoCall]

\* A callback that has run has still to be removed.
Responses == [call : Slot, run : Callbacks, ok : BOOLEAN]
NoResponse == [call |-> NoCall, run |-> NoCallback, ok |-> FALSE]

TypeOK ==
  /\ remote \in [Calls -> {"new", "ringing", "cancelling", "up", "over"}]
  /\ local \in [Calls -> {"none", "ok", "refused", "bye"}]
  /\ onHold \subseteq Calls
  /\ current \in Slot /\ held \in Slot /\ swapped \in Slot /\ waiting \in Slot
  /\ playing \in Slot /\ finalSent \in BOOLEAN /\ hangup \in BOOLEAN
  /\ callback \in [Calls -> Callbacks]
  /\ wire \in [Calls -> Seq({"hold", "resume"})]
  /\ answering \in Responses
  /\ crossed \subseteq Calls /\ lost \subseteq Slot /\ resumed \subseteq Calls
  /\ kind \in [Calls -> {"unknown", "outgoing", "plain", "waiting"}]
  /\ session \in [Calls -> {"none", "incoming", "active", "held", "ended"}]
  /\ request \in [Calls -> {"none", "hold", "resume", "sent"}]
  /\ task \in [Calls -> {"none", "accept", "prepare", "answer", "reject"}]
  /\ refusal \in [Calls -> {"none", "waiting", "current"}]
  /\ cancel \in [Calls -> {"none", "answerWaiting", "answerCurrent", "waiting", "current"}]
  /\ inputs \in 0 .. MaxInputs

Init ==
  \E k \in {"outgoing", "plain"} :
    /\ remote = [c \in Calls |-> IF c = First THEN "up" ELSE "new"]
    /\ local = [c \in Calls |-> IF c = First THEN "ok" ELSE "none"]
    /\ onHold = {}
    /\ current = First /\ held = NoCall /\ swapped = NoCall /\ waiting = NoCall
    /\ playing = First /\ finalSent = (k = "plain") /\ hangup = FALSE
    /\ callback = [c \in Calls |-> NoCallback]
    /\ wire = [c \in Calls |-> << >>]
    /\ answering = NoResponse
    /\ crossed = {} /\ lost = {} /\ resumed = {}
    /\ kind = [c \in Calls |-> IF c = First THEN k ELSE "unknown"]
    /\ session = [c \in Calls |-> IF c = First THEN "active" ELSE "none"]
    /\ request = [c \in Calls |-> "none"]
    /\ task = [c \in Calls |-> "none"]
    /\ refusal = [c \in Calls |-> "none"]
    /\ cancel = [c \in Calls |-> "none"]
    /\ inputs = 0

-----------------------------------------------------------------------------
(* Parts of handlers *)

Input == inputs < MaxInputs /\ inputs' = inputs + 1

started == playing # NoCall

\* onCancelledCall: the session is over, and what it waits for with it. A thread that has
\* not run yet still runs.
EndSession(c) ==
  /\ session' = [session EXCEPT ![c] = IF @ = "none" THEN @ ELSE "ended"]
  /\ request' = [request EXCEPT ![c] = IF @ = "sent" THEN "none" ELSE @]

\* onComplete of a hold or resume request of session c, which leaves it in state s. A
\* session that is over has no listener any more.
Report(c, s) ==
  /\ session' = [session EXCEPT ![c] = IF @ \in {"active", "held"} THEN s ELSE @]
  /\ request' = [request EXCEPT ![c] = IF @ = "sent" THEN "none" ELSE @]

\* The thread of a request finds nothing to do, and says so where it has a callback.
RequestFails(c) == request' = [request EXCEPT ![c] = "none"]

RequestSent(c) ==
  request' = [request EXCEPT ![c] = IF session[c] = "ended" THEN "none" ELSE "sent"]

\* The session that the callback of a re-INVITE of call c reports to.
Reports(c, cb) ==
  IF cb.op = "none" \/ cb.then = "auto" THEN {}
  ELSE {IF cb.then = "swap" THEN cb.other ELSE c}

\* The response callback of a Call-ID replaces the one of an earlier re-INVITE. While a
\* response of this call is being handled, it will be removed with the one that runs.
Send(c, op, then, other) ==
  LET new == [op |-> op, then |-> then, other |-> other]
      replaced == IF answering.call = c THEN {} ELSE Reports(c, callback[c])
      doomed == IF answering.call = c THEN Reports(c, new) ELSE {}
  IN /\ callback' = [callback EXCEPT ![c] = new]
     /\ wire' = [wire EXCEPT ![c] = Append(@, IF op = "hold" THEN "hold" ELSE "resume")]
     /\ crossed' = IF wire[c] # << >> \/ answering.call = c THEN crossed \cup {c} ELSE crossed
     /\ lost' = ((lost \cup replaced) \ Reports(c, new)) \cup doomed
     /\ resumed' = IF then = "auto" THEN resumed \cup {c} ELSE resumed

Refuse(c) == local' = [local EXCEPT ![c] = IF @ = "none" THEN "refused" ELSE @]

\* stopCallRuntime: the waiting INVITE goes too, and nobody is told.
StopRuntime == playing' = NoCall /\ waiting' = NoCall

\* clearPendingWaitingInvite
ClearWaiting(c) == waiting' = IF waiting = c THEN NoCall ELSE waiting

-----------------------------------------------------------------------------
(* The framework: holds before it answers or resumes another call, waits for the answer to
   a request, and keeps at most two calls. It knows nothing of the code's own resumes. *)

Quiet == \A c \in Calls : request[c] = "none"
NoneActive == \A c \in Calls : session[c] # "active"

Ask(c) ==
  /\ Input
  /\ UNCHANGED <<dialogs, slots, flags, reinvites, kind, refusal, cancel>>

AskHold(c) ==
  /\ Quiet /\ session[c] = "active"
  /\ request' = [request EXCEPT ![c] = "hold"]
  /\ Ask(c) /\ UNCHANGED <<session, task>>

AskResume(c) ==
  /\ Quiet /\ NoneActive /\ session[c] = "held"
  /\ request' = [request EXCEPT ![c] = "resume"]
  /\ Ask(c) /\ UNCHANGED <<session, task>>

\* The session is active for the framework as soon as the thread is started.
AskAccept(c) ==
  /\ Quiet /\ NoneActive /\ session[c] = "incoming" /\ task[c] = "none"
  /\ \A d, e \in Calls : session[d] = "held" /\ session[e] = "held" => d = e
  /\ session' = [session EXCEPT ![c] = "active"]
  /\ task' = [task EXCEPT ![c] = "accept"]
  /\ Ask(c) /\ UNCHANGED request

AskReject(c) ==
  /\ session[c] = "incoming" /\ task[c] = "none" /\ refusal[c] = "none"
  /\ task' = [task EXCEPT ![c] = "reject"]
  /\ Ask(c) /\ UNCHANGED <<session, request>>

-----------------------------------------------------------------------------
(* Threads of requests *)

\* holdForegroundCallForWaiting
RunHold(c) ==
  /\ request[c] = "hold"
  /\ \/ current # c /\ RequestFails(c) /\ UNCHANGED reinvites
     \/ /\ current = c /\ RequestSent(c)
        /\ Send(c, "hold", IF held # NoCall /\ waiting = NoCall THEN "move" ELSE "report",
                NoCall)
        /\ UNCHANGED answering
  /\ UNCHANGED <<dialogs, slots, flags, kind, session, threads, inputs>>

\* resumeHeldForegroundCallForWaiting
ResumeSends(c) ==
  /\ RequestSent(c)
  /\ \/ held = NoCall /\ current = c /\ Send(c, "resumeCurrent", "report", NoCall)
     \/ held = c /\ swapped # NoCall /\ Send(c, "resume", "swapHeld", swapped)
     \/ /\ held = c /\ swapped = NoCall /\ current \notin {c, NoCall}
        /\ Send(current, "hold", "swap", c)
     \/ /\ held = c /\ swapped = NoCall /\ current \in {c, NoCall}
        /\ Send(c, "resume", "report", NoCall)
  /\ UNCHANGED answering

RunResume(c) ==
  /\ request[c] = "resume"
  /\ \/ held # c /\ (held # NoCall \/ current # c) /\ RequestFails(c) /\ UNCHANGED reinvites
     \/ ResumeSends(c)
  /\ UNCHANGED <<dialogs, slots, flags, kind, session, threads, inputs>>

\* acceptPendingWaitingInvite: the current call, if any, goes to the held slot.
AcceptWaiting(c) ==
  /\ waiting = c /\ waiting' = NoCall
  /\ held' = IF current \in {c, NoCall} THEN held ELSE current
  /\ current' = c
  /\ playing' = NoCall /\ finalSent' = FALSE /\ hangup' = FALSE
  /\ task' = [task EXCEPT ![c] = "prepare"]
  /\ UNCHANGED <<swapped, local, refusal>>

\* Not the waiting call, but the current one.
AcceptPlain(c) ==
  /\ waiting # c /\ current = c
  /\ task' = [task EXCEPT ![c] = "prepare"]
  /\ UNCHANGED <<slots, flags, local, refusal>>

\* The call was cancelled, hung up or dropped before the thread ran.
AcceptFindsNothing(c) ==
  /\ waiting # c /\ current # c
  /\ task' = [task EXCEPT ![c] = "none"]
  /\ UNCHANGED <<slots, flags, local, refusal>>

\* rejectPendingWaitingInvite, up to the write of the response. A second refusal of the same
\* INVITE would do nothing new.
RefuseWaiting(c) ==
  /\ waiting = c /\ refusal[c] = "none"
  /\ Refuse(c)
  /\ refusal' = [refusal EXCEPT ![c] = "waiting"]
  /\ UNCHANGED <<slots, flags>>

\* A waiting INVITE whose media could not be prepared is refused after all.
AcceptUnprepared(c) == RefuseWaiting(c) /\ task' = [task EXCEPT ![c] = "none"]

RunAccept(c) ==
  /\ task[c] = "accept"
  /\ AcceptWaiting(c) \/ AcceptPlain(c) \/ AcceptFindsNothing(c) \/ AcceptUnprepared(c)
  /\ UNCHANGED <<remote, onHold, reinvites, kind, framework, cancel, inputs>>

\* The copy with the final SDP becomes the current call, whatever is there by now: always
\* for a waiting call, for a plain one when its SDP has changed.
PrepareAnswer(c) ==
  /\ task[c] = "prepare" /\ task' = [task EXCEPT ![c] = "answer"]
  /\ \/ current' = c
     \/ kind[c] = "plain" /\ UNCHANGED current
  /\ finalSent' = TRUE
  /\ UNCHANGED <<dialogs, held, swapped, waiting, playing, hangup, reinvites, kind, framework,
                 refusal, cancel, inputs>>

WriteAnswer(c) ==
  /\ task[c] = "answer" /\ task' = [task EXCEPT ![c] = "none"]
  /\ local' = [local EXCEPT ![c] = IF @ = "none" THEN "ok" ELSE @]
  /\ finalSent' = TRUE /\ hangup' = FALSE
  /\ UNCHANGED <<remote, onHold, slots, playing, reinvites, kind, framework, refusal,
                 cancel, inputs>>

\* A plain call is rejected as the current one.
RefusePlain(c) ==
  /\ waiting # c /\ current = c
  /\ Refuse(c)
  /\ refusal' = [refusal EXCEPT ![c] = "current"]
  /\ UNCHANGED <<slots, flags>>

RejectFindsNothing(c) ==
  waiting # c /\ current # c /\ UNCHANGED <<local, slots, flags, refusal>>

RunReject(c) ==
  /\ task[c] = "reject" /\ task' = [task EXCEPT ![c] = "none"]
  /\ RefuseWaiting(c) \/ RefusePlain(c) \/ RejectFindsNothing(c)
  /\ UNCHANGED <<remote, onHold, reinvites, kind, framework, cancel, inputs>>

\* What follows the write of a refusal. That of a plain call takes the current call of this
\* moment away, and the waiting one.
RefusalEnds(c) ==
  /\ refusal' = [refusal EXCEPT ![c] = "none"] /\ EndSession(c)
  /\ \/ refusal[c] = "waiting" /\ ClearWaiting(c) /\ UNCHANGED <<current, flags>>
     \/ /\ refusal[c] = "current" /\ current' = NoCall
        /\ StopRuntime /\ finalSent' = FALSE /\ hangup' = FALSE
  /\ UNCHANGED <<dialogs, held, swapped, reinvites, kind, task, cancel, inputs>>

-----------------------------------------------------------------------------
(* terminateCall. A plain incoming session ends whatever becomes of the dialog, the others
   when onCancelledCall names them. *)

WriteBye(c) == local' = [local EXCEPT ![c] = "bye"]

TerminateWaiting(c) == RefuseWaiting(c) /\ UNCHANGED framework

TerminateHeld(c) ==
  /\ waiting # c /\ held = c
  /\ WriteBye(c) /\ EndSession(c)
  /\ held' = NoCall
  /\ UNCHANGED <<current, swapped, waiting, flags, refusal>>

\* Neither held nor current: only a warning in the log.
TerminateUnknown(c) ==
  /\ c \notin {waiting, held, current}
  /\ IF kind[c] = "plain" THEN EndSession(c) ELSE UNCHANGED framework
  /\ UNCHANGED <<local, slots, flags, refusal>>

\* Taken for an answered call without ACK, whose BYE is left to handleAck.
TerminateUnstarted(c) ==
  /\ c \notin {waiting, held} /\ current = c
  /\ kind[c] # "outgoing" /\ finalSent /\ ~started
  /\ hangup' = TRUE /\ EndSession(c)
  /\ UNCHANGED <<local, slots, playing, finalSent, refusal>>

\* An outgoing call stays current until its BYE is answered or four seconds are over.
TerminateCurrent(c) ==
  /\ c \notin {waiting, held} /\ current = c
  /\ kind[c] = "outgoing" \/ ~finalSent \/ started
  /\ WriteBye(c) /\ EndSession(c)
  /\ current' = IF kind[c] = "outgoing" THEN c ELSE NoCall
  /\ hangup' = FALSE
  /\ UNCHANGED <<held, swapped, waiting, playing, finalSent, refusal>>

HangUp(c) ==
  /\ session[c] \in {"active", "held"} /\ Input
  /\ \/ TerminateWaiting(c) \/ TerminateHeld(c) \/ TerminateUnknown(c)
     \/ TerminateUnstarted(c) \/ TerminateCurrent(c)
  /\ UNCHANGED <<remote, onHold, reinvites, kind, task, cancel>>

OutgoingByeDone(c) ==
  /\ kind[c] = "outgoing" /\ local[c] = "bye" /\ current = c
  /\ current' = NoCall
  /\ UNCHANGED <<dialogs, held, swapped, waiting, flags, reinvites, kind, framework,
                 threads, inputs>>

-----------------------------------------------------------------------------
(* Requests of the peers: handleCall, handleAck, handleCancel *)

\* Busy for the code: a carrier's waiting INVITE is exposed, any other one refused.
InviteWaits(c) ==
  /\ current # NoCall /\ waiting = NoCall
  /\ waiting' = c
  /\ kind' = [kind EXCEPT ![c] = "waiting"]
  /\ session' = [session EXCEPT ![c] = "incoming"]
  /\ UNCHANGED <<local, current, held, swapped, flags>>

InviteBusy(c) ==
  /\ current # NoCall
  /\ Refuse(c)
  /\ UNCHANGED <<slots, flags, kind, session>>

\* Without a current call an INVITE is a plain one, set up as if there were no other.
InvitePlain(c) ==
  /\ current = NoCall
  /\ playing' = NoCall /\ finalSent' = FALSE /\ hangup' = FALSE
  /\ current' = c
  /\ kind' = [kind EXCEPT ![c] = "plain"]
  /\ session' = [session EXCEPT ![c] = "incoming"]
  /\ UNCHANGED <<local, held, swapped, waiting>>

Invite(c) ==
  /\ remote[c] = "new" /\ remote' = [remote EXCEPT ![c] = "ringing"]
  /\ Input
  /\ InviteWaits(c) \/ InviteBusy(c) \/ InvitePlain(c)
  /\ UNCHANGED <<onHold, reinvites, request, threads>>

Ack(c) ==
  /\ remote[c] \in {"ringing", "cancelling"} /\ local[c] = "ok"
  /\ remote' = [remote EXCEPT ![c] = "up"]
  /\ \/ current # c /\ UNCHANGED <<local, current, playing, hangup>>
     \/ /\ current = c /\ playing' = c /\ hangup' = FALSE
        /\ IF hangup THEN WriteBye(c) /\ current' = NoCall ELSE UNCHANGED <<local, current>>
  /\ UNCHANGED <<onHold, held, swapped, waiting, finalSent, reinvites, kind, framework,
                 threads, inputs>>

\* A final response, be it another call's, makes the CANCEL a late one; without any the
\* runtime is stopped before the CANCEL is answered.
Cancel(c) ==
  /\ remote[c] = "ringing" /\ local[c] # "refused" /\ Input
  /\ remote' = [remote EXCEPT ![c] = "cancelling"]
  /\ \/ /\ waiting = c /\ cancel' = [cancel EXCEPT ![c] = "answerWaiting"]
        /\ UNCHANGED <<waiting, playing>>
     \/ waiting # c /\ finalSent /\ UNCHANGED <<waiting, playing, cancel>>
     \/ /\ waiting # c /\ ~finalSent
        /\ StopRuntime /\ cancel' = [cancel EXCEPT ![c] = "answerCurrent"]
  /\ UNCHANGED <<local, onHold, current, held, swapped, finalSent, hangup, reinvites, kind,
                 framework, task, refusal>>

\* The 200 of the CANCEL and the 487 of the INVITE are written.
CancelAnswers(c) ==
  /\ Refuse(c)
  /\ \/ cancel[c] = "answerWaiting" /\ cancel' = [cancel EXCEPT ![c] = "waiting"]
     \/ cancel[c] = "answerCurrent" /\ cancel' = [cancel EXCEPT ![c] = "current"]
  /\ UNCHANGED <<remote, onHold, slots, flags, reinvites, kind, framework, task, refusal,
                 inputs>>

\* handlePendingWaitingCancel clears the slot of its own call, handleRemoteCancelTransaction
\* the current call, whichever it is by now.
CancelClears(c) ==
  /\ cancel[c] \in {"waiting", "current"} /\ cancel' = [cancel EXCEPT ![c] = "none"]
  /\ EndSession(c)
  /\ \/ cancel[c] = "waiting" /\ ClearWaiting(c) /\ UNCHANGED current
     \/ cancel[c] = "current" /\ current' = NoCall /\ UNCHANGED waiting
  /\ UNCHANGED <<dialogs, held, swapped, flags, reinvites, kind, task, refusal, inputs>>

\* handleHeldForegroundDialogTermination
ByeHeld(c) ==
  /\ held = c /\ held' = NoCall
  /\ UNCHANGED <<current, swapped, waiting, playing, reinvites>>

\* handleRemoteDialogTerminationAfterCleanup: the current call goes, whichever it is, and
\* the held one is resumed.
ByeOther(c) ==
  /\ held # c
  /\ StopRuntime /\ current' = NoCall
  /\ IF current # NoCall /\ held # NoCall
       THEN swapped' = NoCall /\ Send(held, "resume", "auto", NoCall) /\ UNCHANGED answering
       ELSE UNCHANGED <<swapped, reinvites>>
  /\ UNCHANGED held

Bye(c) ==
  /\ remote[c] = "up" /\ Input
  /\ remote' = [remote EXCEPT ![c] = "over"]
  /\ ByeHeld(c) \/ ByeOther(c)
  /\ EndSession(c)
  /\ UNCHANGED <<local, onHold, finalSent, hangup, kind, threads>>

\* The peer gets our BYE.
PeerLearns(c) ==
  /\ remote[c] # "over" /\ local[c] = "bye"
  /\ remote' = [remote EXCEPT ![c] = "over"]
  /\ UNCHANGED <<local, onHold, slots, flags, reinvites, kind, framework, threads, inputs>>

-----------------------------------------------------------------------------
(* Final responses to re-INVITEs, one at a time: one reader of the main flow *)

\* The callback of this moment is taken, whichever re-INVITE it was made for; a response
\* after the callback has been used up or removed reaches nobody. That of a 2xx writes the
\* ACK first.
TakesResponse(c, ok) ==
  /\ answering = NoResponse /\ wire[c] # << >>
  /\ ok => remote[c] \in {"up", "over"}
  /\ wire' = [wire EXCEPT ![c] = Tail(@)]
  /\ \/ ~ok /\ UNCHANGED <<onHold, resumed>>
     \/ ok /\ Head(wire[c]) = "hold" /\ onHold' = onHold \cup {c} /\ resumed' = resumed \ {c}
     \/ ok /\ Head(wire[c]) = "resume" /\ onHold' = onHold \ {c} /\ UNCHANGED resumed
  /\ answering' = IF callback[c].op = "none" THEN NoResponse
                  ELSE [call |-> c, run |-> callback[c], ok |-> ok]
  /\ UNCHANGED <<remote, local, slots, flags, callback, crossed, lost, kind, framework,
                 threads, inputs>>

Running(op) == answering.run.op = op
HasRun == answering' = [call |-> answering.call, run |-> NoCallback, ok |-> FALSE]
NothingSent == UNCHANGED <<callback, wire, history>>

\* Mutant: the media threads run on.
PauseKeepsMedia(c) == UNCHANGED playing

\* pauseCurrentCallMediaForLocalHold
Pause(c) == IF current = c THEN playing' = NoCall ELSE UNCHANGED playing

HoldReported(c) ==
  /\ Running("hold") /\ answering.ok /\ answering.run.then = "report"
  /\ Pause(c)
  /\ Report(c, "held")
  /\ NothingSent /\ UNCHANGED slots

\* The held call of a swap leaves the current slot before the other one is resumed.
HoldMoves(c) ==
  /\ Running("hold") /\ answering.ok /\ answering.run.then = "move"
  /\ Pause(c)
  /\ IF current = c THEN current' = NoCall /\ swapped' = c
                    ELSE UNCHANGED <<current, swapped>>
  /\ Report(c, "held")
  /\ NothingSent /\ UNCHANGED <<held, waiting>>

\* swapActiveAndHeldForegroundForWaiting: the next re-INVITE of the swap.
HoldGoesOn(c) ==
  /\ Running("hold") /\ answering.ok /\ answering.run.then = "swap"
  /\ playing' = NoCall
  /\ current' = IF current = c THEN NoCall ELSE current
  /\ Send(answering.run.other, "resume", "swapBack", c)
  /\ UNCHANGED <<held, swapped, waiting, session, request>>

\* Mutant: a refused hold is not reported.
HoldRefusedSilently(c) ==
  /\ Running("hold") /\ ~answering.ok
  /\ NothingSent /\ UNCHANGED <<slots, playing, session, request>>

\* Mutant: any final response completes a hold.
RefusalHolds(c) ==
  /\ Running("hold") /\ ~answering.ok
  /\ Report(c, "held")
  /\ NothingSent /\ UNCHANGED <<slots, playing>>

HoldRefused(c) ==
  /\ Running("hold") /\ ~answering.ok
  /\ RequestFails(IF answering.run.then = "swap" THEN answering.run.other ELSE c)
  /\ NothingSent /\ UNCHANGED <<slots, playing, session>>

\* Mutant: the resumed call stays in the held slot.
ResumeKeepsHeld(c) ==
  /\ Running("resume") /\ answering.ok
  /\ playing' = c /\ current' = c
  /\ held' = IF answering.run.then \in {"swapBack", "swapHeld"} THEN answering.run.other
             ELSE held
  /\ swapped' = IF answering.run.then = "swapHeld" THEN NoCall ELSE swapped
  /\ Report(c, "active")
  /\ NothingSent /\ UNCHANGED waiting

\* The resumed call leaves the held slot and becomes current, the call it is swapped with
\* takes its place.
ResumeAccepted(c) ==
  /\ Running("resume") /\ answering.ok
  /\ playing' = c /\ current' = c
  /\ held' = IF answering.run.then \in {"swapBack", "swapHeld"} THEN answering.run.other
             ELSE IF held = c THEN NoCall ELSE held
  /\ swapped' = IF answering.run.then = "swapHeld" THEN NoCall ELSE swapped
  /\ Report(c, "active")
  /\ NothingSent /\ UNCHANGED waiting

\* Mutant: slots are restored and the framework is not told.
ResumeRefusedSilently(c) ==
  /\ Running("resume") /\ ~answering.ok
  /\ current' = IF answering.run.then \in {"swapBack", "swapHeld"} THEN answering.run.other
                ELSE current
  /\ held' = IF answering.run.then = "swapBack" THEN c ELSE held
  /\ swapped' = IF answering.run.then = "swapHeld" THEN NoCall ELSE swapped
  /\ NothingSent /\ UNCHANGED <<waiting, playing, session, request>>

\* The call that was to be swapped becomes current again, on hold.
ResumeRefused(c) ==
  /\ Running("resume") /\ ~answering.ok
  /\ current' = IF answering.run.then \in {"swapBack", "swapHeld"} THEN answering.run.other
                ELSE current
  /\ held' = IF answering.run.then = "swapBack" THEN c ELSE held
  /\ swapped' = IF answering.run.then = "swapHeld" THEN NoCall ELSE swapped
  /\ IF answering.run.then = "auto" THEN UNCHANGED request ELSE RequestFails(c)
  /\ NothingSent /\ UNCHANGED <<waiting, playing, session>>

CurrentResumed(c) ==
  /\ Running("resumeCurrent") /\ answering.ok
  /\ playing' = c /\ current' = c
  /\ Report(c, "active")
  /\ NothingSent /\ UNCHANGED <<held, swapped, waiting>>

CurrentNotResumed(c) ==
  /\ Running("resumeCurrent") /\ ~answering.ok
  /\ RequestFails(c)
  /\ NothingSent /\ UNCHANGED <<slots, playing, session>>

CallbackRuns(c) ==
  /\ answering.call = c /\ HasRun
  /\ \/ HoldReported(c) \/ HoldMoves(c) \/ HoldGoesOn(c) \/ HoldRefused(c)
     \/ ResumeAccepted(c) \/ ResumeRefused(c) \/ CurrentResumed(c) \/ CurrentNotResumed(c)
  /\ UNCHANGED <<dialogs, finalSent, hangup, kind, threads, inputs>>

\* What stands under the Call-ID is removed, be it a newer one.
CallbackRemoved(c) ==
  /\ answering.call = c /\ Running("none") /\ answering' = NoResponse
  /\ callback' = [callback EXCEPT ![c] = NoCallback]
  /\ UNCHANGED <<dialogs, slots, flags, wire, history, kind, framework, threads, inputs>>

Response(c) ==
  \/ \E ok \in BOOLEAN : TakesResponse(c, ok)
  \/ CallbackRuns(c) \/ CallbackRemoved(c)

-----------------------------------------------------------------------------
Framework(c) == AskHold(c) \/ AskResume(c) \/ AskAccept(c) \/ AskReject(c) \/ HangUp(c)
Run(c) == RunHold(c) \/ RunResume(c)
RunTask(c) == RunAccept(c) \/ PrepareAnswer(c) \/ WriteAnswer(c) \/ RunReject(c)
Peer(c) == Invite(c) \/ Ack(c) \/ Cancel(c) \/ Bye(c) \/ PeerLearns(c)
Reader(c) == CancelAnswers(c) \/ CancelClears(c)

Next ==
  \E c \in Calls :
    \/ Framework(c) \/ Run(c) \/ RunTask(c) \/ RefusalEnds(c) \/ OutgoingByeDone(c)
    \/ Peer(c) \/ Reader(c) \/ Response(c)

Spec == Init /\ [][Next]_vars

\* Started threads run, posted tasks are executed, readers go on, and peers send a final
\* response to every re-INVITE: the code itself has no timer for one.
Fairness ==
  \A c \in Calls :
    /\ WF_vars(Run(c)) /\ WF_vars(RunTask(c)) /\ WF_vars(RefusalEnds(c))
    /\ WF_vars(Reader(c)) /\ WF_vars(Response(c)) /\ WF_vars(OutgoingByeDone(c))

FairSpec == Spec /\ Fairness

-----------------------------------------------------------------------------
(* Properties *)

Filled == {s \in {<<1, current>>, <<2, held>>, <<3, swapped>>, <<4, waiting>>} : s[2] # NoCall}

\* A call whose session lives is in one slot at most, whatever becomes of a hold, a resume or
\* a swap, of a CANCEL, a BYE or a hang-up in the middle of it: every continuation of an answer
\* moves its call on (6840-6842, 7113-7117, 7204, 7215, 7289).
SlotsDistinct ==
  \A s, t \in Filled :
    s[2] = t[2] /\ session[s[2]] \in {"active", "held"} => s = t

Talking(c) == remote[c] = "up" /\ session[c] \in {"active", "held"} /\ c \notin onHold

\* At most one peer has an answered dialog that is not on hold: another call is answered or
\* resumed only when the first has accepted its hold, or is over (6840, 7170-7202). The code
\* itself breaks this when it resumes the held call after a BYE while the user takes another
\* one (3247): calls it has resumed by itself are excepted until they are held again.
OneTalks ==
  \A c, d \in Calls : Talking(c) /\ Talking(d) => c = d \/ c \in resumed \/ d \in resumed

\* No audio runs for a current call whose peer has been put on hold: whoever handles the 2xx
\* of the hold stops the media first, also of a swap (6675-6696, 7186-7189). Excepted are the
\* moment between the 2xx and its callback, and dialogs in which a re-INVITE was sent before
\* the last one had been dealt with: an answer may then meet the wrong callback, or none.
HeldIsSilent ==
  \A c \in Calls :
    playing = c /\ current = c /\ session[c] \in {"active", "held"} /\ c \in onHold
      => remote[c] = "over" \/ answering.call = c \/ c \in crossed

\* A call that the user sees on hold plays no audio that was started for it while its peer is
\* there. A refused swap makes such a call current again, and an automatic resume may be
\* answered at the same time (6840-6863, 7204, 7215, 7289).
HeldNotPlaying ==
  \A c \in Calls :
    playing = c /\ current = c /\ session[c] = "held" => remote[c] = "over"

Owed(c) ==
  \E d \in Calls :
    \/ answering.call = d /\ c \in Reports(d, answering.run)
    \/ answering.call # d /\ wire[d] # << >> /\ c \in Reports(d, callback[d])

\* A hold or resume that waits for its outcome will be reported by a callback that stands under
\* an unanswered re-INVITE or is running, through every swap and refusal, unless a later
\* re-INVITE or the late removal of an earlier callback has taken it away (6756-6790,
\* 7093-7132, 7160-7331, SipDispatcher 170-194).
AnswerIsOwed == \A c \in Calls : request[c] = "sent" => Owed(c) \/ c \in lost

\* Whoever asks for a hold or a resume is told the outcome, or its call ends, unless a later
\* re-INVITE of the dialog or the late removal of an earlier callback takes the callback away:
\* every path of the requests and of the answers calls onComplete (6811-6863, 6768-6790,
\* 7240-7331). It needs peers that answer: the code sets no timer for a re-INVITE.
RequestAnswered ==
  \A c \in Calls : request[c] \in {"hold", "resume"} ~> (request[c] = "none" \/ c \in lost)

\* Hanging up a call whose peer has sent its ACK writes a BYE (4473). The code does not do
\* so for an answered call on hold: its cleared callStarted reads as "no ACK yet" (4460).
HangUpReachesPeer ==
  [][\A c \in Calls : HangUp(c) /\ remote[c] = "up" => local'[c] = "bye"]_vars
=============================================================================
