------------------------------ MODULE IncomingCall ------------------------------
(***************************************************************************)
(* Incoming calls of me.phh.sip.SipHandler: the readers that handle INVITE,  *)
(* CANCEL, ACK, BYE and UPDATE, the set-up, accept, reject and 2xx-resending *)
(* threads of each call, and the hang-up on the main looper, all of them    *)
(* sharing one currentCall and one set of flags.                            *)
(*                                                                         *)
(* Threads interleave where they block (a socket write, a sleep, a binder   *)
(* call), where the code re-checks what it has read, and between a look at   *)
(* currentCall and the store of a copy of it. Plain INVITEs only: carrier   *)
(* call waiting, hold and outgoing calls are not part of this module, nor   *)
(* is the wait for PRACK.                                                   *)
(***************************************************************************)
EXTENDS Naturals

CONSTANTS
  Calls,       \* Call-IDs
  NoCall,
  Kinds,       \* the repeatable or failing events this instance allows
  MaxInputs    \* bound on those events

ASSUME CallAssumption == NoCall \notin Calls
ASSUME InputsAssumption == MaxInputs \in Nat

VARIABLES
  remote,          \* what the caller has done
  answer,          \* final response to the INVITE that was written
  bye,             \* calls whose BYE we have written
  current,         \* currentCall
  terminated,      \* terminatedIncomingCallIds, within its time to live
  finalSent,       \* incomingFinalResponseSent
  awaitingAck,     \* incomingAcceptedAwaitingAck
  hangupAfterAck,  \* incomingHangupAfterAck
  callStarted,
  setup,           \* thread of startIncomingInviteDialogSetup
  accept,          \* thread of acceptCall
  reject,          \* thread of rejectCall
  resend,          \* thread PhhIncoming2xxRetransmit
  reader,          \* what the reader of the call's flow is in the middle of
  looper,          \* the call whose BYE terminateCall has written
  session,         \* the ImsCallSession of the framework
  putBack,         \* history: calls stored in currentCall by a thread that had found them
                   \* there earlier, when they had been cleared since
  crossed,         \* history: calls whose accept was past its last look at currentCall while
                   \* their CANCEL was past its look at incomingFinalResponseSent, and calls
                   \* that were current when the failed accept of another cleared the flags
  inputs

dialog  == <<remote, answer, bye>>
flags   == <<finalSent, awaitingAck, hangupAfterAck, callStarted>>
answerers == <<accept, reject, resend>>
history == <<putBack, crossed>>
vars == <<dialog, current, terminated, flags, setup, answerers, reader, looper, session,
          history, inputs>>

Remotes == {"idle", "inviting", "cancelling", "established", "releasing", "over"}
Confirmed(c) == remote[c] \in {"established", "releasing"}

Steps == {"idle", "refuse", "clear", "refresh", "repeat", "resend", "answered", "update",
          "hangup"}

FlagsOK ==
  /\ finalSent \in BOOLEAN /\ awaitingAck \in BOOLEAN
  /\ hangupAfterAck \in BOOLEAN /\ callStarted \in BOOLEAN

TypeOK ==
  /\ remote \in [Calls -> Remotes]
  /\ answer \in [Calls -> {"none", "ok", "error"}]
  /\ bye \subseteq Calls /\ terminated \subseteq Calls
  /\ current \in Calls \cup {NoCall}
  /\ FlagsOK
  /\ setup \in [Calls -> {"none", "prepare", "recheck", "announce", "done"}]
  /\ accept \in [Calls -> {"none", "check", "guard", "looked", "answering", "written",
                           "done"}]
  /\ reject \in [Calls -> {"none", "cleanup", "done"}]
  /\ resend \in [Calls -> {"none", "sleep", "done"}]
  /\ session \in [Calls -> {"none", "announced", "ringing", "accepted", "ended"}]
  /\ reader \in [Calls -> Steps] /\ looper \in Calls \cup {NoCall}
  /\ putBack \subseteq Calls /\ crossed \subseteq Calls
  /\ inputs \in Nat

Init ==
  /\ remote = [c \in Calls |-> "idle"] /\ answer = [c \in Calls |-> "none"]
  /\ bye = {} /\ terminated = {} /\ current = NoCall
  /\ finalSent = FALSE /\ awaitingAck = FALSE /\ hangupAfterAck = FALSE
  /\ callStarted = FALSE
  /\ setup = [c \in Calls |-> "none"] /\ accept = [c \in Calls |-> "none"]
  /\ reject = [c \in Calls |-> "none"] /\ resend = [c \in Calls |-> "none"]
  /\ reader = [c \in Calls |-> "idle"] /\ looper = NoCall
  /\ session = [c \in Calls |-> "none"]
  /\ putBack = {} /\ crossed = {} /\ inputs = 0

Input(kind) == kind \in Kinds /\ inputs < MaxInputs /\ inputs' = inputs + 1

-----------------------------------------------------------------------------
(* Parts of handlers *)

Goto(thread, c, to) == thread' = [thread EXCEPT ![c] = to]

\* onCancelledCall: without a registered listener it reaches nobody.
CancelSession(c) ==
  session' = IF session[c] \in {"ringing", "accepted"}
               THEN [session EXCEPT ![c] = "ended"] ELSE session

Refuse(c) == answer' = [answer EXCEPT ![c] = IF @ = "none" THEN "error" ELSE @]

ClearAnswerFlags ==
  finalSent' = FALSE /\ awaitingAck' = FALSE /\ hangupAfterAck' = FALSE

\* resetIncomingCallStateForNewInvite
ResetForNewInvite ==
  /\ ClearAnswerFlags
  /\ callStarted' = FALSE
  /\ current' = NoCall

\* currentCall = a copy of the call that was found there.
PutBack(c) ==
  /\ current' = c
  /\ putBack' = IF current = c THEN putBack ELSE putBack \cup {c}

\* The requests of one call are handled one after the other. Those of two calls may be under
\* way at once: the main flow and each flow the server socket accepts have a reader thread.
ReaderIsFree(c) == reader[c] = "idle"

-----------------------------------------------------------------------------
(* INVITE: handleCall on the reader *)

FirstInvite(c) == remote[c] = "idle" /\ UNCHANGED inputs

\* A retransmission, once the set-up thread is through. A second set-up is left to calls
\* that were not announced before: the module has one session per Call-ID.
RepeatedInvite(c) ==
  /\ remote[c] = "inviting" /\ setup[c] \notin {"prepare", "recheck", "announce"}
  /\ current = c \/ c \in terminated \/ (answer[c] = "none" /\ session[c] = "none")
  /\ Input("duplicate")

InviteArrives(c) ==
  /\ ReaderIsFree(c)
  /\ FirstInvite(c) \/ RepeatedInvite(c)
  /\ remote' = [remote EXCEPT ![c] = "inviting"]
  /\ UNCHANGED <<bye, answerers, looper, session, history>>

\* 486 for a recently terminated Call-ID, unless it is an answered call whose hang-up
\* waits for the ACK.
Recent(c) ==
  /\ c \in terminated
  /\ ~(current = c /\ (awaitingAck \/ finalSent) /\ hangupAfterAck)

InviteAfterTermination(c) ==
  /\ InviteArrives(c) /\ Recent(c)
  /\ Refuse(c)
  /\ UNCHANGED <<current, terminated, flags, setup, reader>>

\* The call rings already. Whether it was answered is read with it.
InviteForKnownCall(c) ==
  /\ InviteArrives(c) /\ ~Recent(c) /\ current = c
  /\ Goto(reader, c, IF finalSent \/ awaitingAck \/ callStarted THEN "repeat" ELSE "refresh")
  /\ UNCHANGED <<answer, current, terminated, flags, setup>>

InviteWhileBusy(c) ==
  /\ InviteArrives(c) /\ ~Recent(c) /\ current \notin {c, NoCall}
  /\ Refuse(c)
  /\ terminated' = terminated \cup {c}
  /\ UNCHANGED <<current, flags, setup, reader>>

\* 422 for a short session interval, 404 without SDP.
InviteUnusable(c) ==
  /\ InviteArrives(c) /\ remote[c] = "idle"
  /\ Refuse(c)
  /\ UNCHANGED <<current, terminated, flags, setup, reader>>

\* 488: the state is reset before the offer is parsed.
InviteNotAcceptable(c) ==
  /\ InviteArrives(c) /\ ~Recent(c) /\ current = NoCall /\ remote[c] = "idle"
  /\ ResetForNewInvite
  /\ Refuse(c)
  /\ UNCHANGED <<terminated, setup, reader>>

\* The 180 cannot be written: the flow is lost, nobody goes on with the INVITE.
InviteCannotRing(c) ==
  /\ InviteArrives(c) /\ ~Recent(c) /\ current = NoCall /\ "writeFails" \in Kinds
  /\ ResetForNewInvite
  /\ UNCHANGED <<answer, terminated, setup, reader>>

\* 100 and 180 are written on the reader, the rest is left to a thread.
InviteStartsSetup(c) ==
  /\ InviteArrives(c) /\ ~Recent(c) /\ current = NoCall
  /\ ResetForNewInvite
  /\ Goto(setup, c, "prepare")
  /\ answer' = [answer EXCEPT ![c] = "none"]
  /\ UNCHANGED <<terminated, reader>>

Invite(c) ==
  \/ InviteAfterTermination(c) \/ InviteForKnownCall(c) \/ InviteWhileBusy(c)
  \/ InviteUnusable(c) \/ InviteNotAcceptable(c) \/ InviteCannotRing(c)
  \/ InviteStartsSetup(c)

\* The call with its new headers and writer becomes current: a copy of what was found.
DuplicateRefreshes(c) ==
  /\ reader[c] \in {"refresh", "repeat"}
  /\ PutBack(c)
  /\ Goto(reader, c, IF reader[c] = "repeat" THEN "resend" ELSE "idle")
  /\ UNCHANGED <<dialog, terminated, flags, setup, answerers, looper, session, crossed,
                 inputs>>

\* And once more with its final SDP, before the 200 OK is written again.
DuplicateAnswers(c) ==
  /\ reader[c] = "resend"
  /\ PutBack(c)
  /\ \/ /\ answer' = [answer EXCEPT ![c] = IF @ = "none" THEN "ok" ELSE @]
        /\ Goto(reader, c, "answered")
        /\ UNCHANGED inputs
     \/ /\ Input("writeFails")
        /\ Goto(reader, c, "idle")
        /\ UNCHANGED answer
  /\ UNCHANGED <<remote, bye, terminated, flags, setup, answerers, looper, session, crossed>>

DuplicateAnswered(c) ==
  /\ reader[c] = "answered"
  /\ finalSent' = TRUE /\ awaitingAck' = TRUE
  /\ Goto(reader, c, "idle")
  /\ UNCHANGED <<dialog, current, terminated, hangupAfterAck, callStarted, setup, answerers,
                 looper, session, history, inputs>>

Duplicate(c) == DuplicateRefreshes(c) \/ DuplicateAnswers(c) \/ DuplicateAnswered(c)

-----------------------------------------------------------------------------
(* The set-up thread of one INVITE *)

\* No RTP socket, or the Call-ID was found among the terminated ones.
SetupAborts(c) ==
  /\ setup[c] = "prepare"
  /\ Goto(setup, c, "done")
  /\ UNCHANGED <<dialog, current, terminated, flags, answerers, reader, looper, session,
                 history, inputs>>

\* The call may have been terminated since abortSetupIfTerminated looked.
SetupInstalls(c) ==
  /\ setup[c] = "prepare"
  /\ current' = c
  /\ Goto(setup, c, "recheck")
  /\ UNCHANGED <<dialog, terminated, flags, answerers, reader, looper, session, history,
                 inputs>>

\* Mutant: the installed call is not checked again.
SetupSkipsRecheck(c) ==
  /\ setup[c] = "recheck"
  /\ Goto(setup, c, "announce") /\ session' = [session EXCEPT ![c] = "announced"]
  /\ UNCHANGED <<dialog, current, terminated, flags, answerers, reader, looper, history,
                 inputs>>

\* installAbortDecision, then onIncomingCall, which is a binder call.
SetupRechecks(c) ==
  /\ setup[c] = "recheck"
  /\ IF c \in terminated \/ current # c
       THEN /\ current' = IF current = c THEN NoCall ELSE current
            /\ Goto(setup, c, "done")
            /\ UNCHANGED session
       ELSE /\ Goto(setup, c, "announce")
            /\ session' = [session EXCEPT ![c] = "announced"]
            /\ UNCHANGED current
  /\ UNCHANGED <<dialog, terminated, flags, answerers, reader, looper, history, inputs>>

\* The framework returns its listener, or refuses the call.
SetupAnnounced(c) ==
  /\ setup[c] = "announce"
  /\ Goto(setup, c, "done")
  /\ \E s \in {"ringing", "ended"} : session' = [session EXCEPT ![c] = s]
  /\ UNCHANGED <<dialog, current, terminated, flags, answerers, reader, looper, history,
                 inputs>>

-----------------------------------------------------------------------------
(* acceptCall and its thread *)

Accept(c) ==
  /\ session[c] = "ringing" /\ accept[c] = "none" /\ reject[c] = "none"
  /\ session' = [session EXCEPT ![c] = "accepted"]
  /\ Goto(accept, c, "check")
  /\ UNCHANGED <<dialog, current, terminated, flags, setup, reject, resend, reader, looper,
                 history, inputs>>

\* The call is gone, or another one has its place.
AcceptFindsNoCall(c) ==
  /\ accept[c] \in {"check", "guard"} /\ current # c
  /\ Goto(accept, c, "done")
  /\ UNCHANGED <<dialog, current, terminated, flags, setup, reject, resend, reader, looper,
                 session, history, inputs>>

\* delayIncomingAcceptAfterRecentImsAccessChange
AcceptWaitsForAccess(c) ==
  /\ accept[c] = "check" /\ current = c
  /\ Input("access")
  /\ Goto(accept, c, "guard")
  /\ UNCHANGED <<dialog, current, terminated, flags, setup, reject, resend, reader, looper,
                 session, history>>

Cancelling(c) == reader[c] \in {"refuse", "clear"}

\* Mutant: no second look at currentCall after the access guard.
AcceptLooksOnce(c) ==
  /\ accept[c] = "guard" \/ (accept[c] = "check" /\ current = c)
  /\ Goto(accept, c, "looked")
  /\ crossed' = IF Cancelling(c) THEN crossed \cup {c} ELSE crossed
  /\ UNCHANGED <<dialog, current, terminated, flags, setup, reject, resend, reader, looper,
                 session, putBack, inputs>>

\* The last look of acceptedIncomingCallAfterAccessGuard.
AcceptLooks(c) ==
  /\ accept[c] \in {"check", "guard"} /\ current = c
  /\ Goto(accept, c, "looked")
  /\ crossed' = IF Cancelling(c) THEN crossed \cup {c} ELSE crossed
  /\ UNCHANGED <<dialog, current, terminated, flags, setup, reject, resend, reader, looper,
                 session, putBack, inputs>>

\* A precondition changes the SDP, and the copy is stored.
AcceptStores(c) == PutBack(c) \/ UNCHANGED <<current, putBack>>

\* Mutant: the flags are set after the 200 OK only.
AcceptRaisesNoFlags(c) ==
  /\ accept[c] = "looked"
  /\ AcceptStores(c)
  /\ Goto(accept, c, "answering")
  /\ UNCHANGED <<dialog, terminated, flags, setup, reject, resend, reader, looper, session,
                 crossed, inputs>>

\* The flags are set before the 200 OK is written, and once more after it.
AcceptRaisesFlags(c) ==
  /\ accept[c] = "looked"
  /\ AcceptStores(c)
  /\ finalSent' = TRUE /\ awaitingAck' = TRUE
  /\ Goto(accept, c, "answering")
  /\ UNCHANGED <<dialog, terminated, hangupAfterAck, callStarted, setup, reject, resend,
                 reader, looper, session, crossed, inputs>>

\* The caller takes the first final response it gets.
AcceptAnswers(c) ==
  /\ accept[c] = "answering"
  /\ answer' = [answer EXCEPT ![c] = IF @ = "none" THEN "ok" ELSE @]
  /\ Goto(accept, c, "written")
  /\ UNCHANGED <<remote, bye, current, terminated, flags, setup, reject, resend, reader,
                 looper, session, history, inputs>>

\* The write fails: the session ends, currentCall stays.
AcceptCannotAnswer(c) ==
  /\ accept[c] = "answering"
  /\ Input("writeFails")
  /\ ClearAnswerFlags
  /\ CancelSession(c)
  /\ Goto(accept, c, "done")
  /\ crossed' = crossed \cup ({current} \ {c, NoCall})
  /\ UNCHANGED <<dialog, current, terminated, callStarted, setup, reject, resend, reader,
                 looper, putBack>>

AcceptFinishes(c) ==
  /\ accept[c] = "written"
  /\ finalSent' = TRUE /\ awaitingAck' = TRUE /\ hangupAfterAck' = FALSE
  /\ Goto(accept, c, "done") /\ Goto(resend, c, "sleep")
  /\ UNCHANGED <<dialog, current, terminated, callStarted, setup, reject, reader, looper,
                 session, history, inputs>>

-----------------------------------------------------------------------------
(* PhhIncoming2xxRetransmit *)

\* Mutant: the thread does not look whether the call has started.
ResendEndsAnyCall(c) ==
  /\ resend[c] = "sleep"
  /\ Goto(resend, c, "done")
  /\ awaitingAck' = FALSE /\ hangupAfterAck' = (hangupAfterAck /\ ~awaitingAck)
  /\ IF awaitingAck /\ current = c
       THEN terminated' = terminated \cup {c} /\ current' = NoCall /\ CancelSession(c)
       ELSE UNCHANGED <<terminated, current, session>>
  /\ UNCHANGED <<dialog, finalSent, callStarted, setup, accept, reject, reader, looper,
                 history, inputs>>

\* Out of the loop because no ACK is awaited, another call is current, or 32 s are over.
\* What it then finds in the flag may belong to another call.
ResendEnds(c) ==
  /\ resend[c] = "sleep"
  /\ Goto(resend, c, "done")
  /\ IF awaitingAck
       THEN /\ awaitingAck' = FALSE /\ hangupAfterAck' = FALSE
            /\ IF current = c /\ ~callStarted
                 THEN /\ terminated' = terminated \cup {c}
                      /\ current' = NoCall
                      /\ CancelSession(c)
                 ELSE UNCHANGED <<terminated, current, session>>
       ELSE UNCHANGED <<awaitingAck, hangupAfterAck, terminated, current, session>>
  /\ UNCHANGED <<dialog, finalSent, callStarted, setup, accept, reject, reader, looper,
                 history, inputs>>

\* A failed write only takes the flags back; currentCall stays.
ResendFails(c) ==
  /\ resend[c] = "sleep" /\ awaitingAck /\ current = c
  /\ Input("resendFails")
  /\ Goto(resend, c, "done")
  /\ awaitingAck' = FALSE /\ hangupAfterAck' = FALSE
  /\ UNCHANGED <<dialog, current, terminated, finalSent, callStarted, setup, accept, reject,
                 reader, looper, session, history>>

-----------------------------------------------------------------------------
(* rejectCall: the 486 blocks, the clean-up follows *)

Reject(c) ==
  /\ session[c] = "ringing" /\ accept[c] = "none" /\ reject[c] = "none"
  /\ IF current = c
       THEN /\ terminated' = terminated \cup {c}
            /\ Refuse(c)
            /\ Goto(reject, c, "cleanup")
       ELSE /\ Goto(reject, c, "done")
            /\ UNCHANGED <<terminated, answer>>
  /\ UNCHANGED <<remote, bye, current, flags, setup, accept, resend, reader, looper, session,
                 history, inputs>>

RejectCleansUp(c) ==
  /\ reject[c] = "cleanup"
  /\ callStarted' = FALSE
  /\ ClearAnswerFlags
  /\ current' = NoCall
  /\ CancelSession(c)
  /\ Goto(reject, c, "done")
  /\ UNCHANGED <<dialog, terminated, setup, accept, resend, reader, looper, history, inputs>>

-----------------------------------------------------------------------------
(* terminateCall on the main looper, for a session the user has accepted *)

\* Before the ACK the hang-up is left to handleAck.
TerminateBeforeAck(c) ==
  /\ current = c /\ finalSent /\ ~callStarted
  /\ hangupAfterAck' = TRUE
  /\ UNCHANGED <<bye, looper>>

TerminateWithBye(c) ==
  /\ current = c /\ (~finalSent \/ callStarted)
  /\ bye' = bye \cup {c}
  /\ looper' = c
  /\ UNCHANGED hangupAfterAck

TerminateElsewhere(c) ==
  current # c /\ UNCHANGED <<bye, looper, hangupAfterAck>>

Terminate(c) ==
  /\ looper = NoCall
  /\ session[c] = "accepted"
  /\ session' = [session EXCEPT ![c] = "ended"]
  /\ TerminateBeforeAck(c) \/ TerminateWithBye(c) \/ TerminateElsewhere(c)
  /\ UNCHANGED <<remote, answer, current, terminated, finalSent, awaitingAck, callStarted,
                 setup, answerers, reader, history, inputs>>

\* The BYE is written; whatever is current by now is cleared.
TerminateClears(c) ==
  /\ looper = c
  /\ looper' = NoCall
  /\ terminated' = terminated \cup {c}
  /\ current' = NoCall
  /\ awaitingAck' = FALSE /\ hangupAfterAck' = FALSE
  /\ UNCHANGED <<dialog, finalSent, callStarted, setup, answerers, reader, session, history,
                 inputs>>

-----------------------------------------------------------------------------
(* CANCEL, ACK, BYE and UPDATE on the reader *)

\* acknowledgeLateCancelAfterFinalResponse
LateCancel(c) == finalSent /\ UNCHANGED <<callStarted, reader, crossed>>

CancelBegins(c) ==
  /\ ~finalSent
  /\ callStarted' = FALSE
  /\ Goto(reader, c, "refuse")
  /\ crossed' = IF accept[c] \in {"looked", "answering"} THEN crossed \cup {c} ELSE crossed

Cancel(c) ==
  /\ ReaderIsFree(c)
  /\ remote[c] = "inviting"
  /\ remote' = [remote EXCEPT ![c] = "cancelling"]
  /\ LateCancel(c) \/ CancelBegins(c)
  /\ UNCHANGED <<answer, bye, current, terminated, finalSent, awaitingAck, hangupAfterAck,
                 setup, answerers, looper, session, putBack, inputs>>

\* handleRemoteCancelTransaction: the 200 to the CANCEL and the 487 to the INVITE.
CancelRefuses(c) ==
  /\ reader[c] = "refuse"
  /\ Refuse(c)
  /\ Goto(reader, c, "clear")
  /\ UNCHANGED <<remote, bye, current, terminated, flags, setup, answerers, looper, session,
                 history, inputs>>

\* currentCall is cleared whichever call it is.
CancelClears(c) ==
  /\ reader[c] = "clear"
  /\ terminated' = terminated \cup {c}
  /\ current' = NoCall
  /\ CancelSession(c)
  /\ Goto(reader, c, "idle")
  /\ UNCHANGED <<dialog, flags, setup, answerers, looper, history, inputs>>

\* The first ACK, or the one for a 200 OK written again.
AckArrives(c) ==
  /\ ReaderIsFree(c)
  /\ answer[c] = "ok"
  /\ \/ /\ remote[c] = "inviting" /\ remote' = [remote EXCEPT ![c] = "established"]
        /\ UNCHANGED inputs
     \/ /\ remote[c] = "cancelling" /\ remote' = [remote EXCEPT ![c] = "releasing"]
        /\ UNCHANGED inputs
     \/ Confirmed(c) /\ Input("duplicate") /\ UNCHANGED remote

Ack(c) ==
  /\ AckArrives(c)
  /\ IF current = c
       THEN /\ callStarted' = TRUE /\ awaitingAck' = FALSE /\ hangupAfterAck' = FALSE
            /\ IF hangupAfterAck THEN bye' = bye \cup {c} /\ Goto(reader, c, "hangup")
                                 ELSE UNCHANGED <<bye, reader>>
       ELSE UNCHANGED <<callStarted, awaitingAck, hangupAfterAck, bye, reader>>
  /\ UNCHANGED <<answer, current, terminated, finalSent, setup, answerers, looper, session,
                 history>>

\* The BYE that was left to the ACK is written.
AckEndsCall(c) ==
  /\ reader[c] = "hangup"
  /\ terminated' = terminated \cup {c}
  /\ current' = NoCall
  /\ Goto(reader, c, "idle")
  /\ UNCHANGED <<dialog, flags, setup, answerers, looper, session, history, inputs>>

\* handleRemoteDialogTerminationAfterCleanup; a BYE for a Call-ID that is not the current
\* one clears currentCall as well.
Bye(c) ==
  /\ ReaderIsFree(c)
  /\ Confirmed(c)
  /\ remote' = [remote EXCEPT ![c] = "over"]
  /\ callStarted' = FALSE
  /\ terminated' = IF current = NoCall THEN terminated ELSE terminated \cup {c}
  /\ current' = NoCall
  /\ CancelSession(c)
  /\ UNCHANGED <<answer, bye, finalSent, awaitingAck, hangupAfterAck, setup, answerers, reader,
                 looper, history, inputs>>

\* An UPDATE with SDP, in the early or the confirmed dialog: the 200 is written.
Update(c) ==
  /\ ReaderIsFree(c)
  /\ remote[c] \in {"inviting", "established"} /\ current = c
  /\ Input("update")
  /\ Goto(reader, c, "update")
  /\ UNCHANGED <<dialog, current, terminated, flags, setup, answerers, looper, session,
                 history>>

\* Only then is the updated copy stored.
UpdateStores(c) ==
  /\ reader[c] = "update"
  /\ PutBack(c)
  /\ Goto(reader, c, "idle")
  /\ UNCHANGED <<dialog, terminated, flags, setup, answerers, looper, session, crossed, inputs>>

-----------------------------------------------------------------------------
(* The caller, and the loss of the flow *)

CallerLearns(c) ==
  /\ \/ Confirmed(c) /\ c \in bye
     \/ remote[c] \in {"inviting", "cancelling"} /\ answer[c] = "error"
  /\ remote' = [remote EXCEPT ![c] = "over"]
  /\ UNCHANGED <<answer, bye, current, terminated, flags, setup, answerers, reader, looper,
                 session, history, inputs>>

\* clearCallAndCallbackStateForReconnect: the dialogs of the lost flow are over, the
\* sessions are not told.
Drop ==
  /\ Input("drop")
  /\ remote' = [c \in Calls |-> IF remote[c] = "idle" THEN "idle" ELSE "over"]
  /\ callStarted' = FALSE
  /\ ClearAnswerFlags
  /\ terminated' = {}
  /\ current' = NoCall
  /\ UNCHANGED <<answer, bye, setup, answerers, reader, looper, session, history>>

-----------------------------------------------------------------------------
Reader(c) ==
  \/ Invite(c) \/ Duplicate(c)
  \/ Cancel(c) \/ CancelRefuses(c) \/ CancelClears(c)
  \/ Ack(c) \/ AckEndsCall(c) \/ Bye(c) \/ Update(c) \/ UpdateStores(c)
SetUp(c) == SetupAborts(c) \/ SetupInstalls(c) \/ SetupRechecks(c) \/ SetupAnnounced(c)
User(c) == Accept(c) \/ Reject(c) \/ Terminate(c) \/ TerminateClears(c)
Accepting(c) ==
  \/ AcceptFindsNoCall(c) \/ AcceptWaitsForAccess(c) \/ AcceptLooks(c)
  \/ AcceptRaisesFlags(c) \/ AcceptAnswers(c) \/ AcceptCannotAnswer(c) \/ AcceptFinishes(c)
Resending(c) == ResendEnds(c) \/ ResendFails(c)

Next ==
  \/ Drop
  \/ \E c \in Calls : \/ Reader(c) \/ SetUp(c) \/ User(c) \/ Accepting(c)
                      \/ Resending(c) \/ RejectCleansUp(c) \/ CallerLearns(c)

Spec == Init /\ [][Next]_vars

-----------------------------------------------------------------------------
(* Properties *)

\* A Call-ID that was rejected, cancelled or hung up never becomes, or stays, the current
\* call: the set-up thread looks again after it has installed its call (SipHandler
\* 7601-7616), and a local reject is about to clear it. The one other way back is the store
\* of a copy by a thread that had looked before the call was cleared (3073, 4081, 6273,
\* 6298), which nothing prevents.
NoRevival ==
  \A c \in Calls :
    current = c /\ c \in terminated
      => reject[c] = "cleanup" \/ setup[c] = "recheck" \/ c \in putBack

\* A CANCEL spares a call whose accept has written the 200 OK: it finds the flag up, which is
\* set before the 200 OK is written (3934, handleCancel 3350-3362). It is not spared if that
\* accept was past its last look at currentCall while the CANCEL was already being handled,
\* nor if the failed accept of another call, or the clearing of currentCall before a thread
\* put the call back, took the flag.
LateCancelSparesAnswered ==
  [][\A c \in Calls :
       /\ reader[c] = "clear" /\ reader'[c] = "idle" /\ current = c
       /\ accept[c] = "written" \/ resend[c] # "none"
       => c \in crossed \cup putBack]_vars

\* The retransmission thread never ends a call whose ACK has arrived, although a repeated
\* INVITE or the end of acceptCall may set the flag it looks at once more (4038-4060). Only a
\* call that was cleared and put back may have lost callStarted, and the current call while
\* a CANCEL that will clear it is being handled.
AckTimerSparesConfirmed ==
  [][\A c \in Calls \ putBack :
       /\ resend[c] = "sleep" /\ resend'[c] = "done" /\ Confirmed(c) /\ current = c
       /\ \A d \in Calls : ~Cancelling(d)
       => current' = c]_vars

\* An accept thread, which may have slept through a CANCEL and a new call, does not go on to
\* answer a call that was refused before its last look at currentCall
\* (acceptedIncomingCallAfterAccessGuard, 4119-4130), but for the moment between the 487 and
\* the clearing of currentCall (3134-3140), and for a call that a thread has put back.
NoAnswerAfterRefusal ==
  [][\A c \in Calls :
       accept[c] # "looked" /\ accept'[c] = "looked" /\ remote[c] # "over"
         => answer[c] # "error" \/ reader[c] = "clear" \/ c \in putBack]_vars

\* A CANCEL or BYE ends the call it names and no other. The code does not keep this.
TerminationIsRouted ==
  [][\A c \in Calls :
       CancelClears(c) \/ Bye(c) => current' = current \/ current = c]_vars
=============================================================================
