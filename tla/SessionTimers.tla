---------------------------- MODULE SessionTimers ----------------------------
(***************************************************************************)
(* Session timers of established dialogs (RFC 4028): SipSessionRefresher,   *)
(* the transaction callbacks SipDispatcher keeps for its UPDATEs, and the   *)
(* hang-ups, in-dialog requests and reconnects of SipHandler that meet it.  *)
(*                                                                         *)
(* Three parties share the map of timer states: the looper of SipHandler,   *)
(* which runs the posted timers one after the other, the readers, one for   *)
(* the flow of requests and one for the flow of responses, and the threads  *)
(* that end calls. A step lasts from one use of the lock to the next one    *)
(* whose outcome depends on it. Delays are not modelled: a posted task may  *)
(* run at any time. Each generation sends at most one UPDATE, so its CSeq   *)
(* is represented by the generation.                                        *)
(***************************************************************************)
EXTENDS Naturals

CONSTANTS
  Calls,       \* Call-IDs of dialogs that negotiate a session timer
  MaxInputs    \* bound on refreshes, reconnects and failed writes

ASSUME InputsAssumption == MaxInputs \in Nat

VARIABLES
  dialog,          \* the call slots: where the dialog is, if it is in one of them
  states,          \* SipSessionRefresher.states
  nextGeneration,
  posted,          \* tasks posted to the looper
  looper,          \* the task the looper is in the middle of, if any
  readers,         \* messages whose handlers are in the middle of their work
  callbacks,       \* SipDispatcher.transactionResponseCallbacks of our UPDATEs
  left,            \* calls that a hang-up has left in their slot without an entry
  waived,          \* calls whose timer was switched off by agreement or for a reconnect
  inputs

vars == <<dialog, states, nextGeneration, posted, looper, readers, callbacks, left, waived,
          inputs>>

MAX_ATTEMPTS == 2
Modes == {"LOCAL_REFRESH", "PEER_EXPIRY"}
State == [generation : Nat, attempt : 0 .. MAX_ATTEMPTS - 1, mode : Modes, inFlight : BOOLEAN]

\* No entry in the map: the generations of entries start at 1.
NoState == [generation |-> 0, attempt |-> 0, mode |-> "LOCAL_REFRESH", inFlight |-> FALSE]

\* Something to do for a dialog, with the state it was captured with: a posted task, the
\* rest of a handler, a response callback or an UPDATE under way.
Job(what) == [what : what, call : Calls, state : State]
job(what, c, state) == [what |-> what, call |-> c, state |-> state]

\* The timer of sendIfCurrent captures nothing but the generation.
timer(c, generation) == job("timer", c, [NoState EXCEPT !.generation = generation])

Armed(c) == states[c].generation # 0

\* In a slot: where a hang-up ends it, as current call on hold, or between the slots of a swap.
Slots == {"live", "onHold", "swapping"}
Live(c) == dialog[c] \in Slots

TypeOK ==
  /\ dialog \in [Calls -> {"none", "over"} \cup Slots]
  /\ states \in [Calls -> State]
  /\ nextGeneration \in Nat \ {0}
  /\ posted \subseteq Job({"timer", "timeout", "terminate"})
  /\ looper \subseteq Job({"send", "forget", "giveUp"})
  /\ readers \subseteq Job({"request", "ok", "untimed", "gone", "refused"})
  /\ callbacks \subseteq Job({"UPDATE"})
  /\ left \subseteq Calls /\ waived \subseteq Calls /\ inputs \in Nat

Init ==
  /\ dialog = [c \in Calls |-> "none"] /\ states = [c \in Calls |-> NoState]
  /\ nextGeneration = 1 /\ posted = {} /\ looper = {} /\ readers = {}
  /\ callbacks = {} /\ left = {} /\ waived = {} /\ inputs = 0

Input == inputs < MaxInputs /\ inputs' = inputs + 1

-----------------------------------------------------------------------------
(* SipSessionRefresher *)

\* The callback of the UPDATE the current entry has sent, if it has sent one.
CallbackInFlight(c) ==
  {cb \in callbacks : cb.call = c /\ cb.state = states[c] /\ states[c].inFlight}

\* cancel removes whatever entry the call has, of any generation.
Cancel(c, answered) ==
  /\ states' = [states EXCEPT ![c] = NoState]
  /\ callbacks' = callbacks \ (CallbackInFlight(c) \cup answered)
  /\ UNCHANGED nextGeneration

Schedule(c, attempt, mode, answered) ==
  LET new == [generation |-> nextGeneration, attempt |-> attempt, mode |-> mode,
              inFlight |-> FALSE]
  IN /\ states' = [states EXCEPT ![c] = new]
     /\ nextGeneration' = nextGeneration + 1
     /\ callbacks' = callbacks \ (CallbackInFlight(c) \cup answered)
     /\ posted' = posted \cup {timer(c, nextGeneration)}
     /\ left' = left \ {c} /\ waived' = waived \ {c}

\* Either side may be chosen as the refresher.
Update(c, answered) == \E mode \in Modes : Schedule(c, 0, mode, answered)

TerminateAfterRefreshFailure(c, answered) ==
  /\ Cancel(c, answered)
  /\ posted' = posted \cup {job("terminate", c, NoState)}
  /\ UNCHANGED <<left, waived>>

RetryOrTerminate(c, state, answered) ==
  IF state.attempt + 1 < MAX_ATTEMPTS
    THEN Schedule(c, state.attempt + 1, "LOCAL_REFRESH", answered)
    ELSE TerminateAfterRefreshFailure(c, answered)

-----------------------------------------------------------------------------
(* Dialogs: the answer to the INVITE, hang-ups, reconnects *)

Establish(c) ==
  /\ dialog[c] = "none"
  /\ dialog' = [dialog EXCEPT ![c] = "live"]
  /\ Update(c, {})
  /\ UNCHANGED <<looper, readers, inputs>>

EndDialog(c) ==
  /\ Cancel(c, {})
  /\ dialog' = [dialog EXCEPT ![c] = "over"]

\* BYE from the peer; a call between the slots of a swap loses its entry only.
RemoteBye(c) ==
  /\ \/ dialog[c] \in {"live", "onHold"} /\ EndDialog(c) /\ UNCHANGED left
     \/ dialog[c] = "swapping" /\ Cancel(c, {}) /\ left' = left \cup {c} /\ UNCHANGED dialog
  /\ UNCHANGED <<posted, looper, readers, waived, inputs>>

\* sendByeForCall, on behalf of the user.
LocalBye(c) ==
  /\ dialog[c] = "live" /\ EndDialog(c)
  /\ UNCHANGED <<posted, looper, readers, left, waived, inputs>>

\* Holds, resumes, swaps and the ACK of a re-INVITE move the call about.
Move(c) ==
  /\ Live(c)
  /\ \E slot \in Slots : dialog' = [dialog EXCEPT ![c] = slot]
  /\ UNCHANGED <<states, nextGeneration, posted, looper, readers, callbacks, left, waived, inputs>>

\* The slot is cleared on behalf of another call: a CANCEL or BYE that compares no Call-IDs, an
\* automatic resume in the middle of a swap.
Lose(c) ==
  /\ Live(c)
  /\ dialog' = [dialog EXCEPT ![c] = "over"]
  /\ UNCHANGED <<states, nextGeneration, posted, looper, readers, callbacks, left, waived, inputs>>

\* clearCallAndCallbackStateForReconnect
Reconnect ==
  /\ Input
  /\ dialog' = [c \in Calls |-> IF Live(c) THEN "over" ELSE dialog[c]]
  /\ states' = [c \in Calls |-> NoState]
  /\ callbacks' = {}
  /\ UNCHANGED <<nextGeneration, posted, looper, readers, left, waived>>

-----------------------------------------------------------------------------
(* The readers *)

RequestFlowIdle == \A m \in readers : m.what # "request"
ResponseFlowIdle == \A m \in readers : m.what = "request"

\* UPDATE or re-INVITE from the peer, or the 2xx to a re-INVITE of ours: the timer is
\* renewed after the answer has been written, when the call may have ended.
PeerRefreshes(c) ==
  /\ Live(c) /\ RequestFlowIdle /\ Input
  /\ readers' = readers \cup {job("request", c, NoState)}
  /\ UNCHANGED <<dialog, states, nextGeneration, posted, looper, callbacks, left, waived>>

\* The answer to an UPDATE; one without a callback reaches nobody here, and the callback
\* ignores it when the entry has changed.
PeerAnswers(u, answer) ==
  /\ u \in callbacks /\ ResponseFlowIdle
  /\ IF answer = "ok" THEN Input ELSE UNCHANGED inputs
  /\ IF states[u.call] = u.state
       THEN readers' = readers \cup {job(answer, u.call, u.state)} /\ UNCHANGED callbacks
       ELSE callbacks' = callbacks \ {u} /\ UNCHANGED readers
  /\ UNCHANGED <<dialog, states, nextGeneration, posted, looper, left, waived>>

HandleRequest(m) == m.what = "request" /\ Update(m.call, {})

\* 2xx with and without Session-Expires, 408 or 481, and any other failure.
HandleResponse(m) ==
  LET c == m.call
      answered == {job("UPDATE", c, m.state)}
  IN \/ m.what = "ok" /\ Update(c, answered)
     \/ /\ m.what = "untimed" /\ Cancel(c, answered)
        /\ waived' = waived \cup {c} /\ UNCHANGED <<posted, left>>
     \/ m.what = "gone" /\ TerminateAfterRefreshFailure(c, answered)
     \/ m.what = "refused" /\ RetryOrTerminate(c, m.state, answered)

Handle(m) ==
  /\ m \in readers
  /\ readers' = readers \ {m}
  /\ HandleRequest(m) \/ HandleResponse(m)
  /\ UNCHANGED <<dialog, looper, inputs>>

-----------------------------------------------------------------------------
(* The looper *)

Take(t, what) ==
  /\ looper = {} /\ t \in posted /\ t.what = what
  /\ UNCHANGED <<dialog, readers, inputs>>

Ran(t) == posted' = posted \ {t}

Current(t) == Armed(t.call) /\ states[t.call].generation = t.state.generation

\* A dialog that is not found is not cancelled.
TimerLeavesEntry(t) ==
  LET c == t.call
      marked == [states[c] EXCEPT !.inFlight = TRUE]
  IN /\ Take(t, "timer") /\ Ran(t)
     /\ Current(t)
     /\ \/ /\ states[c].mode = "PEER_EXPIRY"
           /\ looper' = {job("giveUp", c, states[c])} /\ UNCHANGED states
        \/ /\ states[c].mode = "LOCAL_REFRESH" /\ ~Live(c)
           /\ UNCHANGED <<looper, states>>
        \/ /\ states[c].mode = "LOCAL_REFRESH" /\ Live(c)
           /\ states' = [states EXCEPT ![c] = marked]
           /\ looper' = {job("send", c, marked)}
     /\ UNCHANGED <<nextGeneration, callbacks, left, waived>>

\* sendIfCurrent up to the second check of the entry.
TimerFires(t) ==
  LET c == t.call
      marked == [states[c] EXCEPT !.inFlight = TRUE]
  IN /\ Take(t, "timer") /\ Ran(t)
     /\ Current(t)
     /\ \/ /\ states[c].mode = "PEER_EXPIRY"
           /\ looper' = {job("giveUp", c, states[c])} /\ UNCHANGED states
        \/ /\ states[c].mode = "LOCAL_REFRESH" /\ ~Live(c)
           /\ looper' = {job("forget", c, states[c])} /\ UNCHANGED states
        \/ /\ states[c].mode = "LOCAL_REFRESH" /\ Live(c)
           /\ states' = [states EXCEPT ![c] = marked]
           /\ looper' = {job("send", c, marked)}
     /\ UNCHANGED <<nextGeneration, callbacks, left, waived>>

\* A timer of an older generation cancels the entry.
StaleTimerCancels(t) ==
  /\ Take(t, "timer") /\ Ran(t)
  /\ ~Current(t)
  /\ Cancel(t.call, {})
  /\ UNCHANGED <<looper, left, waived>>

TimerIsStale(t) ==
  /\ Take(t, "timer") /\ Ran(t)
  /\ ~Current(t)
  /\ UNCHANGED <<states, nextGeneration, callbacks, looper, left, waived>>

TimeoutFires(t) ==
  /\ Take(t, "timeout") /\ Ran(t)
  /\ states[t.call] = t.state
  /\ callbacks' = callbacks \ {job("UPDATE", t.call, t.state)}
  /\ looper' = {job("giveUp", t.call, t.state)}
  /\ UNCHANGED <<states, nextGeneration, left, waived>>

TimeoutIsStale(t) ==
  /\ Take(t, "timeout") /\ Ran(t)
  /\ states[t.call] # t.state
  /\ UNCHANGED <<states, nextGeneration, callbacks, looper, left, waived>>

\* terminateCall: an incoming call on hold looks as if its ACK had not come, and one between
\* the slots of a swap is not found. Both live on. One in no slot is not found either.
TerminateRuns(t) ==
  LET c == t.call
  IN /\ looper = {} /\ t \in posted /\ t.what = "terminate" /\ Ran(t)
     /\ \/ dialog[c] = "live" /\ EndDialog(c) /\ UNCHANGED left
        \/ /\ dialog[c] \in {"onHold", "swapping"}
           /\ left' = IF Armed(c) THEN left ELSE left \cup {c}
           /\ UNCHANGED <<dialog, states, nextGeneration, callbacks>>
        \/ ~Live(c) /\ UNCHANGED <<dialog, states, nextGeneration, callbacks, left>>
     /\ UNCHANGED <<looper, readers, waived, inputs>>

\* No response timeout.
SendWithoutTimeout(j) ==
  /\ j \in looper /\ j.what = "send" /\ looper' = looper \ {j}
  /\ callbacks' = callbacks \cup {job("UPDATE", j.call, j.state)}
  /\ UNCHANGED <<dialog, states, nextGeneration, posted, readers, left, waived, inputs>>

\* The timeout captures the entry as it was before it was marked.
SendCapturesOldState(j) ==
  /\ j \in looper /\ j.what = "send" /\ looper' = looper \ {j}
  /\ callbacks' = callbacks \cup {job("UPDATE", j.call, j.state)}
  /\ posted' = posted \cup {job("timeout", j.call, [j.state EXCEPT !.inFlight = FALSE])}
  /\ UNCHANGED <<dialog, states, nextGeneration, readers, left, waived, inputs>>

\* The callback is set after the lock is released: nobody removes it if the call has been
\* cancelled in between.
Send(j) ==
  /\ j \in looper /\ j.what = "send" /\ looper' = looper \ {j}
  /\ callbacks' = callbacks \cup {job("UPDATE", j.call, j.state)}
  /\ posted' = posted \cup {job("timeout", j.call, j.state)}
  /\ UNCHANGED <<dialog, states, nextGeneration, readers, left, waived, inputs>>

\* The write fails: a reconnect is asked for, which ends the call.
SendFails(j) ==
  /\ j \in looper /\ j.what = "send" /\ looper' = looper \ {j}
  /\ Input
  /\ Cancel(j.call, {})
  /\ waived' = waived \cup {j.call}
  /\ UNCHANGED <<dialog, posted, readers, left>>

\* cancel(callId, "dialog no longer exists")
Forget(j) ==
  /\ j \in looper /\ j.what = "forget" /\ looper' = looper \ {j}
  /\ Cancel(j.call, {})
  /\ UNCHANGED <<dialog, posted, readers, left, waived, inputs>>

GiveUp(j) ==
  /\ j \in looper /\ j.what = "giveUp" /\ looper' = looper \ {j}
  /\ TerminateAfterRefreshFailure(j.call, {})
  /\ UNCHANGED <<dialog, readers, inputs>>

-----------------------------------------------------------------------------
RunTask(t) ==
  \/ TimerFires(t) \/ TimerIsStale(t) \/ TimeoutFires(t) \/ TimeoutIsStale(t)
  \/ TerminateRuns(t)

FinishTask(j) == Send(j) \/ SendFails(j) \/ Forget(j) \/ GiveUp(j)

Next ==
  \/ \E c \in Calls : Establish(c) \/ RemoteBye(c) \/ LocalBye(c) \/ PeerRefreshes(c)
                     \/ Move(c) \/ Lose(c)
  \/ Reconnect
  \/ \E u \in callbacks : \E answer \in {"ok", "untimed", "gone", "refused"} : PeerAnswers(u, answer)
  \/ \E m \in readers : Handle(m)
  \/ \E t \in posted : RunTask(t)
  \/ \E j \in looper : FinishTask(j)

Spec == Init /\ [][Next]_vars

\* The looper runs what is posted and the readers finish what they have begun. The peer,
\* the user and the network owe nothing.
FairSpec ==
  /\ Spec
  /\ WF_vars(\E m \in readers : Handle(m))
  /\ WF_vars(\E j \in looper : FinishTask(j))
  /\ \A c \in Calls : WF_vars(\E t \in posted : t.call = c /\ RunTask(t))

-----------------------------------------------------------------------------
(* Properties *)

\* What makes NoUnwatchedCall inductive: nothing is under way for a dialog not yet begun, and
\* the looper forgets only dialogs that are over.
DialogsKnown ==
  /\ \A c \in Calls : Armed(c) => dialog[c] # "none"
  /\ \A x \in posted \cup looper \cup readers \cup callbacks : dialog[x.call] # "none"
ForgottenIsOver == \A j \in looper : j.what = "forget" => dialog[j.call] = "over"

\* An entry always has somebody who will act on it: its timer before the UPDATE is sent, the
\* response timeout afterwards, or the looper in between. Without one, a dialog whose peer has
\* died is kept for ever.
ArmedHasTimer ==
  \A c \in Calls : Armed(c) =>
    \/ ~states[c].inFlight /\ timer(c, states[c].generation) \in posted
    \/ job("timeout", c, states[c]) \in posted
    \/ \E j \in looper : j.call = c /\ j.state = states[c]

\* No established call loses its session timer unnoticed, whichever of a hang-up, a refresh,
\* an answer and a timeout cross: a live call has an entry, or its termination is posted, or
\* the timer was switched off by a 2xx without Session-Expires or for a reconnect, or a hang-up
\* has met it on hold or between the slots of a swap, where the code leaves it.
NoUnwatchedCall ==
  \A c \in Calls : Live(c) =>
    Armed(c) \/ c \in waived \cup left \/ job("terminate", c, NoState) \in posted

\* A call whose peer stops refreshing and answering, or refuses every UPDATE, is hung up: retries
\* do not go on for ever and no timer is lost to a race. (Refreshes are bounded by MaxInputs.)
\* That ends it, unless the hang-up leaves it in its slot, as above.
SilentPeerEndsCall ==
  \A c \in Calls : Armed(c) ~> (dialog[c] = "over" \/ c \in waived \cup left)

\* An ended call leaves no entry behind, not even one that a reader schedules after the hang-up
\* has cancelled the timer.
EndedIsForgotten ==
  \A c \in Calls : (dialog[c] = "over") ~> [](~Armed(c))

\* Not an invariant: cancel and terminateAfterRefreshFailure do not look at the generation, so
\* a timeout or an expiry past its check ends a dialog that has just been refreshed.
RefreshedCallSurvives ==
  \A j \in looper : j.what = "giveUp" =>
    ~Armed(j.call) \/ states[j.call].generation = j.state.generation
=============================================================================
