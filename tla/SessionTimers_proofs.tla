-------------------------- MODULE SessionTimers_proofs --------------------------
(***************************************************************************)
(* Theorems about SessionTimers, for any dialogs and any number of          *)
(* refreshes, reconnects and failed writes. NoUnwatchedCall is not          *)
(* inductive: a timer that finds no dialog removes the entry of its call,   *)
(* which is harmless because nothing is ever posted for a dialog that has   *)
(* not begun (DialogsKnown), so the one not found is over (ForgottenIsOver).*)
(***************************************************************************)
EXTENDS SessionTimers, TLAPS

Inv == TypeOK /\ ArmedHasTimer /\ NoUnwatchedCall /\ DialogsKnown /\ ForgottenIsOver

LEMMA InitInvariant == Init => Inv
<1> SUFFICES ASSUME Init PROVE Inv
  OBVIOUS
<1> USE InputsAssumption DEF Init, NoState, State, MAX_ATTEMPTS, Modes
<1>1. TypeOK
  BY DEF TypeOK, Job
<1>2. ArmedHasTimer /\ NoUnwatchedCall /\ DialogsKnown /\ ForgottenIsOver
  BY DEF ArmedHasTimer, NoUnwatchedCall, DialogsKnown, ForgottenIsOver, Armed, Live, Slots
<1> QED BY <1>1, <1>2 DEF Inv

(* The types of what the helpers of SipSessionRefresher assign. *)
Tasks == {"timer", "timeout", "terminate"}
Rests == {"send", "forget", "giveUp"}
Messages == {"request", "ok", "untimed", "gone", "refused"}
EntriesTyped ==
  /\ states \in [Calls -> State] /\ nextGeneration \in Nat \ {0}
  /\ callbacks \subseteq Job({"UPDATE"})
RefresherTyped == EntriesTyped /\ posted \subseteq Job(Tasks) /\ left \subseteq Calls /\ waived \subseteq Calls

LEMMA JobType ==
  ASSUME NEW W, NEW w \in W, NEW c \in Calls, NEW s \in State
  PROVE  job(w, c, s) \in Job(W)
  BY DEF job, Job

LEMMA StateType ==
  /\ NoState \in State
  /\ \A s \in State : [s EXCEPT !.inFlight = TRUE] \in State
  /\ \A g \in Nat : [NoState EXCEPT !.generation = g] \in State
<1> USE DEF State, MAX_ATTEMPTS, Modes
<1>1. NoState \in State
  BY DEF NoState
<1>2. \A s \in State : [s EXCEPT !.inFlight = TRUE] \in State
  OBVIOUS
<1>3. \A g \in Nat : [NoState EXCEPT !.generation = g] \in State
  BY <1>1
<1> QED BY <1>1, <1>2, <1>3

LEMMA CancelType ==
  ASSUME TypeOK, NEW c \in Calls, NEW answered, Cancel(c, answered)
  PROVE  EntriesTyped'
<1>1. states' = [states EXCEPT ![c] = NoState] /\ UNCHANGED nextGeneration
  BY DEF Cancel
<1>2. callbacks' \subseteq callbacks
  BY DEF Cancel
<1> QED BY <1>1, <1>2, StateType DEF TypeOK, EntriesTyped

LEMMA ScheduleType ==
  ASSUME TypeOK, NEW c \in Calls, NEW attempt \in 0 .. MAX_ATTEMPTS - 1, NEW mode \in Modes,
         NEW answered, Schedule(c, attempt, mode, answered)
  PROVE  RefresherTyped'
<1> DEFINE new == [generation |-> nextGeneration, attempt |-> attempt, mode |-> mode,
                   inFlight |-> FALSE]
<1>1. new \in State
  BY DEF TypeOK, State
<1>2. timer(c, nextGeneration) \in Job(Tasks)
  BY StateType, JobType DEF TypeOK, timer, Tasks
<1>3. states' = [states EXCEPT ![c] = new]
  BY DEF Schedule
<1>4. /\ callbacks' \subseteq callbacks /\ left' \subseteq left /\ waived' \subseteq waived
      /\ posted' = posted \cup {timer(c, nextGeneration)}
      /\ nextGeneration' = nextGeneration + 1
  BY DEF Schedule
<1> HIDE DEF new
<1> QED BY <1>1, <1>2, <1>3, <1>4 DEF TypeOK, RefresherTyped, EntriesTyped, Tasks

LEMMA UpdateType ==
  ASSUME TypeOK, NEW c \in Calls, NEW answered, Update(c, answered)
  PROVE  RefresherTyped'
  BY ScheduleType DEF Update, MAX_ATTEMPTS

LEMMA TerminationType ==
  ASSUME TypeOK, NEW c \in Calls, NEW answered, TerminateAfterRefreshFailure(c, answered)
  PROVE  RefresherTyped'
<1>1. job("terminate", c, NoState) \in Job(Tasks)
  BY StateType, JobType DEF Tasks
<1> QED BY <1>1, CancelType DEF TypeOK, TerminateAfterRefreshFailure, RefresherTyped, Tasks

LEMMA RetryType ==
  ASSUME TypeOK, NEW c \in Calls, NEW s \in State, NEW answered, RetryOrTerminate(c, s, answered)
  PROVE  RefresherTyped'
<1>1. CASE s.attempt + 1 < MAX_ATTEMPTS
  <2>1. s.attempt + 1 \in 0 .. MAX_ATTEMPTS - 1
    BY <1>1 DEF State, MAX_ATTEMPTS
  <2>2. Schedule(c, s.attempt + 1, "LOCAL_REFRESH", answered)
    BY <1>1 DEF RetryOrTerminate
  <2> QED BY <2>1, <2>2, ScheduleType DEF Modes
<1>2. CASE ~(s.attempt + 1 < MAX_ATTEMPTS)
  BY <1>2, TerminationType DEF RetryOrTerminate
<1> QED BY <1>1, <1>2

LEMMA TypeOKStep == Inv /\ [Next]_vars => TypeOK'
<1> SUFFICES ASSUME TypeOK, [Next]_vars PROVE TypeOK'
  BY DEF Inv
<1> USE InputsAssumption DEF TypeOK, RefresherTyped, EntriesTyped, Tasks, Slots
<1>1. ASSUME NEW c \in Calls, Establish(c) \/ RemoteBye(c) \/ LocalBye(c) \/ PeerRefreshes(c)
                              \/ Move(c) \/ Lose(c)
      PROVE TypeOK'
  <2>1. ASSUME Establish(c) PROVE TypeOK'
    BY <2>1, UpdateType DEF Establish
  <2>2. ASSUME RemoteBye(c) PROVE TypeOK'
    BY <2>2, CancelType DEF RemoteBye, EndDialog
  <2>3. ASSUME LocalBye(c) PROVE TypeOK'
    BY <2>3, CancelType DEF LocalBye, EndDialog
  <2>4. ASSUME PeerRefreshes(c) PROVE TypeOK'
    <3>1. job("request", c, NoState) \in Job(Messages)
      BY StateType, JobType DEF Messages
    <3> QED BY <2>4, <3>1 DEF PeerRefreshes, Input, Messages
  <2>5. ASSUME Move(c) PROVE TypeOK'
    BY <2>5 DEF Move, Slots
  <2>6. ASSUME Lose(c) PROVE TypeOK'
    BY <2>6 DEF Lose, Slots
  <2> QED BY <1>1, <2>1, <2>2, <2>3, <2>4, <2>5, <2>6
<1>2. ASSUME Reconnect PROVE TypeOK'
  BY <1>2, StateType DEF Reconnect, Input, Live
<1>3. ASSUME NEW u \in callbacks, NEW answer \in {"ok", "untimed", "gone", "refused"},
             PeerAnswers(u, answer)
      PROVE TypeOK'
  <2>1. u.call \in Calls /\ u.state \in State
    BY DEF Job
  <2>2. job(answer, u.call, u.state) \in Job(Messages)
    BY <2>1, JobType DEF Messages
  <2> QED BY <1>3, <2>2 DEF PeerAnswers, Input, Messages
<1>4. ASSUME NEW m \in readers, Handle(m) PROVE TypeOK'
  <2> DEFINE answered == {job("UPDATE", m.call, m.state)}
  <2> HIDE DEF answered
  <2>1. m.call \in Calls /\ m.state \in State
    BY DEF Job
  <2>2. ASSUME RefresherTyped' PROVE TypeOK'
    BY <1>4, <2>2 DEF Handle
  <2>3. CASE HandleRequest(m)
    BY <2>1, <2>2, <2>3, UpdateType DEF HandleRequest
  <2>4. CASE Update(m.call, answered)
    BY <2>1, <2>2, <2>4, UpdateType
  <2>5. CASE Cancel(m.call, answered) /\ waived' = waived \cup {m.call} /\ UNCHANGED <<posted, left>>
    BY <2>1, <2>2, <2>5, CancelType
  <2>6. CASE TerminateAfterRefreshFailure(m.call, answered)
    BY <2>1, <2>2, <2>6, TerminationType
  <2>7. CASE RetryOrTerminate(m.call, m.state, answered)
    BY <2>1, <2>2, <2>7, RetryType
  <2> QED BY <1>4, <2>3, <2>4, <2>5, <2>6, <2>7 DEF Handle, HandleResponse, answered
<1>5. ASSUME NEW t \in posted, RunTask(t) PROVE TypeOK'
  <2>0. t.call \in Calls /\ t.state \in State /\ states[t.call] \in State
    BY DEF Job
  <2>1. ASSUME TimerFires(t) PROVE TypeOK'
    <3> DEFINE marked == [states[t.call] EXCEPT !.inFlight = TRUE]
    <3> HIDE DEF marked
    <3>1. marked \in State
      BY <2>0, StateType DEF marked
    <3>2. UNCHANGED states \/ states' = [states EXCEPT ![t.call] = marked]
      BY <2>1 DEF TimerFires, marked
    <3>3. \E what \in Rests, s \in {states[t.call], marked} : looper' = {job(what, t.call, s)}
      BY <2>1 DEF TimerFires, Rests, marked
    <3>4. looper' \subseteq Job(Rests)
      BY <2>0, <3>1, <3>3, JobType
    <3> QED BY <2>1, <3>1, <3>2, <3>4 DEF TimerFires, Take, Ran, Rests
  <2>2. ASSUME TimerIsStale(t) PROVE TypeOK'
    BY <2>2 DEF TimerIsStale, Take, Ran
  <2>3. ASSUME TimeoutFires(t) PROVE TypeOK'
    <3>1. job("giveUp", t.call, t.state) \in Job(Rests)
      BY <2>0, JobType DEF Rests
    <3> QED BY <2>3, <3>1 DEF TimeoutFires, Take, Ran, Rests
  <2>4. ASSUME TimeoutIsStale(t) PROVE TypeOK'
    BY <2>4 DEF TimeoutIsStale, Take, Ran
  <2>5. ASSUME TerminateRuns(t) PROVE TypeOK'
    BY <2>0, <2>5, CancelType DEF TerminateRuns, Ran, EndDialog
  <2> QED BY <1>5, <2>1, <2>2, <2>3, <2>4, <2>5 DEF RunTask
<1>6. ASSUME NEW j \in looper, FinishTask(j) PROVE TypeOK'
  <2>0. j.call \in Calls /\ j.state \in State
    BY DEF Job
  <2>1. ASSUME Send(j) PROVE TypeOK'
    <3>1. job("UPDATE", j.call, j.state) \in Job({"UPDATE"})
      BY <2>0, JobType
    <3>2. job("timeout", j.call, j.state) \in Job(Tasks)
      BY <2>0, JobType
    <3> QED BY <2>1, <3>1, <3>2 DEF Send
  <2>2. ASSUME SendFails(j) PROVE TypeOK'
    BY <2>0, <2>2, CancelType DEF SendFails, Input
  <2>3. ASSUME Forget(j) PROVE TypeOK'
    BY <2>0, <2>3, CancelType DEF Forget
  <2>4. ASSUME GiveUp(j) PROVE TypeOK'
    BY <2>0, <2>4, TerminationType DEF GiveUp
  <2> QED BY <1>6, <2>1, <2>2, <2>3, <2>4 DEF FinishTask
<1>7. CASE UNCHANGED vars
  BY <1>7 DEF vars
<1> QED BY <1>1, <1>2, <1>3, <1>4, <1>5, <1>6, <1>7 DEF Next

LEMMA ArmedHasTimerStep == Inv /\ [Next]_vars => ArmedHasTimer'
<1> SUFFICES ASSUME Inv, [Next]_vars PROVE ArmedHasTimer'
  OBVIOUS
<1> USE InputsAssumption DEF Inv, TypeOK, ArmedHasTimer, Armed, State, Job, job, timer, NoState
<1>1. ASSUME NEW c \in Calls, Establish(c) \/ RemoteBye(c) \/ LocalBye(c) \/ PeerRefreshes(c)
                              \/ Move(c) \/ Lose(c)
      PROVE ArmedHasTimer'
  <2>1. ASSUME Establish(c) PROVE ArmedHasTimer'
    BY <2>1 DEF Establish, Update, Schedule
  <2>2. ASSUME RemoteBye(c) PROVE ArmedHasTimer'
    BY <2>2 DEF RemoteBye, EndDialog, Cancel
  <2>3. ASSUME LocalBye(c) PROVE ArmedHasTimer'
    BY <2>3 DEF LocalBye, EndDialog, Cancel
  <2>4. ASSUME PeerRefreshes(c) PROVE ArmedHasTimer'
    BY <2>4 DEF PeerRefreshes
  <2>5. ASSUME Move(c) PROVE ArmedHasTimer'
    BY <2>5 DEF Move, Slots
  <2>6. ASSUME Lose(c) PROVE ArmedHasTimer'
    BY <2>6 DEF Lose, Slots
  <2> QED BY <1>1, <2>1, <2>2, <2>3, <2>4, <2>5, <2>6
<1>2. ASSUME Reconnect
      PROVE ArmedHasTimer'
  BY <1>2 DEF Reconnect
<1>3. ASSUME NEW u \in callbacks, NEW answer \in {"ok", "untimed", "gone", "refused"}, PeerAnswers(u, answer)
      PROVE ArmedHasTimer'
  BY <1>3 DEF PeerAnswers
<1>4. ASSUME NEW m \in readers, Handle(m)
      PROVE ArmedHasTimer'
  <2>1. ASSUME HandleRequest(m) PROVE ArmedHasTimer'
    BY <1>4, <2>1 DEF Handle, HandleRequest, Update, Schedule
  <2>2. ASSUME m.what = "ok", HandleResponse(m) PROVE ArmedHasTimer'
    <3>1. PICK mode \in Modes :
                 Schedule(m.call, 0, mode, {job("UPDATE", m.call, m.state)})
      BY <2>2 DEF HandleResponse, Update
    <3> QED BY <1>4, <3>1 DEF Handle, Schedule
  <2>3. ASSUME m.what = "untimed", HandleResponse(m) PROVE ArmedHasTimer'
    BY <1>4, <2>3 DEF Handle, HandleResponse, Cancel
  <2>4. ASSUME m.what = "gone", HandleResponse(m) PROVE ArmedHasTimer'
    BY <1>4, <2>4 DEF Handle, HandleResponse, TerminateAfterRefreshFailure, Cancel
  <2>5. ASSUME m.what = "refused", HandleResponse(m) PROVE ArmedHasTimer'
    BY <1>4, <2>5 DEF Handle, HandleResponse, RetryOrTerminate, Schedule,
        TerminateAfterRefreshFailure, Cancel
  <2> QED BY <1>4, <2>1, <2>2, <2>3, <2>4, <2>5 DEF Handle, HandleResponse
<1>5. ASSUME NEW t \in posted, RunTask(t)
      PROVE ArmedHasTimer'
  <2>1. ASSUME TimerFires(t) PROVE ArmedHasTimer'
    <3>1. t.call \in Calls /\ states[t.call] \in State /\ t \notin posted'
      BY <2>1 DEF TimerFires, Ran
    <3>2. \A x \in posted : x.call # t.call => x \in posted'
      BY <2>1 DEF TimerFires, Ran
    <3>3. looper = {}
      BY <2>1 DEF TimerFires, Take
    <3>4. CASE looper' = {job("giveUp", t.call, states[t.call])} /\ UNCHANGED states
      BY <3>1, <3>2, <3>3, <3>4
    <3>5. CASE looper' = {job("forget", t.call, states[t.call])} /\ UNCHANGED states
      BY <3>1, <3>2, <3>3, <3>5
    <3>6. CASE \E s : looper' = {job("send", t.call, s)} /\ states' = [states EXCEPT ![t.call] = s]
      BY <3>1, <3>2, <3>3, <3>6
    <3> QED BY <2>1, <3>4, <3>5, <3>6 DEF TimerFires
  <2>2. ASSUME TimerIsStale(t) PROVE ArmedHasTimer'
    BY <2>2 DEF TimerIsStale, Take, Ran, Current
  <2>3. ASSUME TimeoutFires(t) PROVE ArmedHasTimer'
    BY <2>3 DEF TimeoutFires, Take, Ran
  <2>4. ASSUME TimeoutIsStale(t) PROVE ArmedHasTimer'
    BY <2>4 DEF TimeoutIsStale, Take, Ran
  <2>5. ASSUME TerminateRuns(t) PROVE ArmedHasTimer'
    BY <2>5 DEF TerminateRuns, Ran, EndDialog, Cancel
  <2> QED BY <1>5, <2>1, <2>2, <2>3, <2>4, <2>5 DEF RunTask
<1>6. ASSUME NEW j \in looper, FinishTask(j)
      PROVE ArmedHasTimer'
  <2>1. ASSUME Send(j) PROVE ArmedHasTimer'
    BY <2>1 DEF Send
  <2>2. ASSUME SendFails(j) PROVE ArmedHasTimer'
    BY <2>2 DEF SendFails, Cancel
  <2>3. ASSUME Forget(j) PROVE ArmedHasTimer'
    BY <2>3 DEF Forget, Cancel
  <2>4. ASSUME GiveUp(j) PROVE ArmedHasTimer'
    BY <2>4 DEF GiveUp, TerminateAfterRefreshFailure, Cancel
  <2> QED BY <1>6, <2>1, <2>2, <2>3, <2>4 DEF FinishTask
<1>7. CASE UNCHANGED vars
  BY <1>7 DEF vars
<1> HIDE DEF Inv, TypeOK, ArmedHasTimer, Armed, State, Job, job, timer, NoState
<1> QED BY <1>1, <1>2, <1>3, <1>4, <1>5, <1>6, <1>7 DEF Next

LEMMA NoUnwatchedCallStep == Inv /\ [Next]_vars => NoUnwatchedCall'
<1> SUFFICES ASSUME Inv, [Next]_vars PROVE NoUnwatchedCall'
  OBVIOUS
<1> USE InputsAssumption DEF Inv, TypeOK, NoUnwatchedCall, ForgottenIsOver, DialogsKnown, Armed,
      Live, Slots, State, Job, job, timer, NoState
<1>1. ASSUME NEW c \in Calls, Establish(c) \/ RemoteBye(c) \/ LocalBye(c) \/ PeerRefreshes(c)
                              \/ Move(c) \/ Lose(c)
      PROVE NoUnwatchedCall'
  <2>1. ASSUME Establish(c) PROVE NoUnwatchedCall'
    BY <2>1 DEF Establish, Update, Schedule
  <2>2. ASSUME RemoteBye(c) PROVE NoUnwatchedCall'
    BY <2>2 DEF RemoteBye, EndDialog, Cancel
  <2>3. ASSUME LocalBye(c) PROVE NoUnwatchedCall'
    BY <2>3 DEF LocalBye, EndDialog, Cancel
  <2>4. ASSUME PeerRefreshes(c) PROVE NoUnwatchedCall'
    BY <2>4 DEF PeerRefreshes
  <2>5. ASSUME Move(c) PROVE NoUnwatchedCall'
    BY <2>5 DEF Move, Slots
  <2>6. ASSUME Lose(c) PROVE NoUnwatchedCall'
    BY <2>6 DEF Lose, Slots
  <2> QED BY <1>1, <2>1, <2>2, <2>3, <2>4, <2>5, <2>6
<1>2. ASSUME Reconnect
      PROVE NoUnwatchedCall'
  BY <1>2 DEF Reconnect
<1>3. ASSUME NEW u \in callbacks, NEW answer \in {"ok", "untimed", "gone", "refused"}, PeerAnswers(u, answer)
      PROVE NoUnwatchedCall'
  BY <1>3 DEF PeerAnswers
<1>4. ASSUME NEW m \in readers, Handle(m)
      PROVE NoUnwatchedCall'
  <2>1. ASSUME HandleRequest(m) PROVE NoUnwatchedCall'
    BY <1>4, <2>1 DEF Handle, HandleRequest, Update, Schedule
  <2>2. ASSUME m.what = "ok", HandleResponse(m) PROVE NoUnwatchedCall'
    <3>1. PICK mode \in Modes :
                 Schedule(m.call, 0, mode, {job("UPDATE", m.call, m.state)})
      BY <2>2 DEF HandleResponse, Update
    <3> QED BY <1>4, <3>1 DEF Handle, Schedule
  <2>3. ASSUME m.what = "untimed", HandleResponse(m) PROVE NoUnwatchedCall'
    BY <1>4, <2>3 DEF Handle, HandleResponse, Cancel
  <2>4. ASSUME m.what = "gone", HandleResponse(m) PROVE NoUnwatchedCall'
    BY <1>4, <2>4 DEF Handle, HandleResponse, TerminateAfterRefreshFailure, Cancel
  <2>5. ASSUME m.what = "refused", HandleResponse(m) PROVE NoUnwatchedCall'
    BY <1>4, <2>5 DEF Handle, HandleResponse, RetryOrTerminate, Schedule,
        TerminateAfterRefreshFailure, Cancel
  <2> QED BY <1>4, <2>1, <2>2, <2>3, <2>4, <2>5 DEF Handle, HandleResponse
<1>5. ASSUME NEW t \in posted, RunTask(t)
      PROVE NoUnwatchedCall'
  <2>1. ASSUME TimerFires(t) PROVE NoUnwatchedCall'
    BY <2>1 DEF TimerFires, Take, Ran, Current
  <2>2. ASSUME TimerIsStale(t) PROVE NoUnwatchedCall'
    BY <2>2 DEF TimerIsStale, Take, Ran, Current
  <2>3. ASSUME TimeoutFires(t) PROVE NoUnwatchedCall'
    BY <2>3 DEF TimeoutFires, Take, Ran
  <2>4. ASSUME TimeoutIsStale(t) PROVE NoUnwatchedCall'
    BY <2>4 DEF TimeoutIsStale, Take, Ran
  <2>5. ASSUME TerminateRuns(t) PROVE NoUnwatchedCall'
    BY <2>5 DEF TerminateRuns, Ran, EndDialog, Cancel
  <2> QED BY <1>5, <2>1, <2>2, <2>3, <2>4, <2>5 DEF RunTask
<1>6. ASSUME NEW j \in looper, FinishTask(j)
      PROVE NoUnwatchedCall'
  <2>1. ASSUME Send(j) PROVE NoUnwatchedCall'
    BY <2>1 DEF Send
  <2>2. ASSUME SendFails(j) PROVE NoUnwatchedCall'
    BY <2>2 DEF SendFails, Cancel
  <2>3. ASSUME Forget(j) PROVE NoUnwatchedCall'
    BY <2>3 DEF Forget, Cancel
  <2>4. ASSUME GiveUp(j) PROVE NoUnwatchedCall'
    BY <2>4 DEF GiveUp, TerminateAfterRefreshFailure, Cancel
  <2> QED BY <1>6, <2>1, <2>2, <2>3, <2>4 DEF FinishTask
<1>7. CASE UNCHANGED vars
  BY <1>7 DEF vars
<1> QED BY <1>1, <1>2, <1>3, <1>4, <1>5, <1>6, <1>7 DEF Next

LEMMA DialogsKnownStep == Inv /\ [Next]_vars => DialogsKnown'
<1> SUFFICES ASSUME Inv, [Next]_vars PROVE DialogsKnown'
  OBVIOUS
<1> USE InputsAssumption DEF Inv, TypeOK, DialogsKnown, Armed, Live, Slots, State, Job, job, timer,
      NoState
<1>1. ASSUME NEW c \in Calls, Establish(c) \/ RemoteBye(c) \/ LocalBye(c) \/ PeerRefreshes(c)
                              \/ Move(c) \/ Lose(c)
      PROVE DialogsKnown'
  <2>1. ASSUME Establish(c) PROVE DialogsKnown'
    BY <2>1 DEF Establish, Update, Schedule
  <2>2. ASSUME RemoteBye(c) PROVE DialogsKnown'
    BY <2>2 DEF RemoteBye, EndDialog, Cancel
  <2>3. ASSUME LocalBye(c) PROVE DialogsKnown'
    BY <2>3 DEF LocalBye, EndDialog, Cancel
  <2>4. ASSUME PeerRefreshes(c) PROVE DialogsKnown'
    BY <2>4 DEF PeerRefreshes
  <2>5. ASSUME Move(c) PROVE DialogsKnown'
    BY <2>5 DEF Move, Slots
  <2>6. ASSUME Lose(c) PROVE DialogsKnown'
    BY <2>6 DEF Lose, Slots
  <2> QED BY <1>1, <2>1, <2>2, <2>3, <2>4, <2>5, <2>6
<1>2. ASSUME Reconnect
      PROVE DialogsKnown'
  BY <1>2 DEF Reconnect
<1>3. ASSUME NEW u \in callbacks, NEW answer \in {"ok", "untimed", "gone", "refused"}, PeerAnswers(u, answer)
      PROVE DialogsKnown'
  BY <1>3 DEF PeerAnswers
<1>4. ASSUME NEW m \in readers, Handle(m)
      PROVE DialogsKnown'
  <2>1. ASSUME HandleRequest(m) PROVE DialogsKnown'
    BY <1>4, <2>1 DEF Handle, HandleRequest, Update, Schedule
  <2>2. ASSUME m.what = "ok", HandleResponse(m) PROVE DialogsKnown'
    <3>1. PICK mode \in Modes :
                 Schedule(m.call, 0, mode, {job("UPDATE", m.call, m.state)})
      BY <2>2 DEF HandleResponse, Update
    <3> QED BY <1>4, <3>1 DEF Handle, Schedule
  <2>3. ASSUME m.what = "untimed", HandleResponse(m) PROVE DialogsKnown'
    BY <1>4, <2>3 DEF Handle, HandleResponse, Cancel
  <2>4. ASSUME m.what = "gone", HandleResponse(m) PROVE DialogsKnown'
    BY <1>4, <2>4 DEF Handle, HandleResponse, TerminateAfterRefreshFailure, Cancel
  <2>5. ASSUME m.what = "refused", HandleResponse(m) PROVE DialogsKnown'
    BY <1>4, <2>5 DEF Handle, HandleResponse, RetryOrTerminate, Schedule,
        TerminateAfterRefreshFailure, Cancel
  <2> QED BY <1>4, <2>1, <2>2, <2>3, <2>4, <2>5 DEF Handle, HandleResponse
<1>5. ASSUME NEW t \in posted, RunTask(t)
      PROVE DialogsKnown'
  <2>1. ASSUME TimerFires(t) PROVE DialogsKnown'
    BY <2>1 DEF TimerFires, Take, Ran, Current
  <2>2. ASSUME TimerIsStale(t) PROVE DialogsKnown'
    BY <2>2 DEF TimerIsStale, Take, Ran, Current
  <2>3. ASSUME TimeoutFires(t) PROVE DialogsKnown'
    BY <2>3 DEF TimeoutFires, Take, Ran
  <2>4. ASSUME TimeoutIsStale(t) PROVE DialogsKnown'
    BY <2>4 DEF TimeoutIsStale, Take, Ran
  <2>5. ASSUME TerminateRuns(t) PROVE DialogsKnown'
    BY <2>5 DEF TerminateRuns, Ran, EndDialog, Cancel
  <2> QED BY <1>5, <2>1, <2>2, <2>3, <2>4, <2>5 DEF RunTask
<1>6. ASSUME NEW j \in looper, FinishTask(j)
      PROVE DialogsKnown'
  <2>1. ASSUME Send(j) PROVE DialogsKnown'
    BY <2>1 DEF Send
  <2>2. ASSUME SendFails(j) PROVE DialogsKnown'
    BY <2>2 DEF SendFails, Cancel
  <2>3. ASSUME Forget(j) PROVE DialogsKnown'
    BY <2>3 DEF Forget, Cancel
  <2>4. ASSUME GiveUp(j) PROVE DialogsKnown'
    BY <2>4 DEF GiveUp, TerminateAfterRefreshFailure, Cancel
  <2> QED BY <1>6, <2>1, <2>2, <2>3, <2>4 DEF FinishTask
<1>7. CASE UNCHANGED vars
  BY <1>7 DEF vars
<1> QED BY <1>1, <1>2, <1>3, <1>4, <1>5, <1>6, <1>7 DEF Next

LEMMA ForgottenIsOverStep == Inv /\ [Next]_vars => ForgottenIsOver'
<1> SUFFICES ASSUME Inv, [Next]_vars PROVE ForgottenIsOver'
  OBVIOUS
<1> USE InputsAssumption DEF Inv, TypeOK, ForgottenIsOver, DialogsKnown, Armed, Live, Slots, State,
      Job, job, Cancel, NoState
<1>1. ASSUME NEW c \in Calls, Establish(c) \/ RemoteBye(c) \/ LocalBye(c) \/ PeerRefreshes(c)
                              \/ Move(c) \/ Lose(c)
      PROVE ForgottenIsOver'
  <2>1. ASSUME Establish(c) PROVE ForgottenIsOver'
    BY <2>1 DEF Establish
  <2>2. ASSUME RemoteBye(c) PROVE ForgottenIsOver'
    BY <2>2 DEF RemoteBye, EndDialog
  <2>3. ASSUME LocalBye(c) PROVE ForgottenIsOver'
    BY <2>3 DEF LocalBye, EndDialog
  <2>4. ASSUME PeerRefreshes(c) PROVE ForgottenIsOver'
    BY <2>4 DEF PeerRefreshes
  <2>5. ASSUME Move(c) PROVE ForgottenIsOver'
    BY <2>5 DEF Move, Slots
  <2>6. ASSUME Lose(c) PROVE ForgottenIsOver'
    BY <2>6 DEF Lose, Slots
  <2> QED BY <1>1, <2>1, <2>2, <2>3, <2>4, <2>5, <2>6
<1>2. ASSUME Reconnect
      PROVE ForgottenIsOver'
  BY <1>2 DEF Reconnect
<1>3. ASSUME NEW u \in callbacks, NEW answer \in {"ok", "untimed", "gone", "refused"}, PeerAnswers(u, answer)
      PROVE ForgottenIsOver'
  BY <1>3 DEF PeerAnswers
<1>4. ASSUME NEW m \in readers, Handle(m)
      PROVE ForgottenIsOver'
  <2>1. ASSUME HandleRequest(m) PROVE ForgottenIsOver'
    BY <1>4, <2>1 DEF Handle, HandleRequest
  <2>2. ASSUME m.what = "ok", HandleResponse(m) PROVE ForgottenIsOver'
    BY <1>4, <2>2 DEF Handle, HandleResponse
  <2>3. ASSUME m.what = "untimed", HandleResponse(m) PROVE ForgottenIsOver'
    BY <1>4, <2>3 DEF Handle, HandleResponse
  <2>4. ASSUME m.what = "gone", HandleResponse(m) PROVE ForgottenIsOver'
    BY <1>4, <2>4 DEF Handle, HandleResponse
  <2>5. ASSUME m.what = "refused", HandleResponse(m) PROVE ForgottenIsOver'
    BY <1>4, <2>5 DEF Handle, HandleResponse
  <2> QED BY <1>4, <2>1, <2>2, <2>3, <2>4, <2>5 DEF Handle, HandleResponse
<1>5. ASSUME NEW t \in posted, RunTask(t)
      PROVE ForgottenIsOver'
  <2>1. ASSUME TimerFires(t) PROVE ForgottenIsOver'
    BY <2>1 DEF TimerFires, Take, Ran
  <2>2. ASSUME TimerIsStale(t) PROVE ForgottenIsOver'
    BY <2>2 DEF TimerIsStale, Take, Ran
  <2>3. ASSUME TimeoutFires(t) PROVE ForgottenIsOver'
    BY <2>3 DEF TimeoutFires, Take, Ran
  <2>4. ASSUME TimeoutIsStale(t) PROVE ForgottenIsOver'
    BY <2>4 DEF TimeoutIsStale, Take, Ran
  <2>5. ASSUME TerminateRuns(t) PROVE ForgottenIsOver'
    BY <2>5 DEF TerminateRuns, Ran, EndDialog
  <2> QED BY <1>5, <2>1, <2>2, <2>3, <2>4, <2>5 DEF RunTask
<1>6. ASSUME NEW j \in looper, FinishTask(j)
      PROVE ForgottenIsOver'
  <2>1. ASSUME Send(j) PROVE ForgottenIsOver'
    BY <2>1 DEF Send
  <2>2. ASSUME SendFails(j) PROVE ForgottenIsOver'
    BY <2>2 DEF SendFails
  <2>3. ASSUME Forget(j) PROVE ForgottenIsOver'
    BY <2>3 DEF Forget
  <2>4. ASSUME GiveUp(j) PROVE ForgottenIsOver'
    BY <2>4 DEF GiveUp
  <2> QED BY <1>6, <2>1, <2>2, <2>3, <2>4 DEF FinishTask
<1>7. CASE UNCHANGED vars
  BY <1>7 DEF vars
<1> QED BY <1>1, <1>2, <1>3, <1>4, <1>5, <1>6, <1>7 DEF Next

-----------------------------------------------------------------------------
LEMMA Invariance == Spec => []Inv
<1>1. Inv /\ [Next]_vars => Inv'
  BY TypeOKStep, ArmedHasTimerStep, NoUnwatchedCallStep, DialogsKnownStep, ForgottenIsOverStep
    DEF Inv
<1> QED BY InitInvariant, <1>1, PTL DEF Spec

(* Every reachable state is well typed; above all, no entry counts more than two attempts. *)
THEOREM TypeCorrect == Spec => []TypeOK
<1>1. Inv => TypeOK
  BY DEF Inv
<1> QED BY Invariance, <1>1, PTL

(* schedule, sendIfCurrent: however refreshes, answers, hang-ups and timers interleave, each
   entry of the map has a timer, a response timeout or the looper that will act on it. *)
THEOREM EntriesHaveTimers == Spec => []ArmedHasTimer
<1>1. Inv => ArmedHasTimer
  BY DEF Inv
<1> QED BY Invariance, <1>1, PTL

(* cancel, terminateAfterRefreshFailure, terminateCall: an established call is without an entry
   only if its termination is posted, its timer was switched off on purpose, or a hang-up has
   met it on hold or between the slots of a swap, where terminateCall ends nothing. *)
THEOREM CallsAreWatched == Spec => []NoUnwatchedCall
<1>1. Inv => NoUnwatchedCall
  BY DEF Inv
<1> QED BY Invariance, <1>1, PTL
=============================================================================
