------------------------- MODULE CallWaiting_proofs -------------------------
(***************************************************************************)
(* Theorems about CallWaiting, for any Call-IDs and any number of inputs:   *)
(* its type correctness, and AnswerIsOwed. The latter is inductive together *)
(* with FormsFit: which continuations a callback can have. A step that      *)
(* sends no re-INVITE and handles no response can only settle requests; the *)
(* ones that do are reduced to three lemmas about the callbacks.            *)
(***************************************************************************)
EXTENDS CallWaiting, TLAPS

-----------------------------------------------------------------------------
(* Types *)

PeersTyped ==
  /\ remote \in [Calls -> {"new", "ringing", "cancelling", "up", "over"}]
  /\ local \in [Calls -> {"none", "ok", "refused", "bye"}]
  /\ onHold \subseteq Calls
  /\ kind \in [Calls -> {"unknown", "outgoing", "plain", "waiting"}]

SlotsTyped ==
  /\ current \in Slot /\ held \in Slot /\ swapped \in Slot /\ waiting \in Slot
  /\ playing \in Slot /\ finalSent \in BOOLEAN /\ hangup \in BOOLEAN

ReinvitesTyped ==
  /\ callback \in [Calls -> Callbacks]
  /\ wire \in [Calls -> Seq({"hold", "resume"})]
  /\ answering \in Responses
  /\ crossed \subseteq Calls /\ lost \subseteq Slot /\ resumed \subseteq Calls

FrameworkTyped ==
  /\ session \in [Calls -> {"none", "incoming", "active", "held", "ended"}]
  /\ request \in [Calls -> {"none", "hold", "resume", "sent"}]
  /\ task \in [Calls -> {"none", "accept", "prepare", "answer", "reject"}]
  /\ refusal \in [Calls -> {"none", "waiting", "current"}]
  /\ cancel \in [Calls -> {"none", "answerWaiting", "answerCurrent", "waiting", "current"}]
  /\ inputs \in 0 .. MaxInputs

\* TypeOK, part by part: a step is checked against each.
LEMMA TypeParts == TypeOK <=> PeersTyped /\ SlotsTyped /\ ReinvitesTyped /\ FrameworkTyped
  BY DEF TypeOK, PeersTyped, SlotsTyped, ReinvitesTyped, FrameworkTyped

\* No callback and no response have their types.
LEMMA EmptyTyped == NoCallback \in Callbacks /\ NoResponse \in Responses
  BY DEF NoCallback, NoResponse, Callbacks, Responses, Slot

\* A session that a callback reports to is a call, or nobody's.
LEMMA ReportsTyped ==
  ASSUME NEW c \in Calls, NEW cb \in Callbacks
  PROVE  Reports(c, cb) \subseteq Slot
  BY DEF Reports, Callbacks, Slot

\* A written re-INVITE keeps callbacks, wires and history typed.
LEMMA SendTyped ==
  ASSUME ReinvitesTyped, NEW c \in Calls, NEW op \in {"hold", "resume", "resumeCurrent"},
         NEW then \in {"report", "move", "swap", "swapBack", "swapHeld", "auto"},
         NEW other \in Slot, Send(c, op, then, other), answering' \in Responses
  PROVE  ReinvitesTyped'
<1> DEFINE new == [op |-> op, then |-> then, other |-> other]
<1>1. new \in Callbacks
  BY DEF Callbacks
<1>2. callback' \in [Calls -> Callbacks]
  BY <1>1 DEF Send, ReinvitesTyped
<1>3. wire' \in [Calls -> Seq({"hold", "resume"})]
  BY DEF Send, ReinvitesTyped
<1>4. Reports(c, new) \subseteq Slot /\ Reports(c, callback[c]) \subseteq Slot
  BY <1>1, ReportsTyped DEF ReinvitesTyped
<1>5. crossed' \subseteq Calls /\ resumed' \subseteq Calls
  BY DEF Send, ReinvitesTyped
<1>6. lost' \subseteq Slot
  BY <1>4 DEF Send, ReinvitesTyped
<1> QED BY <1>2, <1>3, <1>5, <1>6 DEF ReinvitesTyped

\* Every action keeps dialogs and kinds typed.
LEMMA PeersStep ==
  ASSUME PeersTyped, SlotsTyped, ReinvitesTyped, FrameworkTyped, [Next]_vars
  PROVE  PeersTyped'
<1> USE CallAssumption DEF PeersTyped
<1>1. ASSUME NEW c \in Calls, AskHold(c)
      PROVE  PeersTyped'
  BY <1>1 DEF AskHold, Ask, Input, dialogs, slots, flags, reinvites, history, framework,
     threads
<1>2. ASSUME NEW c \in Calls, AskResume(c)
      PROVE  PeersTyped'
  BY <1>2 DEF AskResume, Ask, Input, dialogs, slots, flags, reinvites, history, framework,
     threads
<1>3. ASSUME NEW c \in Calls, AskAccept(c)
      PROVE  PeersTyped'
  BY <1>3 DEF AskAccept, Ask, Input, dialogs, slots, flags, reinvites, history, framework,
     threads
<1>4. ASSUME NEW c \in Calls, AskReject(c)
      PROVE  PeersTyped'
  BY <1>4 DEF AskReject, Ask, Input, dialogs, slots, flags, reinvites, history, framework,
     threads
<1>5. ASSUME NEW c \in Calls, HangUp(c)
      PROVE  PeersTyped'
  BY <1>5 DEF HangUp, TerminateWaiting, TerminateHeld, TerminateUnknown, TerminateUnstarted,
     TerminateCurrent, RefuseWaiting, Refuse, WriteBye, EndSession, Input, dialogs,
     slots, flags, reinvites, history, framework, threads
<1>6. ASSUME NEW c \in Calls, RunHold(c)
      PROVE  PeersTyped'
  BY <1>6 DEF RunHold, RequestFails, RequestSent, Send, dialogs, slots, flags, reinvites,
     history, framework, threads
<1>7. ASSUME NEW c \in Calls, RunResume(c)
      PROVE  PeersTyped'
  BY <1>7 DEF RunResume, ResumeSends, RequestFails, RequestSent, Send, dialogs, slots, flags,
     reinvites, history, framework, threads
<1>8. ASSUME NEW c \in Calls, RunAccept(c)
      PROVE  PeersTyped'
  BY <1>8 DEF RunAccept, AcceptWaiting, AcceptPlain, AcceptFindsNothing, AcceptUnprepared,
     RefuseWaiting, Refuse, dialogs, slots, flags, reinvites, history, framework,
     threads
<1>9. ASSUME NEW c \in Calls, PrepareAnswer(c)
      PROVE  PeersTyped'
  BY <1>9 DEF PrepareAnswer, dialogs, slots, flags, reinvites, history, framework, threads
<1>10. ASSUME NEW c \in Calls, WriteAnswer(c)
      PROVE  PeersTyped'
  BY <1>10 DEF WriteAnswer, dialogs, slots, flags, reinvites, history, framework, threads
<1>11. ASSUME NEW c \in Calls, RunReject(c)
      PROVE  PeersTyped'
  BY <1>11 DEF RunReject, RefuseWaiting, RefusePlain, RejectFindsNothing, Refuse, dialogs,
     slots, flags, reinvites, history, framework, threads
<1>12. ASSUME NEW c \in Calls, RefusalEnds(c)
      PROVE  PeersTyped'
  BY <1>12 DEF RefusalEnds, EndSession, ClearWaiting, StopRuntime, dialogs, slots, flags,
     reinvites, history, framework, threads
<1>13. ASSUME NEW c \in Calls, OutgoingByeDone(c)
      PROVE  PeersTyped'
  BY <1>13 DEF OutgoingByeDone, dialogs, slots, flags, reinvites, history, framework, threads
<1>14. ASSUME NEW c \in Calls, Invite(c)
      PROVE  PeersTyped'
  BY <1>14 DEF Invite, InviteWaits, InviteBusy, InvitePlain, Refuse, Input, dialogs, slots,
     flags, reinvites, history, framework, threads
<1>15. ASSUME NEW c \in Calls, Ack(c)
      PROVE  PeersTyped'
  BY <1>15 DEF Ack, WriteBye, dialogs, slots, flags, reinvites, history, framework, threads
<1>16. ASSUME NEW c \in Calls, Cancel(c)
      PROVE  PeersTyped'
  BY <1>16 DEF Cancel, StopRuntime, Input, dialogs, slots, flags, reinvites, history,
     framework, threads
<1>17. ASSUME NEW c \in Calls, Bye(c)
      PROVE  PeersTyped'
  BY <1>17 DEF Bye, ByeHeld, ByeOther, StopRuntime, Send, EndSession, Input, dialogs, slots,
     flags, reinvites, history, framework, threads
<1>18. ASSUME NEW c \in Calls, PeerLearns(c)
      PROVE  PeersTyped'
  BY <1>18 DEF PeerLearns, dialogs, slots, flags, reinvites, history, framework, threads
<1>19. ASSUME NEW c \in Calls, CancelAnswers(c)
      PROVE  PeersTyped'
  BY <1>19 DEF CancelAnswers, Refuse, dialogs, slots, flags, reinvites, history, framework,
     threads
<1>20. ASSUME NEW c \in Calls, CancelClears(c)
      PROVE  PeersTyped'
  BY <1>20 DEF CancelClears, EndSession, ClearWaiting, dialogs, slots, flags, reinvites,
     history, framework, threads
<1>21. ASSUME NEW c \in Calls, NEW ok \in BOOLEAN, TakesResponse(c, ok)
      PROVE  PeersTyped'
  BY <1>21 DEF TakesResponse, dialogs, slots, flags, reinvites, history, framework, threads
<1>22. ASSUME NEW c \in Calls, CallbackRuns(c), HoldReported(c)
      PROVE  PeersTyped'
  BY <1>22 DEF HoldReported, CallbackRuns, HasRun, Running, Pause, Report, NothingSent,
     dialogs, slots, flags, reinvites, history, framework, threads
<1>23. ASSUME NEW c \in Calls, CallbackRuns(c), HoldMoves(c)
      PROVE  PeersTyped'
  BY <1>23 DEF HoldMoves, CallbackRuns, HasRun, Running, Pause, Report, NothingSent, dialogs,
     slots, flags, reinvites, history, framework, threads
<1>24. ASSUME NEW c \in Calls, CallbackRuns(c), HoldGoesOn(c)
      PROVE  PeersTyped'
  BY <1>24 DEF HoldGoesOn, CallbackRuns, HasRun, Running, Send, dialogs, slots, flags,
     reinvites, history, framework, threads
<1>25. ASSUME NEW c \in Calls, CallbackRuns(c), HoldRefused(c)
      PROVE  PeersTyped'
  BY <1>25 DEF HoldRefused, CallbackRuns, HasRun, Running, RequestFails, NothingSent,
     dialogs, slots, flags, reinvites, history, framework, threads
<1>26. ASSUME NEW c \in Calls, CallbackRuns(c), ResumeAccepted(c)
      PROVE  PeersTyped'
  BY <1>26 DEF ResumeAccepted, CallbackRuns, HasRun, Running, Report, NothingSent, dialogs,
     slots, flags, reinvites, history, framework, threads
<1>27. ASSUME NEW c \in Calls, CallbackRuns(c), ResumeRefused(c)
      PROVE  PeersTyped'
  BY <1>27 DEF ResumeRefused, CallbackRuns, HasRun, Running, RequestFails, NothingSent,
     dialogs, slots, flags, reinvites, history, framework, threads
<1>28. ASSUME NEW c \in Calls, CallbackRuns(c), CurrentResumed(c)
      PROVE  PeersTyped'
  BY <1>28 DEF CurrentResumed, CallbackRuns, HasRun, Running, Report, NothingSent, dialogs,
     slots, flags, reinvites, history, framework, threads
<1>29. ASSUME NEW c \in Calls, CallbackRuns(c), CurrentNotResumed(c)
      PROVE  PeersTyped'
  BY <1>29 DEF CurrentNotResumed, CallbackRuns, HasRun, Running, RequestFails, NothingSent,
     dialogs, slots, flags, reinvites, history, framework, threads
<1>30. ASSUME NEW c \in Calls, CallbackRemoved(c)
      PROVE  PeersTyped'
  BY <1>30 DEF CallbackRemoved, dialogs, slots, flags, reinvites, history, framework, threads
<1>31. CASE UNCHANGED vars
  BY <1>31 DEF vars, dialogs, slots, flags, reinvites, history, framework, threads
<1> QED
  BY <1>1, <1>2, <1>3, <1>4, <1>5, <1>6, <1>7, <1>8, <1>9, <1>10, <1>11, <1>12, <1>13, <1>14,
     <1>15, <1>16, <1>17, <1>18, <1>19, <1>20, <1>21, <1>22, <1>23, <1>24, <1>25, <1>26,
     <1>27, <1>28, <1>29, <1>30, <1>31
  DEF Next, Framework, Run, RunTask, Peer, Reader, Response, CallbackRuns

\* Every action keeps slots and flags typed.
LEMMA SlotsStep ==
  ASSUME PeersTyped, SlotsTyped, ReinvitesTyped, FrameworkTyped, [Next]_vars
  PROVE  SlotsTyped'
<1> USE CallAssumption DEF SlotsTyped, Slot
<1>1. ASSUME NEW c \in Calls, AskHold(c)
      PROVE  SlotsTyped'
  BY <1>1 DEF AskHold, Ask, Input, dialogs, slots, flags, reinvites, history, framework,
     threads
<1>2. ASSUME NEW c \in Calls, AskResume(c)
      PROVE  SlotsTyped'
  BY <1>2 DEF AskResume, Ask, Input, dialogs, slots, flags, reinvites, history, framework,
     threads
<1>3. ASSUME NEW c \in Calls, AskAccept(c)
      PROVE  SlotsTyped'
  BY <1>3 DEF AskAccept, Ask, Input, dialogs, slots, flags, reinvites, history, framework,
     threads
<1>4. ASSUME NEW c \in Calls, AskReject(c)
      PROVE  SlotsTyped'
  BY <1>4 DEF AskReject, Ask, Input, dialogs, slots, flags, reinvites, history, framework,
     threads
<1>5. ASSUME NEW c \in Calls, HangUp(c)
      PROVE  SlotsTyped'
  BY <1>5 DEF HangUp, TerminateWaiting, TerminateHeld, TerminateUnknown, TerminateUnstarted,
     TerminateCurrent, RefuseWaiting, Refuse, WriteBye, EndSession, Input, dialogs,
     slots, flags, reinvites, history, framework, threads
<1>6. ASSUME NEW c \in Calls, RunHold(c)
      PROVE  SlotsTyped'
  BY <1>6 DEF RunHold, RequestFails, RequestSent, Send, dialogs, slots, flags, reinvites,
     history, framework, threads
<1>7. ASSUME NEW c \in Calls, RunResume(c)
      PROVE  SlotsTyped'
  BY <1>7 DEF RunResume, ResumeSends, RequestFails, RequestSent, Send, dialogs, slots, flags,
     reinvites, history, framework, threads
<1>8. ASSUME NEW c \in Calls, RunAccept(c)
      PROVE  SlotsTyped'
  BY <1>8 DEF RunAccept, AcceptWaiting, AcceptPlain, AcceptFindsNothing, AcceptUnprepared,
     RefuseWaiting, Refuse, dialogs, slots, flags, reinvites, history, framework,
     threads
<1>9. ASSUME NEW c \in Calls, PrepareAnswer(c)
      PROVE  SlotsTyped'
  BY <1>9 DEF PrepareAnswer, dialogs, slots, flags, reinvites, history, framework, threads
<1>10. ASSUME NEW c \in Calls, WriteAnswer(c)
      PROVE  SlotsTyped'
  BY <1>10 DEF WriteAnswer, dialogs, slots, flags, reinvites, history, framework, threads
<1>11. ASSUME NEW c \in Calls, RunReject(c)
      PROVE  SlotsTyped'
  BY <1>11 DEF RunReject, RefuseWaiting, RefusePlain, RejectFindsNothing, Refuse, dialogs,
     slots, flags, reinvites, history, framework, threads
<1>12. ASSUME NEW c \in Calls, RefusalEnds(c)
      PROVE  SlotsTyped'
  BY <1>12 DEF RefusalEnds, EndSession, ClearWaiting, StopRuntime, dialogs, slots, flags,
     reinvites, history, framework, threads
<1>13. ASSUME NEW c \in Calls, OutgoingByeDone(c)
      PROVE  SlotsTyped'
  BY <1>13 DEF OutgoingByeDone, dialogs, slots, flags, reinvites, history, framework, threads
<1>14. ASSUME NEW c \in Calls, Invite(c)
      PROVE  SlotsTyped'
  BY <1>14 DEF Invite, InviteWaits, InviteBusy, InvitePlain, Refuse, Input, dialogs, slots,
     flags, reinvites, history, framework, threads
<1>15. ASSUME NEW c \in Calls, Ack(c)
      PROVE  SlotsTyped'
  BY <1>15 DEF Ack, WriteBye, dialogs, slots, flags, reinvites, history, framework, threads
<1>16. ASSUME NEW c \in Calls, Cancel(c)
      PROVE  SlotsTyped'
  BY <1>16 DEF Cancel, StopRuntime, Input, dialogs, slots, flags, reinvites, history,
     framework, threads
<1>17. ASSUME NEW c \in Calls, Bye(c)
      PROVE  SlotsTyped'
  BY <1>17 DEF Bye, ByeHeld, ByeOther, StopRuntime, Send, EndSession, Input, dialogs, slots,
     flags, reinvites, history, framework, threads
<1>18. ASSUME NEW c \in Calls, PeerLearns(c)
      PROVE  SlotsTyped'
  BY <1>18 DEF PeerLearns, dialogs, slots, flags, reinvites, history, framework, threads
<1>19. ASSUME NEW c \in Calls, CancelAnswers(c)
      PROVE  SlotsTyped'
  BY <1>19 DEF CancelAnswers, Refuse, dialogs, slots, flags, reinvites, history, framework,
     threads
<1>20. ASSUME NEW c \in Calls, CancelClears(c)
      PROVE  SlotsTyped'
  BY <1>20 DEF CancelClears, EndSession, ClearWaiting, dialogs, slots, flags, reinvites,
     history, framework, threads
<1>21. ASSUME NEW c \in Calls, NEW ok \in BOOLEAN, TakesResponse(c, ok)
      PROVE  SlotsTyped'
  BY <1>21 DEF TakesResponse, dialogs, slots, flags, reinvites, history, framework, threads
<1>22. ASSUME NEW c \in Calls, CallbackRuns(c), HoldReported(c)
      PROVE  SlotsTyped'
  BY <1>22 DEF HoldReported, CallbackRuns, HasRun, Running, Pause, Report, NothingSent,
     dialogs, slots, flags, reinvites, history, framework, threads
<1>23. ASSUME NEW c \in Calls, CallbackRuns(c), HoldMoves(c)
      PROVE  SlotsTyped'
  BY <1>23 DEF HoldMoves, CallbackRuns, HasRun, Running, Pause, Report, NothingSent, dialogs,
     slots, flags, reinvites, history, framework, threads
<1>24. ASSUME NEW c \in Calls, CallbackRuns(c), HoldGoesOn(c)
      PROVE  SlotsTyped'
  BY <1>24 DEF HoldGoesOn, CallbackRuns, HasRun, Running, Send, dialogs, slots, flags,
     reinvites, history, framework, threads
<1>25. ASSUME NEW c \in Calls, CallbackRuns(c), HoldRefused(c)
      PROVE  SlotsTyped'
  BY <1>25 DEF HoldRefused, CallbackRuns, HasRun, Running, RequestFails, NothingSent,
     dialogs, slots, flags, reinvites, history, framework, threads
<1>26. ASSUME NEW c \in Calls, CallbackRuns(c), ResumeAccepted(c)
      PROVE  SlotsTyped'
  BY <1>26 DEF ResumeAccepted, CallbackRuns, HasRun, Running, Report, NothingSent,
     ReinvitesTyped, Responses, Callbacks, dialogs, slots, flags, reinvites, history,
     framework, threads
<1>27. ASSUME NEW c \in Calls, CallbackRuns(c), ResumeRefused(c)
      PROVE  SlotsTyped'
  BY <1>27 DEF ResumeRefused, CallbackRuns, HasRun, Running, RequestFails, NothingSent,
     ReinvitesTyped, Responses, Callbacks, dialogs, slots, flags, reinvites, history,
     framework, threads
<1>28. ASSUME NEW c \in Calls, CallbackRuns(c), CurrentResumed(c)
      PROVE  SlotsTyped'
  BY <1>28 DEF CurrentResumed, CallbackRuns, HasRun, Running, Report, NothingSent, dialogs,
     slots, flags, reinvites, history, framework, threads
<1>29. ASSUME NEW c \in Calls, CallbackRuns(c), CurrentNotResumed(c)
      PROVE  SlotsTyped'
  BY <1>29 DEF CurrentNotResumed, CallbackRuns, HasRun, Running, RequestFails, NothingSent,
     dialogs, slots, flags, reinvites, history, framework, threads
<1>30. ASSUME NEW c \in Calls, CallbackRemoved(c)
      PROVE  SlotsTyped'
  BY <1>30 DEF CallbackRemoved, dialogs, slots, flags, reinvites, history, framework, threads
<1>31. CASE UNCHANGED vars
  BY <1>31 DEF vars, dialogs, slots, flags, reinvites, history, framework, threads
<1> QED
  BY <1>1, <1>2, <1>3, <1>4, <1>5, <1>6, <1>7, <1>8, <1>9, <1>10, <1>11, <1>12, <1>13, <1>14,
     <1>15, <1>16, <1>17, <1>18, <1>19, <1>20, <1>21, <1>22, <1>23, <1>24, <1>25, <1>26,
     <1>27, <1>28, <1>29, <1>30, <1>31
  DEF Next, Framework, Run, RunTask, Peer, Reader, Response, CallbackRuns

\* What a callback can go on with, as its kind of re-INVITE decides.
Form(cb) ==
  \/ cb.op = "none"
  \/ cb.op = "hold" /\ cb.then \in {"report", "move"}
  \/ cb.op = "hold" /\ cb.then = "swap" /\ cb.other \in Calls
  \/ cb.op = "resume" /\ cb.then \in {"report", "swapBack", "swapHeld", "auto"}
  \/ cb.op = "resumeCurrent" /\ cb.then = "report"

FormsFit == (\A c \in Calls : Form(callback[c])) /\ Form(answering.run)

\* Every action keeps callbacks, wires and responses typed.
LEMMA ReinvitesStep ==
  ASSUME PeersTyped, SlotsTyped, ReinvitesTyped, FrameworkTyped, FormsFit, [Next]_vars
  PROVE  ReinvitesTyped'
<1> USE CallAssumption, EmptyTyped DEF ReinvitesTyped
<1>1. ASSUME NEW c \in Calls, AskHold(c)
      PROVE  ReinvitesTyped'
  BY <1>1 DEF AskHold, Ask, Input, dialogs, slots, flags, reinvites, history, framework,
     threads
<1>2. ASSUME NEW c \in Calls, AskResume(c)
      PROVE  ReinvitesTyped'
  BY <1>2 DEF AskResume, Ask, Input, dialogs, slots, flags, reinvites, history, framework,
     threads
<1>3. ASSUME NEW c \in Calls, AskAccept(c)
      PROVE  ReinvitesTyped'
  BY <1>3 DEF AskAccept, Ask, Input, dialogs, slots, flags, reinvites, history, framework,
     threads
<1>4. ASSUME NEW c \in Calls, AskReject(c)
      PROVE  ReinvitesTyped'
  BY <1>4 DEF AskReject, Ask, Input, dialogs, slots, flags, reinvites, history, framework,
     threads
<1>5. ASSUME NEW c \in Calls, HangUp(c)
      PROVE  ReinvitesTyped'
  BY <1>5 DEF HangUp, TerminateWaiting, TerminateHeld, TerminateUnknown, TerminateUnstarted,
     TerminateCurrent, RefuseWaiting, Refuse, WriteBye, EndSession, Input, dialogs,
     slots, flags, reinvites, history, framework, threads
<1>6. ASSUME NEW c \in Calls, RunHold(c)
      PROVE  ReinvitesTyped'
  <2>1. CASE current # c /\ UNCHANGED reinvites
    BY <2>1 DEF reinvites, history
  <2>2. CASE current = c /\ UNCHANGED answering
             /\ Send(c, "hold", IF held # NoCall /\ waiting = NoCall THEN "move" ELSE "report",
                     NoCall)
    BY <2>2, SendTyped DEF ReinvitesTyped, Slot
  <2> QED BY <1>6, <2>1, <2>2 DEF RunHold
<1>7. ASSUME NEW c \in Calls, RunResume(c)
      PROVE  ReinvitesTyped'
  <2>1. CASE UNCHANGED reinvites
    BY <2>1 DEF reinvites, history
  <2>2. CASE ResumeSends(c)
    <3>1. CASE Send(c, "resumeCurrent", "report", NoCall)
      BY <2>2, <3>1, SendTyped DEF ResumeSends, ReinvitesTyped, Slot
    <3>2. CASE Send(c, "resume", "swapHeld", swapped)
      BY <2>2, <3>2, SendTyped DEF ResumeSends, ReinvitesTyped, SlotsTyped
    <3>3. CASE current \notin {c, NoCall} /\ Send(current, "hold", "swap", c)
      BY <2>2, <3>3, SendTyped DEF ResumeSends, ReinvitesTyped, SlotsTyped, Slot
    <3>4. CASE Send(c, "resume", "report", NoCall)
      BY <2>2, <3>4, SendTyped DEF ResumeSends, ReinvitesTyped, Slot
    <3> QED BY <2>2, <3>1, <3>2, <3>3, <3>4 DEF ResumeSends
  <2> QED BY <1>7, <2>1, <2>2 DEF RunResume
<1>8. ASSUME NEW c \in Calls, RunAccept(c)
      PROVE  ReinvitesTyped'
  BY <1>8 DEF RunAccept, AcceptWaiting, AcceptPlain, AcceptFindsNothing, AcceptUnprepared,
     RefuseWaiting, Refuse, dialogs, slots, flags, reinvites, history, framework,
     threads
<1>9. ASSUME NEW c \in Calls, PrepareAnswer(c)
      PROVE  ReinvitesTyped'
  BY <1>9 DEF PrepareAnswer, dialogs, slots, flags, reinvites, history, framework, threads
<1>10. ASSUME NEW c \in Calls, WriteAnswer(c)
      PROVE  ReinvitesTyped'
  BY <1>10 DEF WriteAnswer, dialogs, slots, flags, reinvites, history, framework, threads
<1>11. ASSUME NEW c \in Calls, RunReject(c)
      PROVE  ReinvitesTyped'
  BY <1>11 DEF RunReject, RefuseWaiting, RefusePlain, RejectFindsNothing, Refuse, dialogs,
     slots, flags, reinvites, history, framework, threads
<1>12. ASSUME NEW c \in Calls, RefusalEnds(c)
      PROVE  ReinvitesTyped'
  BY <1>12 DEF RefusalEnds, EndSession, ClearWaiting, StopRuntime, dialogs, slots, flags,
     reinvites, history, framework, threads
<1>13. ASSUME NEW c \in Calls, OutgoingByeDone(c)
      PROVE  ReinvitesTyped'
  BY <1>13 DEF OutgoingByeDone, dialogs, slots, flags, reinvites, history, framework, threads
<1>14. ASSUME NEW c \in Calls, Invite(c)
      PROVE  ReinvitesTyped'
  BY <1>14 DEF Invite, InviteWaits, InviteBusy, InvitePlain, Refuse, Input, dialogs, slots,
     flags, reinvites, history, framework, threads
<1>15. ASSUME NEW c \in Calls, Ack(c)
      PROVE  ReinvitesTyped'
  BY <1>15 DEF Ack, WriteBye, dialogs, slots, flags, reinvites, history, framework, threads
<1>16. ASSUME NEW c \in Calls, Cancel(c)
      PROVE  ReinvitesTyped'
  BY <1>16 DEF Cancel, StopRuntime, Input, dialogs, slots, flags, reinvites, history,
     framework, threads
<1>17. ASSUME NEW c \in Calls, Bye(c)
      PROVE  ReinvitesTyped'
  <2>1. CASE UNCHANGED reinvites
    BY <2>1 DEF reinvites, history
  <2>2. CASE held # NoCall /\ Send(held, "resume", "auto", NoCall) /\ UNCHANGED answering
    BY <2>2, SendTyped DEF ReinvitesTyped, SlotsTyped, Slot
  <2> QED BY <1>17, <2>1, <2>2 DEF Bye, ByeHeld, ByeOther, reinvites
<1>18. ASSUME NEW c \in Calls, PeerLearns(c)
      PROVE  ReinvitesTyped'
  BY <1>18 DEF PeerLearns, dialogs, slots, flags, reinvites, history, framework, threads
<1>19. ASSUME NEW c \in Calls, CancelAnswers(c)
      PROVE  ReinvitesTyped'
  BY <1>19 DEF CancelAnswers, Refuse, dialogs, slots, flags, reinvites, history, framework,
     threads
<1>20. ASSUME NEW c \in Calls, CancelClears(c)
      PROVE  ReinvitesTyped'
  BY <1>20 DEF CancelClears, EndSession, ClearWaiting, dialogs, slots, flags, reinvites,
     history, framework, threads
<1>21. ASSUME NEW c \in Calls, NEW ok \in BOOLEAN, TakesResponse(c, ok)
      PROVE  ReinvitesTyped'
  <2>1. wire' \in [Calls -> Seq({"hold", "resume"})]
    BY <1>21 DEF TakesResponse, ReinvitesTyped
  <2>2. answering' \in Responses
    BY <1>21 DEF TakesResponse, ReinvitesTyped, Responses, Slot
  <2>3. callback' = callback /\ crossed' = crossed /\ lost' = lost /\ resumed' \subseteq Calls
    BY <1>21 DEF TakesResponse, ReinvitesTyped
  <2> QED BY <2>1, <2>2, <2>3 DEF ReinvitesTyped
<1>22. ASSUME NEW c \in Calls, CallbackRuns(c), HoldReported(c)
      PROVE  ReinvitesTyped'
  BY <1>22 DEF HoldReported, CallbackRuns, HasRun, NothingSent, history, Responses
<1>23. ASSUME NEW c \in Calls, CallbackRuns(c), HoldMoves(c)
      PROVE  ReinvitesTyped'
  BY <1>23 DEF HoldMoves, CallbackRuns, HasRun, NothingSent, history, Responses
<1>24. ASSUME NEW c \in Calls, CallbackRuns(c), HoldGoesOn(c)
      PROVE  ReinvitesTyped'
  <2>1. answering' \in Responses
    BY <1>24 DEF CallbackRuns, HasRun, ReinvitesTyped, Responses
  <2>2. answering.run.other \in Calls
    BY <1>24 DEF HoldGoesOn, FormsFit, Form, Running
  <2> QED BY <1>24, <2>1, <2>2, SendTyped DEF HoldGoesOn, Slot
<1>25. ASSUME NEW c \in Calls, CallbackRuns(c), HoldRefused(c)
      PROVE  ReinvitesTyped'
  BY <1>25 DEF HoldRefused, CallbackRuns, HasRun, NothingSent, history, Responses
<1>26. ASSUME NEW c \in Calls, CallbackRuns(c), ResumeAccepted(c)
      PROVE  ReinvitesTyped'
  BY <1>26 DEF ResumeAccepted, CallbackRuns, HasRun, NothingSent, history, Responses
<1>27. ASSUME NEW c \in Calls, CallbackRuns(c), ResumeRefused(c)
      PROVE  ReinvitesTyped'
  BY <1>27 DEF ResumeRefused, CallbackRuns, HasRun, NothingSent, history, Responses
<1>28. ASSUME NEW c \in Calls, CallbackRuns(c), CurrentResumed(c)
      PROVE  ReinvitesTyped'
  BY <1>28 DEF CurrentResumed, CallbackRuns, HasRun, NothingSent, history, Responses
<1>29. ASSUME NEW c \in Calls, CallbackRuns(c), CurrentNotResumed(c)
      PROVE  ReinvitesTyped'
  BY <1>29 DEF CurrentNotResumed, CallbackRuns, HasRun, NothingSent, history, Responses
<1>30. ASSUME NEW c \in Calls, CallbackRemoved(c)
      PROVE  ReinvitesTyped'
  <2>1. callback' \in [Calls -> Callbacks]
    BY <1>30 DEF CallbackRemoved, ReinvitesTyped
  <2> QED BY <1>30, <2>1 DEF CallbackRemoved, ReinvitesTyped, history
<1>31. CASE UNCHANGED vars
  BY <1>31 DEF vars, reinvites, history
<1> QED
  BY <1>1, <1>2, <1>3, <1>4, <1>5, <1>6, <1>7, <1>8, <1>9, <1>10, <1>11, <1>12, <1>13, <1>14,
     <1>15, <1>16, <1>17, <1>18, <1>19, <1>20, <1>21, <1>22, <1>23, <1>24, <1>25, <1>26,
     <1>27, <1>28, <1>29, <1>30, <1>31
  DEF Next, Framework, Run, RunTask, Peer, Reader, Response, CallbackRuns

\* Every action keeps sessions, requests and threads typed.
LEMMA FrameworkStep ==
  ASSUME PeersTyped, SlotsTyped, ReinvitesTyped, FrameworkTyped, [Next]_vars
  PROVE  FrameworkTyped'
<1> USE CallAssumption, InputAssumption DEF FrameworkTyped
<1>1. ASSUME NEW c \in Calls, AskHold(c)
      PROVE  FrameworkTyped'
  BY <1>1 DEF AskHold, Ask, Input, dialogs, slots, flags, reinvites, history, framework,
     threads
<1>2. ASSUME NEW c \in Calls, AskResume(c)
      PROVE  FrameworkTyped'
  BY <1>2 DEF AskResume, Ask, Input, dialogs, slots, flags, reinvites, history, framework,
     threads
<1>3. ASSUME NEW c \in Calls, AskAccept(c)
      PROVE  FrameworkTyped'
  BY <1>3 DEF AskAccept, Ask, Input, dialogs, slots, flags, reinvites, history, framework,
     threads
<1>4. ASSUME NEW c \in Calls, AskReject(c)
      PROVE  FrameworkTyped'
  BY <1>4 DEF AskReject, Ask, Input, dialogs, slots, flags, reinvites, history, framework,
     threads
<1>5. ASSUME NEW c \in Calls, HangUp(c)
      PROVE  FrameworkTyped'
  BY <1>5 DEF HangUp, TerminateWaiting, TerminateHeld, TerminateUnknown, TerminateUnstarted,
     TerminateCurrent, RefuseWaiting, Refuse, WriteBye, EndSession, Input, dialogs,
     slots, flags, reinvites, history, framework, threads
<1>6. ASSUME NEW c \in Calls, RunHold(c)
      PROVE  FrameworkTyped'
  BY <1>6 DEF RunHold, RequestFails, RequestSent, Send, dialogs, slots, flags, reinvites,
     history, framework, threads
<1>7. ASSUME NEW c \in Calls, RunResume(c)
      PROVE  FrameworkTyped'
  BY <1>7 DEF RunResume, ResumeSends, RequestFails, RequestSent, Send, dialogs, slots, flags,
     reinvites, history, framework, threads
<1>8. ASSUME NEW c \in Calls, RunAccept(c)
      PROVE  FrameworkTyped'
  BY <1>8 DEF RunAccept, AcceptWaiting, AcceptPlain, AcceptFindsNothing, AcceptUnprepared,
     RefuseWaiting, Refuse, dialogs, slots, flags, reinvites, history, framework,
     threads
<1>9. ASSUME NEW c \in Calls, PrepareAnswer(c)
      PROVE  FrameworkTyped'
  BY <1>9 DEF PrepareAnswer, dialogs, slots, flags, reinvites, history, framework, threads
<1>10. ASSUME NEW c \in Calls, WriteAnswer(c)
      PROVE  FrameworkTyped'
  BY <1>10 DEF WriteAnswer, dialogs, slots, flags, reinvites, history, framework, threads
<1>11. ASSUME NEW c \in Calls, RunReject(c)
      PROVE  FrameworkTyped'
  BY <1>11 DEF RunReject, RefuseWaiting, RefusePlain, RejectFindsNothing, Refuse, dialogs,
     slots, flags, reinvites, history, framework, threads
<1>12. ASSUME NEW c \in Calls, RefusalEnds(c)
      PROVE  FrameworkTyped'
  BY <1>12 DEF RefusalEnds, EndSession, ClearWaiting, StopRuntime, dialogs, slots, flags,
     reinvites, history, framework, threads
<1>13. ASSUME NEW c \in Calls, OutgoingByeDone(c)
      PROVE  FrameworkTyped'
  BY <1>13 DEF OutgoingByeDone, dialogs, slots, flags, reinvites, history, framework, threads
<1>14. ASSUME NEW c \in Calls, Invite(c)
      PROVE  FrameworkTyped'
  BY <1>14 DEF Invite, InviteWaits, InviteBusy, InvitePlain, Refuse, Input, dialogs, slots,
     flags, reinvites, history, framework, threads
<1>15. ASSUME NEW c \in Calls, Ack(c)
      PROVE  FrameworkTyped'
  BY <1>15 DEF Ack, WriteBye, dialogs, slots, flags, reinvites, history, framework, threads
<1>16. ASSUME NEW c \in Calls, Cancel(c)
      PROVE  FrameworkTyped'
  BY <1>16 DEF Cancel, StopRuntime, Input, dialogs, slots, flags, reinvites, history,
     framework, threads
<1>17. ASSUME NEW c \in Calls, Bye(c)
      PROVE  FrameworkTyped'
  BY <1>17 DEF Bye, ByeHeld, ByeOther, StopRuntime, Send, EndSession, Input, dialogs, slots,
     flags, reinvites, history, framework, threads
<1>18. ASSUME NEW c \in Calls, PeerLearns(c)
      PROVE  FrameworkTyped'
  BY <1>18 DEF PeerLearns, dialogs, slots, flags, reinvites, history, framework, threads
<1>19. ASSUME NEW c \in Calls, CancelAnswers(c)
      PROVE  FrameworkTyped'
  BY <1>19 DEF CancelAnswers, Refuse, dialogs, slots, flags, reinvites, history, framework,
     threads
<1>20. ASSUME NEW c \in Calls, CancelClears(c)
      PROVE  FrameworkTyped'
  BY <1>20 DEF CancelClears, EndSession, ClearWaiting, dialogs, slots, flags, reinvites,
     history, framework, threads
<1>21. ASSUME NEW c \in Calls, NEW ok \in BOOLEAN, TakesResponse(c, ok)
      PROVE  FrameworkTyped'
  BY <1>21 DEF TakesResponse, dialogs, slots, flags, reinvites, history, framework, threads
<1>22. ASSUME NEW c \in Calls, CallbackRuns(c), HoldReported(c)
      PROVE  FrameworkTyped'
  BY <1>22 DEF HoldReported, CallbackRuns, HasRun, Running, Pause, Report, NothingSent,
     dialogs, slots, flags, reinvites, history, framework, threads
<1>23. ASSUME NEW c \in Calls, CallbackRuns(c), HoldMoves(c)
      PROVE  FrameworkTyped'
  BY <1>23 DEF HoldMoves, CallbackRuns, HasRun, Running, Pause, Report, NothingSent, dialogs,
     slots, flags, reinvites, history, framework, threads
<1>24. ASSUME NEW c \in Calls, CallbackRuns(c), HoldGoesOn(c)
      PROVE  FrameworkTyped'
  BY <1>24 DEF HoldGoesOn, CallbackRuns, HasRun, Running, Send, dialogs, slots, flags,
     reinvites, history, framework, threads
<1>25. ASSUME NEW c \in Calls, CallbackRuns(c), HoldRefused(c)
      PROVE  FrameworkTyped'
  BY <1>25 DEF HoldRefused, CallbackRuns, HasRun, Running, RequestFails, NothingSent,
     dialogs, slots, flags, reinvites, history, framework, threads
<1>26. ASSUME NEW c \in Calls, CallbackRuns(c), ResumeAccepted(c)
      PROVE  FrameworkTyped'
  BY <1>26 DEF ResumeAccepted, CallbackRuns, HasRun, Running, Report, NothingSent, dialogs,
     slots, flags, reinvites, history, framework, threads
<1>27. ASSUME NEW c \in Calls, CallbackRuns(c), ResumeRefused(c)
      PROVE  FrameworkTyped'
  BY <1>27 DEF ResumeRefused, CallbackRuns, HasRun, Running, RequestFails, NothingSent,
     dialogs, slots, flags, reinvites, history, framework, threads
<1>28. ASSUME NEW c \in Calls, CallbackRuns(c), CurrentResumed(c)
      PROVE  FrameworkTyped'
  BY <1>28 DEF CurrentResumed, CallbackRuns, HasRun, Running, Report, NothingSent, dialogs,
     slots, flags, reinvites, history, framework, threads
<1>29. ASSUME NEW c \in Calls, CallbackRuns(c), CurrentNotResumed(c)
      PROVE  FrameworkTyped'
  BY <1>29 DEF CurrentNotResumed, CallbackRuns, HasRun, Running, RequestFails, NothingSent,
     dialogs, slots, flags, reinvites, history, framework, threads
<1>30. ASSUME NEW c \in Calls, CallbackRemoved(c)
      PROVE  FrameworkTyped'
  BY <1>30 DEF CallbackRemoved, dialogs, slots, flags, reinvites, history, framework, threads
<1>31. CASE UNCHANGED vars
  BY <1>31 DEF vars, dialogs, slots, flags, reinvites, history, framework, threads
<1> QED
  BY <1>1, <1>2, <1>3, <1>4, <1>5, <1>6, <1>7, <1>8, <1>9, <1>10, <1>11, <1>12, <1>13, <1>14,
     <1>15, <1>16, <1>17, <1>18, <1>19, <1>20, <1>21, <1>22, <1>23, <1>24, <1>25, <1>26,
     <1>27, <1>28, <1>29, <1>30, <1>31
  DEF Next, Framework, Run, RunTask, Peer, Reader, Response, CallbackRuns

\* Continuations fit the re-INVITEs they are sent with.
LEMMA FormsStep ==
  ASSUME ReinvitesTyped, FormsFit, [Next]_vars
  PROVE  FormsFit'
<1> USE DEF FormsFit, Form, ReinvitesTyped
<1>1. ASSUME NEW c \in Calls, AskHold(c)
      PROVE  FormsFit'
  BY <1>1 DEF AskHold, Ask, Input, dialogs, slots, flags, reinvites, history, framework,
     threads
<1>2. ASSUME NEW c \in Calls, AskResume(c)
      PROVE  FormsFit'
  BY <1>2 DEF AskResume, Ask, Input, dialogs, slots, flags, reinvites, history, framework,
     threads
<1>3. ASSUME NEW c \in Calls, AskAccept(c)
      PROVE  FormsFit'
  BY <1>3 DEF AskAccept, Ask, Input, dialogs, slots, flags, reinvites, history, framework,
     threads
<1>4. ASSUME NEW c \in Calls, AskReject(c)
      PROVE  FormsFit'
  BY <1>4 DEF AskReject, Ask, Input, dialogs, slots, flags, reinvites, history, framework,
     threads
<1>5. ASSUME NEW c \in Calls, HangUp(c)
      PROVE  FormsFit'
  BY <1>5 DEF HangUp, TerminateWaiting, TerminateHeld, TerminateUnknown, TerminateUnstarted,
     TerminateCurrent, RefuseWaiting, Refuse, WriteBye, EndSession, Input, dialogs,
     slots, flags, reinvites, history, framework, threads
<1>6. ASSUME NEW c \in Calls, RunHold(c)
      PROVE  FormsFit'
  <2>1. CASE UNCHANGED reinvites
    BY <2>1 DEF reinvites
  <2>2. CASE UNCHANGED answering
             /\ Send(c, "hold", IF held # NoCall /\ waiting = NoCall THEN "move" ELSE "report",
                     NoCall)
    BY <2>2 DEF Send
  <2> QED BY <1>6, <2>1, <2>2 DEF RunHold
<1>7. ASSUME NEW c \in Calls, RunResume(c)
      PROVE  FormsFit'
  <2>1. CASE UNCHANGED reinvites
    BY <2>1 DEF reinvites
  <2>2. CASE ResumeSends(c)
    <3>1. CASE Send(c, "resumeCurrent", "report", NoCall)
      BY <2>2, <3>1 DEF ResumeSends, Send
    <3>2. CASE Send(c, "resume", "swapHeld", swapped)
      BY <2>2, <3>2 DEF ResumeSends, Send
    <3>3. CASE Send(current, "hold", "swap", c)
      BY <2>2, <3>3 DEF ResumeSends, Send
    <3>4. CASE Send(c, "resume", "report", NoCall)
      BY <2>2, <3>4 DEF ResumeSends, Send
    <3> QED BY <2>2, <3>1, <3>2, <3>3, <3>4 DEF ResumeSends
  <2> QED BY <1>7, <2>1, <2>2 DEF RunResume
<1>8. ASSUME NEW c \in Calls, RunAccept(c)
      PROVE  FormsFit'
  BY <1>8 DEF RunAccept, AcceptWaiting, AcceptPlain, AcceptFindsNothing, AcceptUnprepared,
     RefuseWaiting, Refuse, dialogs, slots, flags, reinvites, history, framework,
     threads
<1>9. ASSUME NEW c \in Calls, PrepareAnswer(c)
      PROVE  FormsFit'
  BY <1>9 DEF PrepareAnswer, dialogs, slots, flags, reinvites, history, framework, threads
<1>10. ASSUME NEW c \in Calls, WriteAnswer(c)
      PROVE  FormsFit'
  BY <1>10 DEF WriteAnswer, dialogs, slots, flags, reinvites, history, framework, threads
<1>11. ASSUME NEW c \in Calls, RunReject(c)
      PROVE  FormsFit'
  BY <1>11 DEF RunReject, RefuseWaiting, RefusePlain, RejectFindsNothing, Refuse, dialogs,
     slots, flags, reinvites, history, framework, threads
<1>12. ASSUME NEW c \in Calls, RefusalEnds(c)
      PROVE  FormsFit'
  BY <1>12 DEF RefusalEnds, EndSession, ClearWaiting, StopRuntime, dialogs, slots, flags,
     reinvites, history, framework, threads
<1>13. ASSUME NEW c \in Calls, OutgoingByeDone(c)
      PROVE  FormsFit'
  BY <1>13 DEF OutgoingByeDone, dialogs, slots, flags, reinvites, history, framework, threads
<1>14. ASSUME NEW c \in Calls, Invite(c)
      PROVE  FormsFit'
  BY <1>14 DEF Invite, InviteWaits, InviteBusy, InvitePlain, Refuse, Input, dialogs, slots,
     flags, reinvites, history, framework, threads
<1>15. ASSUME NEW c \in Calls, Ack(c)
      PROVE  FormsFit'
  BY <1>15 DEF Ack, WriteBye, dialogs, slots, flags, reinvites, history, framework, threads
<1>16. ASSUME NEW c \in Calls, Cancel(c)
      PROVE  FormsFit'
  BY <1>16 DEF Cancel, StopRuntime, Input, dialogs, slots, flags, reinvites, history,
     framework, threads
<1>17. ASSUME NEW c \in Calls, Bye(c)
      PROVE  FormsFit'
  <2>1. CASE UNCHANGED reinvites
    BY <2>1 DEF reinvites
  <2>2. CASE Send(held, "resume", "auto", NoCall) /\ UNCHANGED answering
    BY <2>2 DEF Send
  <2> QED BY <1>17, <2>1, <2>2 DEF Bye, ByeHeld, ByeOther, reinvites
<1>18. ASSUME NEW c \in Calls, PeerLearns(c)
      PROVE  FormsFit'
  BY <1>18 DEF PeerLearns, dialogs, slots, flags, reinvites, history, framework, threads
<1>19. ASSUME NEW c \in Calls, CancelAnswers(c)
      PROVE  FormsFit'
  BY <1>19 DEF CancelAnswers, Refuse, dialogs, slots, flags, reinvites, history, framework,
     threads
<1>20. ASSUME NEW c \in Calls, CancelClears(c)
      PROVE  FormsFit'
  BY <1>20 DEF CancelClears, EndSession, ClearWaiting, dialogs, slots, flags, reinvites,
     history, framework, threads
<1>21. ASSUME NEW c \in Calls, NEW ok \in BOOLEAN, TakesResponse(c, ok)
      PROVE  FormsFit'
  BY <1>21 DEF TakesResponse, NoResponse, NoCallback
<1>22. ASSUME NEW c \in Calls, CallbackRuns(c), HoldReported(c)
      PROVE  FormsFit'
  BY <1>22 DEF HoldReported, CallbackRuns, HasRun, NothingSent, NoCallback
<1>23. ASSUME NEW c \in Calls, CallbackRuns(c), HoldMoves(c)
      PROVE  FormsFit'
  BY <1>23 DEF HoldMoves, CallbackRuns, HasRun, NothingSent, NoCallback
<1>24. ASSUME NEW c \in Calls, CallbackRuns(c), HoldGoesOn(c)
      PROVE  FormsFit'
  BY <1>24 DEF HoldGoesOn, CallbackRuns, HasRun, Send, NoCallback
<1>25. ASSUME NEW c \in Calls, CallbackRuns(c), HoldRefused(c)
      PROVE  FormsFit'
  BY <1>25 DEF HoldRefused, CallbackRuns, HasRun, NothingSent, NoCallback
<1>26. ASSUME NEW c \in Calls, CallbackRuns(c), ResumeAccepted(c)
      PROVE  FormsFit'
  BY <1>26 DEF ResumeAccepted, CallbackRuns, HasRun, NothingSent, NoCallback
<1>27. ASSUME NEW c \in Calls, CallbackRuns(c), ResumeRefused(c)
      PROVE  FormsFit'
  BY <1>27 DEF ResumeRefused, CallbackRuns, HasRun, NothingSent, NoCallback
<1>28. ASSUME NEW c \in Calls, CallbackRuns(c), CurrentResumed(c)
      PROVE  FormsFit'
  BY <1>28 DEF CurrentResumed, CallbackRuns, HasRun, NothingSent, NoCallback
<1>29. ASSUME NEW c \in Calls, CallbackRuns(c), CurrentNotResumed(c)
      PROVE  FormsFit'
  BY <1>29 DEF CurrentNotResumed, CallbackRuns, HasRun, NothingSent, NoCallback
<1>30. ASSUME NEW c \in Calls, CallbackRemoved(c)
      PROVE  FormsFit'
  BY <1>30 DEF CallbackRemoved, NoResponse, NoCallback
<1>31. CASE UNCHANGED vars
  BY <1>31 DEF vars, reinvites
<1> QED
  BY <1>1, <1>2, <1>3, <1>4, <1>5, <1>6, <1>7, <1>8, <1>9, <1>10, <1>11, <1>12, <1>13, <1>14,
     <1>15, <1>16, <1>17, <1>18, <1>19, <1>20, <1>21, <1>22, <1>23, <1>24, <1>25, <1>26,
     <1>27, <1>28, <1>29, <1>30, <1>31
  DEF Next, Framework, Run, RunTask, Peer, Reader, Response, CallbackRuns

-----------------------------------------------------------------------------
(* Callbacks and requests *)

\* A step that leaves the callbacks alone, and after which no other request waits, keeps
\* the property.
LEMMA NothingSentOwed ==
  ASSUME AnswerIsOwed, UNCHANGED <<callback, wire, answering, lost>>,
         \A x \in Calls : request'[x] = "sent" => request[x] = "sent"
  PROVE  AnswerIsOwed'
  BY DEF AnswerIsOwed, Owed, Reports

\* A re-INVITE that is sent owes an answer to the session it reports to, or this is lost at
\* once; what its callback replaces is lost. The callback that runs meanwhile has reported,
\* or goes on with this re-INVITE.
LEMMA SendOwed ==
  ASSUME AnswerIsOwed, ReinvitesTyped, NEW c \in Calls, NEW op \in {"hold", "resume", "resumeCurrent"},
         NEW then, NEW other, Send(c, op, then, other), answering'.call = answering.call,
         NEW new, new = [op |-> op, then |-> then, other |-> other],
         \/ UNCHANGED answering
         \/ Reports(answering.call, answering.run) \subseteq Reports(c, new),
         \A x \in Calls : request'[x] = "sent" => request[x] = "sent" \/ x \in Reports(c, new)
  PROVE  AnswerIsOwed'
<1> SUFFICES ASSUME NEW x \in Calls, request'[x] = "sent"
             PROVE  Owed(x)' \/ x \in lost'
  BY DEF AnswerIsOwed
<1>1. callback'[c] = new /\ wire'[c] # << >>
  BY DEF Send, ReinvitesTyped
<1>2. \A d \in Calls \ {c} : callback'[d] = callback[d] /\ wire'[d] = wire[d]
  BY DEF Send, ReinvitesTyped
<1>3. CASE x \in Reports(c, new)
  <2>1. CASE answering.call = c
    BY <1>3, <2>1 DEF Send
  <2>2. CASE answering.call # c
    BY <1>1, <1>3, <2>2 DEF Owed, Reports
  <2> QED BY <2>1, <2>2
<1>4. CASE x \notin Reports(c, new)
  <2>1. Owed(x) \/ x \in lost
    BY <1>4 DEF AnswerIsOwed
  <2>2. CASE x \in lost
    BY <1>4, <2>2 DEF Send
  <2>3. CASE Owed(x)
    <3>1. PICK d \in Calls :
            \/ answering.call = d /\ x \in Reports(d, answering.run)
            \/ answering.call # d /\ wire[d] # << >> /\ x \in Reports(d, callback[d])
      BY <2>3 DEF Owed
    <3>2. CASE answering.call = d /\ x \in Reports(d, answering.run)
      BY <1>4, <3>2 DEF Owed, Reports
    <3>3. CASE answering.call # d /\ x \in Reports(d, callback[d]) /\ d = c
      BY <1>4, <3>3 DEF Send
    <3>4. CASE answering.call # d /\ wire[d] # << >> /\ x \in Reports(d, callback[d]) /\ d # c
      BY <1>2, <3>4 DEF Owed, Reports
    <3> QED BY <3>1, <3>2, <3>3, <3>4
  <2> QED BY <2>1, <2>2, <2>3
<1> QED BY <1>3, <1>4

\* A callback that has run has answered the session it reports to.
LEMMA RunOwed ==
  ASSUME AnswerIsOwed, NEW c \in Calls, answering.call = c, HasRun, NothingSent,
         \A x \in Calls :
           request'[x] = "sent" => request[x] = "sent" /\ x \notin Reports(c, answering.run)
  PROVE  AnswerIsOwed'
  BY DEF AnswerIsOwed, Owed, Reports, HasRun, NothingSent, history, NoCallback

\* Every step keeps the answers owed.
LEMMA OwedStep ==
  ASSUME SlotsTyped, ReinvitesTyped, FrameworkTyped, FormsFit, AnswerIsOwed, [Next]_vars
  PROVE  AnswerIsOwed'
<1> USE CallAssumption DEF FrameworkTyped
<1>1. ASSUME NEW c \in Calls, AskHold(c)
      PROVE  AnswerIsOwed'
  BY <1>1, NothingSentOwed DEF AskHold, Ask, Input, reinvites, history, framework
<1>2. ASSUME NEW c \in Calls, AskResume(c)
      PROVE  AnswerIsOwed'
  BY <1>2, NothingSentOwed DEF AskResume, Ask, Input, reinvites, history, framework
<1>3. ASSUME NEW c \in Calls, AskAccept(c)
      PROVE  AnswerIsOwed'
  BY <1>3, NothingSentOwed DEF AskAccept, Ask, Input, reinvites, history, framework
<1>4. ASSUME NEW c \in Calls, AskReject(c)
      PROVE  AnswerIsOwed'
  BY <1>4, NothingSentOwed DEF AskReject, Ask, Input, reinvites, history, framework
<1>5. ASSUME NEW c \in Calls, HangUp(c)
      PROVE  AnswerIsOwed'
  BY <1>5, NothingSentOwed DEF HangUp, TerminateWaiting, TerminateHeld, TerminateUnknown,
     TerminateUnstarted, TerminateCurrent, RefuseWaiting, Refuse, WriteBye, EndSession,
     Input, reinvites, history, framework
<1>6. ASSUME NEW c \in Calls, RunHold(c)
      PROVE  AnswerIsOwed'
  <2>1. CASE UNCHANGED reinvites /\ RequestFails(c)
    BY <2>1, NothingSentOwed DEF RequestFails, reinvites, history
  <2>2. CASE UNCHANGED answering /\ RequestSent(c)
             /\ Send(c, "hold", IF held # NoCall /\ waiting = NoCall THEN "move" ELSE "report",
                     NoCall)
    <3> DEFINE then == IF held # NoCall /\ waiting = NoCall THEN "move" ELSE "report"
    <3> DEFINE new == [op |-> "hold", then |-> then, other |-> NoCall]
    <3>1. Reports(c, new) = {c}
      BY DEF Reports
    <3>2. \A x \in Calls : request'[x] = "sent" => request[x] = "sent" \/ x \in Reports(c, new)
      BY <2>2, <3>1 DEF RequestSent
    <3> QED BY <2>2, <3>2, SendOwed
  <2> QED BY <1>6, <2>1, <2>2 DEF RunHold
<1>7. ASSUME NEW c \in Calls, RunResume(c)
      PROVE  AnswerIsOwed'
  <2>1. CASE UNCHANGED reinvites /\ RequestFails(c)
    BY <2>1, NothingSentOwed DEF RequestFails, reinvites, history
  <2>2. CASE ResumeSends(c)
    <3>1. CASE Send(c, "resumeCurrent", "report", NoCall)
      <4> DEFINE new == [op |-> "resumeCurrent", then |-> "report", other |-> NoCall]
      <4>1. Reports(c, new) = {c}
        BY DEF Reports
      <4>2. \A x \in Calls : request'[x] = "sent" => request[x] = "sent" \/ x \in Reports(c, new)
        BY <2>2, <4>1 DEF ResumeSends, RequestSent
      <4> QED BY <2>2, <3>1, <4>2, SendOwed DEF ResumeSends
    <3>2. CASE Send(c, "resume", "swapHeld", swapped)
      <4> DEFINE new == [op |-> "resume", then |-> "swapHeld", other |-> swapped]
      <4>1. Reports(c, new) = {c}
        BY DEF Reports
      <4>2. \A x \in Calls : request'[x] = "sent" => request[x] = "sent" \/ x \in Reports(c, new)
        BY <2>2, <4>1 DEF ResumeSends, RequestSent
      <4> QED BY <2>2, <3>2, <4>2, SendOwed DEF ResumeSends
    <3>3. CASE current \notin {c, NoCall} /\ Send(current, "hold", "swap", c)
      <4> DEFINE new == [op |-> "hold", then |-> "swap", other |-> c]
      <4>1. Reports(current, new) = {c}
        BY DEF Reports
      <4>2. \A x \in Calls : request'[x] = "sent" => request[x] = "sent" \/ x \in Reports(current, new)
        BY <2>2, <4>1 DEF ResumeSends, RequestSent
      <4> QED BY <2>2, <3>3, <4>2, SendOwed DEF ResumeSends, SlotsTyped, Slot
    <3>4. CASE Send(c, "resume", "report", NoCall)
      <4> DEFINE new == [op |-> "resume", then |-> "report", other |-> NoCall]
      <4>1. Reports(c, new) = {c}
        BY DEF Reports
      <4>2. \A x \in Calls : request'[x] = "sent" => request[x] = "sent" \/ x \in Reports(c, new)
        BY <2>2, <4>1 DEF ResumeSends, RequestSent
      <4> QED BY <2>2, <3>4, <4>2, SendOwed DEF ResumeSends
    <3> QED BY <2>2, <3>1, <3>2, <3>3, <3>4 DEF ResumeSends
  <2> QED BY <1>7, <2>1, <2>2 DEF RunResume
<1>8. ASSUME NEW c \in Calls, RunAccept(c)
      PROVE  AnswerIsOwed'
  BY <1>8, NothingSentOwed DEF RunAccept, AcceptWaiting, AcceptPlain, AcceptFindsNothing,
     AcceptUnprepared, RefuseWaiting, Refuse, reinvites, history, framework
<1>9. ASSUME NEW c \in Calls, PrepareAnswer(c)
      PROVE  AnswerIsOwed'
  BY <1>9, NothingSentOwed DEF PrepareAnswer, reinvites, history, framework
<1>10. ASSUME NEW c \in Calls, WriteAnswer(c)
      PROVE  AnswerIsOwed'
  BY <1>10, NothingSentOwed DEF WriteAnswer, reinvites, history, framework
<1>11. ASSUME NEW c \in Calls, RunReject(c)
      PROVE  AnswerIsOwed'
  BY <1>11, NothingSentOwed DEF RunReject, RefuseWaiting, RefusePlain, RejectFindsNothing,
     Refuse, reinvites, history, framework
<1>12. ASSUME NEW c \in Calls, RefusalEnds(c)
      PROVE  AnswerIsOwed'
  BY <1>12, NothingSentOwed DEF RefusalEnds, EndSession, ClearWaiting, StopRuntime, reinvites,
     history, framework
<1>13. ASSUME NEW c \in Calls, OutgoingByeDone(c)
      PROVE  AnswerIsOwed'
  BY <1>13, NothingSentOwed DEF OutgoingByeDone, reinvites, history, framework
<1>14. ASSUME NEW c \in Calls, Invite(c)
      PROVE  AnswerIsOwed'
  BY <1>14, NothingSentOwed DEF Invite, InviteWaits, InviteBusy, InvitePlain, Refuse, Input,
     reinvites, history, framework
<1>15. ASSUME NEW c \in Calls, Ack(c)
      PROVE  AnswerIsOwed'
  BY <1>15, NothingSentOwed DEF Ack, WriteBye, reinvites, history, framework
<1>16. ASSUME NEW c \in Calls, Cancel(c)
      PROVE  AnswerIsOwed'
  BY <1>16, NothingSentOwed DEF Cancel, StopRuntime, Input, reinvites, history, framework
<1>17. ASSUME NEW c \in Calls, Bye(c)
      PROVE  AnswerIsOwed'
  <2>1. \A x \in Calls : request'[x] = "sent" => request[x] = "sent"
    BY <1>17 DEF Bye, EndSession
  <2>2. CASE UNCHANGED reinvites
    BY <2>1, <2>2, NothingSentOwed DEF reinvites, history
  <2>3. CASE held # NoCall /\ Send(held, "resume", "auto", NoCall) /\ UNCHANGED answering
    <3> DEFINE new == [op |-> "resume", then |-> "auto", other |-> NoCall]
    <3>1. held \in Calls /\ answering'.call = answering.call
      BY <2>3 DEF SlotsTyped, Slot
    <3>2. \A x \in Calls : request'[x] = "sent" => request[x] = "sent" \/ x \in Reports(held, new)
      BY <2>1
    <3> QED BY <2>3, <3>1, <3>2, SendOwed
  <2> QED BY <1>17, <2>2, <2>3 DEF Bye, ByeHeld, ByeOther, reinvites
<1>18. ASSUME NEW c \in Calls, PeerLearns(c)
      PROVE  AnswerIsOwed'
  BY <1>18, NothingSentOwed DEF PeerLearns, reinvites, history, framework
<1>19. ASSUME NEW c \in Calls, CancelAnswers(c)
      PROVE  AnswerIsOwed'
  BY <1>19, NothingSentOwed DEF CancelAnswers, Refuse, reinvites, history, framework
<1>20. ASSUME NEW c \in Calls, CancelClears(c)
      PROVE  AnswerIsOwed'
  BY <1>20, NothingSentOwed DEF CancelClears, EndSession, ClearWaiting, reinvites, history,
     framework
<1>21. ASSUME NEW c \in Calls, NEW ok \in BOOLEAN, TakesResponse(c, ok)
      PROVE  AnswerIsOwed'
  <2> SUFFICES ASSUME NEW x \in Calls, request'[x] = "sent"
               PROVE  Owed(x)' \/ x \in lost'
    BY DEF AnswerIsOwed
  <2>1. Owed(x) \/ x \in lost'
    BY <1>21 DEF AnswerIsOwed, TakesResponse, framework
  <2>2. CASE Owed(x)
    <3>1. PICK d \in Calls : wire[d] # << >> /\ x \in Reports(d, callback[d])
      BY <1>21, <2>2 DEF Owed, TakesResponse, NoResponse
    <3>2. CASE d = c
      BY <1>21, <3>1, <3>2 DEF Owed, TakesResponse, Reports
    <3>3. CASE d # c
      <4>1. wire'[d] = wire[d] /\ callback'[d] = callback[d]
        BY <1>21, <3>3 DEF TakesResponse, ReinvitesTyped
      <4>2. answering'.call # d
        BY <1>21, <3>3 DEF TakesResponse, NoResponse
      <4> QED BY <3>1, <4>1, <4>2 DEF Owed, Reports
    <3> QED BY <3>2, <3>3
  <2> QED BY <2>1, <2>2
<1>22. ASSUME NEW c \in Calls, CallbackRuns(c), HoldReported(c)
      PROVE  AnswerIsOwed'
  <2>1. \A x \in Calls :
          request'[x] = "sent" => request[x] = "sent" /\ x \notin Reports(c, answering.run)
    BY <1>22 DEF HoldReported, CallbackRuns, Running, Report, RequestFails, Reports, FormsFit, Form,
     FrameworkTyped
  <2> QED BY <1>22, <2>1, RunOwed DEF CallbackRuns, HoldReported
<1>23. ASSUME NEW c \in Calls, CallbackRuns(c), HoldMoves(c)
      PROVE  AnswerIsOwed'
  <2>1. \A x \in Calls :
          request'[x] = "sent" => request[x] = "sent" /\ x \notin Reports(c, answering.run)
    BY <1>23 DEF HoldMoves, CallbackRuns, Running, Report, RequestFails, Reports, FormsFit, Form,
     FrameworkTyped
  <2> QED BY <1>23, <2>1, RunOwed DEF CallbackRuns, HoldMoves
<1>24. ASSUME NEW c \in Calls, CallbackRuns(c), HoldGoesOn(c)
      PROVE  AnswerIsOwed'
  <2> DEFINE other == answering.run.other
  <2> DEFINE new == [op |-> "resume", then |-> "swapBack", other |-> c]
  <2>1. other \in Calls /\ Reports(other, new) = {other} /\ Reports(c, answering.run) = {other}
    BY <1>24 DEF HoldGoesOn, FormsFit, Form, Running, Reports
  <2>2. answering'.call = answering.call /\ answering.call = c
    BY <1>24 DEF CallbackRuns, HasRun
  <2>3. request' = request /\ Send(other, "resume", "swapBack", c)
    BY <1>24 DEF HoldGoesOn
  <2> QED BY <2>1, <2>2, <2>3, SendOwed
<1>25. ASSUME NEW c \in Calls, CallbackRuns(c), HoldRefused(c)
      PROVE  AnswerIsOwed'
  <2>1. \A x \in Calls :
          request'[x] = "sent" => request[x] = "sent" /\ x \notin Reports(c, answering.run)
    BY <1>25 DEF HoldRefused, CallbackRuns, Running, Report, RequestFails, Reports, FormsFit, Form,
     FrameworkTyped
  <2> QED BY <1>25, <2>1, RunOwed DEF CallbackRuns, HoldRefused
<1>26. ASSUME NEW c \in Calls, CallbackRuns(c), ResumeAccepted(c)
      PROVE  AnswerIsOwed'
  <2>1. \A x \in Calls :
          request'[x] = "sent" => request[x] = "sent" /\ x \notin Reports(c, answering.run)
    BY <1>26 DEF ResumeAccepted, CallbackRuns, Running, Report, RequestFails, Reports, FormsFit, Form,
     FrameworkTyped
  <2> QED BY <1>26, <2>1, RunOwed DEF CallbackRuns, ResumeAccepted
<1>27. ASSUME NEW c \in Calls, CallbackRuns(c), ResumeRefused(c)
      PROVE  AnswerIsOwed'
  <2>1. \A x \in Calls :
          request'[x] = "sent" => request[x] = "sent" /\ x \notin Reports(c, answering.run)
    BY <1>27 DEF ResumeRefused, CallbackRuns, Running, Report, RequestFails, Reports, FormsFit, Form,
     FrameworkTyped
  <2> QED BY <1>27, <2>1, RunOwed DEF CallbackRuns, ResumeRefused
<1>28. ASSUME NEW c \in Calls, CallbackRuns(c), CurrentResumed(c)
      PROVE  AnswerIsOwed'
  <2>1. \A x \in Calls :
          request'[x] = "sent" => request[x] = "sent" /\ x \notin Reports(c, answering.run)
    BY <1>28 DEF CurrentResumed, CallbackRuns, Running, Report, RequestFails, Reports, FormsFit, Form,
     FrameworkTyped
  <2> QED BY <1>28, <2>1, RunOwed DEF CallbackRuns, CurrentResumed
<1>29. ASSUME NEW c \in Calls, CallbackRuns(c), CurrentNotResumed(c)
      PROVE  AnswerIsOwed'
  <2>1. \A x \in Calls :
          request'[x] = "sent" => request[x] = "sent" /\ x \notin Reports(c, answering.run)
    BY <1>29 DEF CurrentNotResumed, CallbackRuns, Running, Report, RequestFails, Reports, FormsFit, Form,
     FrameworkTyped
  <2> QED BY <1>29, <2>1, RunOwed DEF CallbackRuns, CurrentNotResumed
<1>30. ASSUME NEW c \in Calls, CallbackRemoved(c)
      PROVE  AnswerIsOwed'
  <2> SUFFICES ASSUME NEW x \in Calls, request'[x] = "sent"
               PROVE  Owed(x)' \/ x \in lost'
    BY DEF AnswerIsOwed
  <2>1. Owed(x) \/ x \in lost'
    BY <1>30 DEF AnswerIsOwed, CallbackRemoved, framework, history
  <2>2. CASE Owed(x)
    <3>1. PICK d \in Calls : d # c /\ wire[d] # << >> /\ x \in Reports(d, callback[d])
      BY <1>30, <2>2 DEF Owed, CallbackRemoved, Running, Reports
    <3>2. wire'[d] = wire[d] /\ callback'[d] = callback[d] /\ answering'.call # d
      BY <1>30, <3>1 DEF CallbackRemoved, NoResponse, ReinvitesTyped
    <3> QED BY <3>1, <3>2 DEF Owed, Reports
  <2> QED BY <2>1, <2>2
<1>31. CASE UNCHANGED vars
  BY <1>31, NothingSentOwed DEF vars, reinvites, history, framework
<1> QED
  BY <1>1, <1>2, <1>3, <1>4, <1>5, <1>6, <1>7, <1>8, <1>9, <1>10, <1>11, <1>12, <1>13, <1>14,
     <1>15, <1>16, <1>17, <1>18, <1>19, <1>20, <1>21, <1>22, <1>23, <1>24, <1>25, <1>26,
     <1>27, <1>28, <1>29, <1>30, <1>31
  DEF Next, Framework, Run, RunTask, Peer, Reader, Response, CallbackRuns

-----------------------------------------------------------------------------
(* The theorems *)

Inv == TypeOK /\ FormsFit /\ AnswerIsOwed

\* The invariant of both theorems: it holds at the start, and every step keeps it.
LEMMA InvHolds == Spec => []Inv
<1>1. Init => Inv
  <2> SUFFICES ASSUME Init
               PROVE  Inv
    OBVIOUS
  <2>1. PeersTyped
    BY CallAssumption DEF Init, PeersTyped
  <2>2. SlotsTyped
    <3>1. PICK k \in {"outgoing", "plain"} : finalSent = (k = "plain")
      BY DEF Init
    <3>2. finalSent \in BOOLEAN
      BY <3>1, Zenon
    <3>3. /\ current \in Slot /\ held \in Slot /\ swapped \in Slot /\ waiting \in Slot
          /\ playing \in Slot /\ hangup \in BOOLEAN
      <4>1. current = First /\ held = NoCall /\ swapped = NoCall /\ waiting = NoCall
            /\ playing = First /\ hangup = FALSE
        BY DEF Init
      <4> QED BY <4>1, CallAssumption DEF Slot
    <3> QED BY <3>2, <3>3 DEF SlotsTyped
  <2>3. ReinvitesTyped
    BY EmptyTyped DEF Init, ReinvitesTyped
  <2>4. FrameworkTyped
    BY InputAssumption DEF Init, FrameworkTyped
  <2>5. FormsFit
    BY DEF Init, FormsFit, Form, NoCallback, NoResponse
  <2>6. AnswerIsOwed
    BY DEF Init, AnswerIsOwed
  <2> QED BY <2>1, <2>2, <2>3, <2>4, <2>5, <2>6, TypeParts DEF Inv
<1>2. Inv /\ [Next]_vars => Inv'
  <2> SUFFICES ASSUME Inv, [Next]_vars
               PROVE  Inv'
    OBVIOUS
  <2>1. PeersTyped /\ SlotsTyped /\ ReinvitesTyped /\ FrameworkTyped
    BY TypeParts DEF Inv
  <2>2. PeersTyped' /\ SlotsTyped' /\ ReinvitesTyped' /\ FrameworkTyped'
    BY <2>1, PeersStep, SlotsStep, ReinvitesStep, FrameworkStep DEF Inv
  <2>3. TypeOK'
    BY <2>2 DEF TypeOK, PeersTyped, SlotsTyped, ReinvitesTyped, FrameworkTyped
  <2>4. FormsFit' /\ AnswerIsOwed'
    BY <2>1, FormsStep, OwedStep DEF Inv
  <2> QED BY <2>3, <2>4 DEF Inv
<1> QED BY <1>1, <1>2, PTL DEF Spec

\* Every reachable state is well typed, for any set of Call-IDs: slots, callbacks, responses
\* and threads (3805-3808, SipDispatcher 46-75).
THEOREM TypeCorrect == Spec => []TypeOK
  BY InvHolds, PTL DEF Inv

\* For any number of calls and requests, a hold or resume that waits for its answer has a
\* callback that stands under an unanswered re-INVITE or is running, or has lost it to a
\* later re-INVITE of the dialog or to the late removal of an earlier callback (6756-6790,
\* 7093-7132, 7160-7331, SipDispatcher 170-194).
THEOREM AnswersStayOwed == Spec => []AnswerIsOwed
  BY InvHolds, PTL DEF Inv
=============================================================================
