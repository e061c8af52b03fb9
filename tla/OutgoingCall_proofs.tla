------------------------- MODULE OutgoingCall_proofs -------------------------
(***************************************************************************)
(* OutgoingCall.TypeOK is an invariant, part by part, for any number of     *)
(* calls, any set of codecs and any bound on the inputs.                    *)
(*                                                                         *)
(* A session is reported as connected only after the 2xx of its own call    *)
(* was acknowledged; one begun before the last call was cleared away, after  *)
(* that of an earlier one at least. That is not inductive. RTP connects a    *)
(* session when callStarted is set, and callStarted belongs to no call.      *)
(* Always, callStarted stands for an acknowledged call (AckedBefore), and    *)
(* calls are made in order, so that it is the latest or an earlier one       *)
(* (MadeInOrder, NamesAreMade, NewIsUntouched). If the latest began with     *)
(* nothing left of the others, every variable that names a call names it     *)
(* (OneAtATime), none of them before its INVITE is pending (FreshIsIdle) or  *)
(* after its session ended (EndedHasNoInvite), and respInFlight of an older  *)
(* call is not resumed by its PRACK (PrackIsOfOwner): then callStarted is    *)
(* its own (StartedIsAnswered).                                              *)
(***************************************************************************)
EXTENDS OutgoingCall, TLAPS

-----------------------------------------------------------------------------
(* Type correctness *)

\* The message read is taken off a queue of messages.
LEMMA PoppedTyped ==
  ASSUME wire \in [Calls -> Seq(Messages)], NEW c \in Calls, wire[c] # << >>
  PROVE  Popped(c) \in [Calls -> Seq(Messages)]
  BY DEF Popped

\* What the reader takes is a message.
LEMMA HeadTyped ==
  ASSUME PeerTyped, NEW c \in Calls, wire[c] # << >>
  PROVE  Head(wire[c]) \in Messages /\ Head(wire[c]).kind \in Responses \cup {"bye"}
         /\ Head(wire[c]).sdp \in Codecs \cup {NoSdp}
<1>1. Head(wire[c]) \in Messages
  BY DEF PeerTyped
<1> QED BY <1>1 DEF Messages

\* What a callee sends in one step is a queue of messages.
LEMMA MessagesTyped ==
  /\ \A kind \in Responses \cup {"bye"}, sdp \in Codecs \cup {NoSdp} :
       <<Msg(kind, sdp)>> \in Seq(Messages)
  /\ << >> \in Seq(Messages)
  BY DEF Msg, Messages

\* A request that reaches the callee leaves its state and its queue well typed.
LEMMA GetsTyped ==
  ASSUME NEW c \in Calls, NEW w \in [Calls -> Seq(Messages)], NEW reply \in Seq(Messages),
         NEW state \in {"none", "early", "media", "answered", "confirmed", "over"},
         uas \in [Calls -> {"none", "early", "media", "answered", "confirmed", "over"}],
         CalleeGets(c, state, reply, w)
  PROVE  /\ uas' \in [Calls -> {"none", "early", "media", "answered", "confirmed", "over"}]
         /\ wire' \in [Calls -> Seq(Messages)]
  <1>1. w[c] \o reply \in Seq(Messages)
    OBVIOUS
  <1> QED BY <1>1 DEF CalleeGets

\* Each step keeps the types of pendingOutgoingInvite and of the calling thread.
LEMMA InviteStep ==
  ASSUME TypeOK, [Next]_vars
  PROVE  InviteTyped'
<1> USE DEF TypeOK, InviteTyped, NoCall
<1>1. ASSUME NEW c \in Calls, Start(c)
      PROVE  InviteTyped'
  BY <1>1 DEF Start, invite
<1>2. ASSUME NEW c \in Calls, CallPrepares(c)
      PROVE  InviteTyped'
  BY <1>2 DEF CallPrepares, invite
<1>3. ASSUME NEW c \in Calls, CallWrites(c)
      PROVE  InviteTyped'
  BY <1>3 DEF CallWrites, FailSetup, StopRuntime, Tell, invite
<1>4. CASE TerminateBegins
  BY <1>4 DEF TerminateBegins, StopRuntime, Job, invite
<1>5. CASE TerminateCancels
  BY <1>5 DEF TerminateCancels, Cleared, StopRuntime, Tell, invite
<1>6. CASE TerminateByes
  BY <1>6 DEF TerminateByes, Cleared, StopRuntime, Tell, invite
<1>7. ASSUME NEW c \in Calls, ReliableProvisional(c)
      PROVE  InviteTyped'
  BY <1>7 DEF ReliableProvisional, FailSetup, StopRuntime, Tell, invite
<1>8. ASSUME NEW c \in Calls, UpdateUnwritten(c)
      PROVE  InviteTyped'
  BY <1>8 DEF UpdateUnwritten, StopRuntime, Tell, invite
<1>9. ASSUME NEW c \in Calls, Retry(c)
      PROVE  InviteTyped'
  <2>1. retried' \subseteq Calls \X {"422", "illegal"}
    BY <1>9 DEF Retry, Retries
  <2>2. attempt' \in [Calls -> Nat]
    BY <1>9 DEF Retry
  <2> QED BY <1>9, <2>1, <2>2 DEF Retry, FailSetup
<1>10. ASSUME NEW c \in Calls, Fails(c)
      PROVE  InviteTyped'
  BY <1>10 DEF Fails, StopRuntime, Tell, Cleared, invite
<1>11. ASSUME NEW c \in Calls, AckFinal(c)
      PROVE  InviteTyped'
  BY <1>11 DEF AckFinal, FailSetup, StopRuntime, Tell, invite
<1>12. CASE FinishFinal
  BY <1>12 DEF FinishFinal, HangUpCancelled, AnswerWithoutSdp, AnswerWithSdp, CodecChanges, Cleared,
     StopRuntime, invite
<1>13. ASSUME NEW c \in Calls, ByeAnswered(c)
      PROVE  InviteTyped'
  BY <1>13 DEF ByeAnswered, Cleared, invite
<1>14. ASSUME NEW c \in Calls, RemoteBye(c)
      PROVE  InviteTyped'
  BY <1>14 DEF RemoteBye, StopRuntime, Cleared, Tell, invite
<1>15. ASSUME NEW c \in Calls, WatchByes(c)
      PROVE  InviteTyped'
  BY <1>15 DEF WatchByes, StopRuntime, Cleared, Tell, invite
<1>16. CASE DropConnection
  BY <1>16 DEF DropConnection, DropAll, StopRuntime, Input, invite
<1>17. CASE NetworkLost
  BY <1>17 DEF NetworkLost, DropAll, StopRuntime, Input, Tell, invite
<1>18. ASSUME NEW c \in Calls,
           ByeTimer(c) \/ RestartMedia(c) \/ IgnoreResponse(c) \/ Progressing(c) \/
              Provisional(c) \/
           PrackFailed(c) \/ RtpArrives(c) \/ WatchEnds(c) \/ Callee(c) \/ GivesUp(c)
      PROVE  InviteTyped'
  BY <1>18 DEF ByeTimer, RestartMedia, IgnoreResponse, Progressing, Provisional, PrackFailed,
     RtpArrives, WatchEnds, Callee, GivesUp, InstallProvisional, Rings, SendsSdp, Refuses,
     Answers, CalleeOnly, invite
<1>19. CASE HangUp \/ Break \/ Connected
  BY <1>19 DEF HangUp, Break, Connected, invite
<1>20. CASE UNCHANGED vars
  BY <1>20 DEF vars, invite
<1> QED
  BY <1>1, <1>2, <1>3, <1>4, <1>5, <1>6, <1>7, <1>8, <1>9, <1>10, <1>11, <1>12, <1>13, <1>14,
     <1>15, <1>16, <1>17, <1>18, <1>19, <1>20 DEF Next, CallThread, Looper, ReadsOf, WatchThread

\* Each step keeps the types of currentCall and of the media flags.
LEMMA DialogStep ==
  ASSUME TypeOK, [Next]_vars
  PROVE  DialogTyped'
<1> USE DEF TypeOK, DialogTyped, NoCall
<1>1. ASSUME NEW c \in Calls, CallPrepares(c)
      PROVE  DialogTyped'
  BY <1>1 DEF CallPrepares, dialog, media
<1>2. ASSUME NEW c \in Calls, CallWrites(c)
      PROVE  DialogTyped'
  BY <1>2 DEF CallWrites, FailSetup, StopRuntime, Tell, dialog, media
<1>3. CASE TerminateBegins
  BY <1>3 DEF TerminateBegins, StopRuntime, Job, dialog, media
<1>4. CASE TerminateCancels
  BY <1>4 DEF TerminateCancels, Cleared, StopRuntime, Tell, dialog, media
<1>5. CASE TerminateByes
  BY <1>5 DEF TerminateByes, Cleared, StopRuntime, Tell, dialog, media
<1>6. ASSUME NEW c \in Calls, ByeTimer(c)
      PROVE  DialogTyped'
  BY <1>6 DEF ByeTimer, dialog, media
<1>7. ASSUME NEW c \in Calls, RestartMedia(c)
      PROVE  DialogTyped'
  BY <1>7 DEF RestartMedia, dialog, media
<1>8. ASSUME NEW c \in Calls, ReliableProvisional(c)
      PROVE  DialogTyped'
  BY <1>8 DEF ReliableProvisional, FailSetup, StopRuntime, Tell, dialog, media
<1>9. ASSUME NEW c \in Calls, Provisional(c)
      PROVE  DialogTyped'
  BY <1>9, HeadTyped DEF Provisional, InstallProvisional, CodecChanges, dialog, media, Reads,
     ReaderTyped
<1>10. ASSUME NEW c \in Calls, UpdateUnwritten(c)
      PROVE  DialogTyped'
  BY <1>10 DEF UpdateUnwritten, StopRuntime, Tell, dialog, media
<1>11. ASSUME NEW c \in Calls, Retry(c)
      PROVE  DialogTyped'
  BY <1>11 DEF Retry, FailSetup, StopRuntime, Tell, dialog, media
<1>12. ASSUME NEW c \in Calls, Fails(c)
      PROVE  DialogTyped'
  BY <1>12 DEF Fails, StopRuntime, Tell, Cleared, dialog, media
<1>13. ASSUME NEW c \in Calls, AckFinal(c)
      PROVE  DialogTyped'
  BY <1>13 DEF AckFinal, FailSetup, StopRuntime, Tell, dialog, media
<1>14. CASE FinishFinal
  BY <1>14 DEF FinishFinal, HangUpCancelled, AnswerWithoutSdp, AnswerWithSdp, CodecChanges, Cleared,
     StopRuntime, dialog, media, ReaderTyped
<1>15. ASSUME NEW c \in Calls, ByeAnswered(c)
      PROVE  DialogTyped'
  BY <1>15 DEF ByeAnswered, Cleared, dialog, media
<1>16. ASSUME NEW c \in Calls, RemoteBye(c)
      PROVE  DialogTyped'
  BY <1>16 DEF RemoteBye, StopRuntime, Cleared, Tell, dialog, media
<1>17. ASSUME NEW c \in Calls, RtpArrives(c)
      PROVE  DialogTyped'
  BY <1>17 DEF RtpArrives, dialog, media
<1>18. ASSUME NEW c \in Calls, WatchEnds(c)
      PROVE  DialogTyped'
  BY <1>18 DEF WatchEnds, StopRuntime, dialog, media
<1>19. ASSUME NEW c \in Calls, WatchByes(c)
      PROVE  DialogTyped'
  BY <1>19 DEF WatchByes, StopRuntime, Cleared, Tell, dialog, media
<1>20. CASE DropConnection
  BY <1>20 DEF DropConnection, DropAll, StopRuntime, Input, dialog, media
<1>21. CASE NetworkLost
  BY <1>21 DEF NetworkLost, DropAll, StopRuntime, Input, Tell, dialog, media
<1>22. ASSUME NEW c \in Calls,
           Start(c) \/ IgnoreResponse(c) \/ Progressing(c) \/ PrackFailed(c) \/ Callee(c) \/
              GivesUp(c)
      PROVE  DialogTyped'
  BY <1>22 DEF Start, IgnoreResponse, Progressing, PrackFailed, Callee, GivesUp, Rings, SendsSdp,
     Refuses, Answers, CalleeOnly, dialog, media
<1>23. CASE HangUp \/ Break \/ Connected
  BY <1>23 DEF HangUp, Break, Connected, dialog, media
<1>24. CASE UNCHANGED vars
  BY <1>24 DEF vars, dialog, media
<1> QED
  BY <1>1, <1>2, <1>3, <1>4, <1>5, <1>6, <1>7, <1>8, <1>9, <1>10, <1>11, <1>12, <1>13, <1>14,
     <1>15, <1>16, <1>17, <1>18, <1>19, <1>20, <1>21, <1>22, <1>23, <1>24 DEF Next, CallThread,
        Looper, ReadsOf, WatchThread

\* Each step keeps the types of what the looper and the RTP timeout have to do.
LEMMA TasksStep ==
  ASSUME TypeOK, [Next]_vars
  PROVE  TasksTyped'
<1> USE DEF TypeOK, TasksTyped, NoCall
<1>1. CASE HangUp
  BY <1>1 DEF HangUp, Input, tasks
<1>2. CASE TerminateBegins
  <2>1. \A c \in Calls, kind \in {"cancel", "cancelCurrent", "bye"} :
          Job(c, kind) \in [call : Calls, kind : {"cancel", "cancelCurrent", "bye"}, seq : Nat]
    BY DEF Job, InviteTyped
  <2>2. looper' \in [call : Calls, kind : {"cancel", "cancelCurrent", "bye"},
     seq : Nat] \cup {NoJob}
    BY <1>2, <2>1 DEF TerminateBegins, InviteTyped, DialogTyped
  <2> QED BY <1>2, <2>2 DEF TerminateBegins
<1>3. CASE TerminateCancels
  BY <1>3 DEF TerminateCancels, Cleared, StopRuntime, Tell, tasks, NoJob
<1>4. CASE TerminateByes
  BY <1>4 DEF TerminateByes, Cleared, StopRuntime, Tell, tasks, NoJob
<1>5. ASSUME NEW c \in Calls, ByeTimer(c)
      PROVE  TasksTyped'
  BY <1>5 DEF ByeTimer, tasks
<1>6. ASSUME NEW c \in Calls, RestartMedia(c)
      PROVE  TasksTyped'
  BY <1>6 DEF RestartMedia, tasks
<1>7. ASSUME NEW c \in Calls, Provisional(c)
      PROVE  TasksTyped'
  BY <1>7 DEF Provisional, InstallProvisional, CodecChanges, tasks, ReaderTyped
<1>8. CASE FinishFinal
  BY <1>8 DEF FinishFinal, HangUpCancelled, AnswerWithoutSdp, AnswerWithSdp, CodecChanges, Cleared,
     StopRuntime, tasks, ReaderTyped, NoAnswer
<1>9. ASSUME NEW c \in Calls, WatchEnds(c)
      PROVE  TasksTyped'
  BY <1>9 DEF WatchEnds, StopRuntime, tasks
<1>10. ASSUME NEW c \in Calls, WatchByes(c)
      PROVE  TasksTyped'
  BY <1>10 DEF WatchByes, StopRuntime, Cleared, Tell, tasks
<1>11. ASSUME NEW c \in Calls,
           Start(c) \/ CallPrepares(c) \/ CallWrites(c) \/ IgnoreResponse(c) \/ Progressing(c) \/
           ReliableProvisional(c) \/ PrackFailed(c) \/ UpdateUnwritten(c) \/ Retry(c) \/ Fails(c) \/
           AckFinal(c) \/ ByeAnswered(c) \/ RemoteBye(c) \/ RtpArrives(c) \/ Callee(c) \/ GivesUp(c)
      PROVE  TasksTyped'
  BY <1>11 DEF Start, CallPrepares, CallWrites, IgnoreResponse, Progressing, ReliableProvisional,
     PrackFailed, UpdateUnwritten, Retry, Fails, AckFinal, ByeAnswered, RemoteBye, RtpArrives,
     Callee, GivesUp, Rings, SendsSdp, Refuses, Answers, CalleeOnly, tasks
<1>12. CASE Break \/ DropConnection \/ NetworkLost \/ Connected
  BY <1>12 DEF Break, DropConnection, NetworkLost, Connected, DropAll, tasks
<1>13. CASE UNCHANGED vars
  BY <1>13 DEF vars, tasks
<1> QED
  BY <1>1, <1>2, <1>3, <1>4, <1>5, <1>6, <1>7, <1>8, <1>9, <1>10, <1>11, <1>12, <1>13 DEF Next,
     CallThread, Looper, ReadsOf, WatchThread

\* Each step keeps the types of the SIP reader, respInFlight and the call-id sets.
LEMMA ReaderStep ==
  ASSUME TypeOK, [Next]_vars
  PROVE  ReaderTyped'
<1> USE DEF TypeOK, ReaderTyped, NoCall
<1>1. ASSUME NEW c \in Calls, CallPrepares(c)
      PROVE  ReaderTyped'
  BY <1>1 DEF CallPrepares
<1>2. ASSUME NEW c \in Calls, CallWrites(c)
      PROVE  ReaderTyped'
  BY <1>2 DEF CallWrites, FailSetup, StopRuntime, Tell
<1>3. CASE TerminateCancels
  BY <1>3 DEF TerminateCancels, Cleared, StopRuntime, Tell
<1>4. CASE TerminateByes
  BY <1>4 DEF TerminateByes, Cleared, StopRuntime, Tell
<1>5. ASSUME NEW c \in Calls, IgnoreResponse(c)
      PROVE  ReaderTyped'
  BY <1>5 DEF IgnoreResponse
<1>6. ASSUME NEW c \in Calls, ReliableProvisional(c)
      PROVE  ReaderTyped'
  BY <1>6, HeadTyped DEF ReliableProvisional, FailSetup, StopRuntime, Tell, Reads
<1>7. ASSUME NEW c \in Calls, Provisional(c)
      PROVE  ReaderTyped'
  BY <1>7 DEF Provisional, InstallProvisional, CodecChanges
<1>8. ASSUME NEW c \in Calls, PrackFailed(c)
      PROVE  ReaderTyped'
  BY <1>8 DEF PrackFailed
<1>9. ASSUME NEW c \in Calls, UpdateUnwritten(c)
      PROVE  ReaderTyped'
  BY <1>9 DEF UpdateUnwritten, StopRuntime, Tell
<1>10. ASSUME NEW c \in Calls, Retry(c)
      PROVE  ReaderTyped'
  BY <1>10 DEF Retry, FailSetup, StopRuntime, Tell
<1>11. ASSUME NEW c \in Calls, Fails(c)
      PROVE  ReaderTyped'
  BY <1>11 DEF Fails, StopRuntime, Tell, Cleared
<1>12. ASSUME NEW c \in Calls, AckFinal(c)
      PROVE  ReaderTyped'
  <2>1. Head(wire[c]).sdp \in Codecs \cup {NoSdp}
    BY <1>12, HeadTyped DEF AckFinal, Reads
  <2> DEFINE late == pending = c /\ c \in cancelSent
             answer == [call |-> c, sdp |-> Head(wire[c]).sdp, cancelled |-> late]
  <2>2. reader' = reader \/ reader' = answer
    BY <1>12 DEF AckFinal
  <2>3. late \in BOOLEAN
    OBVIOUS
  <2> HIDE DEF late
  <2>4. answer \in [call : Calls, sdp : Codecs \cup {NoSdp}, cancelled : BOOLEAN]
    BY <2>1, <2>3
  <2> HIDE DEF answer
  <2>5. reader' \in [call : Calls, sdp : Codecs \cup {NoSdp}, cancelled : BOOLEAN] \cup {NoAnswer}
    BY <2>2, <2>4
  <2> QED BY <1>12, <2>5 DEF AckFinal, FailSetup
<1>13. CASE FinishFinal
  BY <1>13 DEF FinishFinal, HangUpCancelled, AnswerWithoutSdp, AnswerWithSdp, CodecChanges, Cleared,
     StopRuntime, NoAnswer
<1>14. ASSUME NEW c \in Calls, ByeAnswered(c)
      PROVE  ReaderTyped'
  BY <1>14 DEF ByeAnswered, Cleared
<1>15. ASSUME NEW c \in Calls, RemoteBye(c)
      PROVE  ReaderTyped'
  BY <1>15 DEF RemoteBye, StopRuntime, Cleared, Tell
<1>16. ASSUME NEW c \in Calls, RtpArrives(c)
      PROVE  ReaderTyped'
  BY <1>16 DEF RtpArrives
<1>17. ASSUME NEW c \in Calls, WatchEnds(c)
      PROVE  ReaderTyped'
  BY <1>17 DEF WatchEnds, StopRuntime
<1>18. ASSUME NEW c \in Calls, WatchByes(c)
      PROVE  ReaderTyped'
  BY <1>18 DEF WatchByes, StopRuntime, Cleared, Tell
<1>19. CASE DropConnection
  BY <1>19 DEF DropConnection, DropAll, StopRuntime, Input
<1>20. CASE NetworkLost
  BY <1>20 DEF NetworkLost, DropAll, StopRuntime, Input, Tell
<1>21. ASSUME NEW c \in Calls,
           Start(c) \/ ByeTimer(c) \/ RestartMedia(c) \/ Progressing(c) \/ Callee(c) \/ GivesUp(c)
      PROVE  ReaderTyped'
  BY <1>21 DEF Start, ByeTimer, RestartMedia, Progressing, Callee, GivesUp, Rings, SendsSdp,
     Refuses, Answers, CalleeOnly
<1>22. CASE HangUp \/ TerminateBegins \/ Break \/ Connected
  BY <1>22 DEF HangUp, TerminateBegins, Break, Connected
<1>23. CASE UNCHANGED vars
  BY <1>23 DEF vars
<1> QED
  BY <1>1, <1>2, <1>3, <1>4, <1>5, <1>6, <1>7, <1>8, <1>9, <1>10, <1>11, <1>12, <1>13, <1>14,
     <1>15, <1>16, <1>17, <1>18, <1>19, <1>20, <1>21, <1>22, <1>23 DEF Next, CallThread, Looper,
        ReadsOf, WatchThread

\* Each step keeps the types of what the framework sees.
LEMMA SessionStep ==
  ASSUME TypeOK, [Next]_vars
  PROVE  SessionTyped'
<1> USE DEF TypeOK, SessionTyped, NoCall
<1>1. ASSUME NEW c \in Calls, Start(c)
      PROVE  SessionTyped'
  BY <1>1 DEF Start, told, Live
<1>2. ASSUME NEW c \in Calls, CallWrites(c)
      PROVE  SessionTyped'
  BY <1>2 DEF CallWrites, FailSetup, StopRuntime, Tell, told
<1>3. CASE TerminateCancels
  BY <1>3 DEF TerminateCancels, Cleared, StopRuntime, Tell, told
<1>4. CASE TerminateByes
  BY <1>4 DEF TerminateByes, Cleared, StopRuntime, Tell, told
<1>5. ASSUME NEW c \in Calls, Progressing(c)
      PROVE  SessionTyped'
  BY <1>5 DEF Progressing, told
<1>6. ASSUME NEW c \in Calls, ReliableProvisional(c)
      PROVE  SessionTyped'
  BY <1>6 DEF ReliableProvisional, FailSetup, StopRuntime, Tell, told
<1>7. ASSUME NEW c \in Calls, UpdateUnwritten(c)
      PROVE  SessionTyped'
  BY <1>7 DEF UpdateUnwritten, StopRuntime, Tell, told
<1>8. ASSUME NEW c \in Calls, Retry(c)
      PROVE  SessionTyped'
  BY <1>8 DEF Retry, FailSetup, StopRuntime, Tell, told
<1>9. ASSUME NEW c \in Calls, Fails(c)
      PROVE  SessionTyped'
  BY <1>9 DEF Fails, StopRuntime, Tell, Cleared, told
<1>10. ASSUME NEW c \in Calls, AckFinal(c)
      PROVE  SessionTyped'
  BY <1>10 DEF AckFinal, FailSetup, StopRuntime, Tell, told
<1>11. ASSUME NEW c \in Calls, RemoteBye(c)
      PROVE  SessionTyped'
  BY <1>11 DEF RemoteBye, StopRuntime, Cleared, Tell, told
<1>12. ASSUME NEW c \in Calls, RtpArrives(c)
      PROVE  SessionTyped'
  BY <1>12 DEF RtpArrives, told, Live
<1>13. ASSUME NEW c \in Calls, WatchByes(c)
      PROVE  SessionTyped'
  BY <1>13 DEF WatchByes, StopRuntime, Cleared, Tell, told
<1>14. CASE NetworkLost
  BY <1>14 DEF NetworkLost, DropAll, StopRuntime, Input, Tell, told
<1>15. ASSUME NEW c \in Calls,
           CallPrepares(c) \/ ByeTimer(c) \/ RestartMedia(c) \/ IgnoreResponse(c) \/
              Provisional(c) \/
           PrackFailed(c) \/ ByeAnswered(c) \/ WatchEnds(c) \/ Callee(c) \/ GivesUp(c)
      PROVE  SessionTyped'
  BY <1>15 DEF CallPrepares, ByeTimer, RestartMedia, IgnoreResponse, Provisional, PrackFailed,
     ByeAnswered, WatchEnds, Callee, GivesUp, InstallProvisional, Rings, SendsSdp, Refuses,
     Answers, CalleeOnly, told
<1>16. CASE HangUp \/ TerminateBegins \/ FinishFinal \/ Break \/ DropConnection \/ Connected
  BY <1>16 DEF HangUp, TerminateBegins, FinishFinal, Break, DropConnection, Connected,
     HangUpCancelled, AnswerWithoutSdp, AnswerWithSdp, DropAll, told
<1>17. CASE UNCHANGED vars
  BY <1>17 DEF vars, told
<1> QED
  BY <1>1, <1>2, <1>3, <1>4, <1>5, <1>6, <1>7, <1>8, <1>9, <1>10, <1>11, <1>12, <1>13, <1>14,
     <1>15, <1>16, <1>17 DEF Next, CallThread, Looper, ReadsOf, WatchThread

\* Each step keeps the types of the link, the histories and the bound.
LEMMA RestStep ==
  ASSUME TypeOK, [Next]_vars
  PROVE  RestTyped'
<1> USE DEF TypeOK, RestTyped, NoCall
<1>1. CASE HangUp
  BY <1>1, InputsAssumption DEF HangUp, Input, history
<1>2. ASSUME NEW c \in Calls, RestartMedia(c)
      PROVE  RestTyped'
  BY <1>2 DEF RestartMedia, history
<1>3. ASSUME NEW c \in Calls, Provisional(c)
      PROVE  RestTyped'
  BY <1>3 DEF Provisional, InstallProvisional, CodecChanges, history, ReaderTyped
<1>4. ASSUME NEW c \in Calls, AckFinal(c)
      PROVE  RestTyped'
  BY <1>4 DEF AckFinal, FailSetup, StopRuntime, Tell, history
<1>5. CASE FinishFinal
  BY <1>5 DEF FinishFinal, HangUpCancelled, AnswerWithoutSdp, AnswerWithSdp, CodecChanges, Cleared,
     StopRuntime, history, ReaderTyped
<1>6. ASSUME NEW c \in Calls, RemoteBye(c)
      PROVE  RestTyped'
  BY <1>6 DEF RemoteBye, StopRuntime, Cleared, Tell, history, DialogTyped
<1>7. ASSUME NEW c \in Calls, WatchByes(c)
      PROVE  RestTyped'
  BY <1>7 DEF WatchByes, StopRuntime, Cleared, Tell, history, DialogTyped
<1>8. CASE Break
  BY <1>8, InputsAssumption DEF Break, Input, history
<1>9. CASE DropConnection
  BY <1>9, InputsAssumption DEF DropConnection, DropAll, StopRuntime, Input, history, InviteTyped
<1>10. CASE NetworkLost
  BY <1>10, InputsAssumption DEF NetworkLost, DropAll, StopRuntime, Input, Tell, history
<1>11. CASE Connected
  BY <1>11 DEF Connected, history
<1>12. ASSUME NEW c \in Calls, Callee(c)
      PROVE  RestTyped'
  <2>1. Input /\ UNCHANGED <<link, acked, cut, redials>>
    BY <1>12 DEF Callee, Rings, SendsSdp, Refuses, Answers, CalleeOnly, history
  <2> QED BY <2>1, InputsAssumption DEF Input
<1>13. ASSUME NEW c \in Calls,
           Start(c) \/ CallPrepares(c) \/ CallWrites(c) \/ ByeTimer(c) \/ IgnoreResponse(c) \/
           Progressing(c) \/ ReliableProvisional(c) \/ PrackFailed(c) \/ UpdateUnwritten(c) \/
              Retry(c) \/
           Fails(c) \/ ByeAnswered(c) \/ RtpArrives(c) \/ WatchEnds(c) \/ GivesUp(c)
      PROVE  RestTyped'
  BY <1>13 DEF Start, CallPrepares, CallWrites, ByeTimer, IgnoreResponse, Progressing,
     ReliableProvisional, PrackFailed, UpdateUnwritten, Retry, Fails, ByeAnswered, RtpArrives,
     WatchEnds, GivesUp, CalleeOnly, history
<1>14. CASE TerminateBegins \/ TerminateCancels \/ TerminateByes
  BY <1>14 DEF TerminateBegins, TerminateCancels, TerminateByes, history
<1>15. CASE UNCHANGED vars
  BY <1>15 DEF vars, history
<1> QED
  BY <1>1, <1>2, <1>3, <1>4, <1>5, <1>6, <1>7, <1>8, <1>9, <1>10, <1>11, <1>12, <1>13, <1>14,
     <1>15 DEF Next, CallThread, Looper, ReadsOf, WatchThread

\* An INVITE leaves the callee well typed.
LEMMA InvitedTyped ==
  ASSUME PeerTyped, NEW c \in Calls, NEW w \in [Calls -> Seq(Messages)],
         (attempt \in [Calls -> Nat])', Invited(c, w)
  PROVE  PeerTyped'
<1>1. PICK state \in {"early", "over"} : CalleeGets(c, state, << >>, w)
  BY DEF Invited
<1> QED
  BY <1>1, GetsTyped, MessagesTyped DEF PeerTyped, Invited

\* A CANCEL leaves the callee well typed.
LEMMA CancelledTyped ==
  ASSUME PeerTyped, NEW c \in Calls, NEW w \in [Calls -> Seq(Messages)], NEW seq,
         Cancelled(c, seq, w), UNCHANGED uasAttempt
  PROVE  PeerTyped'
<1>1. CASE CalleeGets(c, "over", <<Msg("refused", NoSdp)>>, w)
  BY <1>1, GetsTyped, MessagesTyped DEF PeerTyped, Responses
<1>2. CASE CalleeGets(c, uas[c], << >>, w)
  BY <1>2, GetsTyped, MessagesTyped DEF PeerTyped
<1> QED
  BY <1>1, <1>2 DEF Cancelled

\* A BYE leaves the callee well typed.
LEMMA ByedTyped ==
  ASSUME PeerTyped, NEW c \in Calls, NEW w \in [Calls -> Seq(Messages)],
         Byed(c, w), UNCHANGED uasAttempt
  PROVE  PeerTyped'
BY GetsTyped, MessagesTyped DEF PeerTyped, Byed, Responses

\* Each step keeps the types of the callee and of the messages on their way.
LEMMA PeerStep ==
  ASSUME TypeOK, [Next]_vars
  PROVE  PeerTyped'
<1> USE DEF TypeOK, PeerTyped
<1>1. ASSUME NEW c \in Calls, CallWrites(c)
      PROVE  PeerTyped'
  BY <1>1, InviteStep, InvitedTyped DEF CallWrites, peer, InviteTyped
<1>2. CASE TerminateCancels
  <2>1. looper.call \in Calls
    BY <1>2 DEF TerminateCancels, TasksTyped, NoJob
  <2> QED BY <1>2, <2>1, CancelledTyped DEF TerminateCancels
<1>3. CASE TerminateByes
  <2>1. looper.call \in Calls
    BY <1>3 DEF TerminateByes, TasksTyped, NoJob
  <2> QED BY <1>3, <2>1, ByedTyped DEF TerminateByes
<1>4. ASSUME NEW c \in Calls, wire' = Popped(c), wire[c] # << >>, UNCHANGED <<uas, uasAttempt>>
      PROVE  PeerTyped'
  BY <1>4, PoppedTyped
<1>5. ASSUME NEW c \in Calls,
             IgnoreResponse(c) \/ Progressing(c) \/ PrackFailed(c) \/ UpdateUnwritten(c)
               \/ ByeAnswered(c) \/ RemoteBye(c)
      PROVE  PeerTyped'
  BY <1>4, <1>5 DEF IgnoreResponse, Progressing, PrackFailed, UpdateUnwritten, ByeAnswered,
     RemoteBye, Reads
<1>6. ASSUME NEW c \in Calls, ReliableProvisional(c)
      PROVE  PeerTyped'
  <2>1. ASSUME NEW answer \in {"prackOk", "prackFailed"},
               CalleeGets(c, uas[c], <<Msg(answer, NoSdp)>>, Popped(c))
        PROVE  PeerTyped'
    BY <1>6, <2>1, GetsTyped, PoppedTyped, MessagesTyped DEF ReliableProvisional, Reads, Responses
  <2> QED BY <1>4, <1>6, <2>1 DEF ReliableProvisional, Reads
<1>7. ASSUME NEW c \in Calls, Provisional(c)
      PROVE  PeerTyped'
  <2>1. wire[c] # << >> /\ UNCHANGED uasAttempt
    BY <1>7 DEF Provisional, Reads
  <2>2. ASSUME NEW d, NEW sdp, d \in Calls, InstallProvisional(d, sdp, Popped(c))
        PROVE  PeerTyped'
    <3>1. CASE UNCHANGED uas /\ wire' = Popped(c)
      BY <1>4, <2>1, <3>1
    <3>2. CASE CalleeGets(d, uas[d], <<Msg("updateFailed", NoSdp)>>, Popped(c))
      <4>1. Popped(c) \in [Calls -> Seq(Messages)]
        BY <2>1, PoppedTyped
      <4>2. <<Msg("updateFailed", NoSdp)>> \in Seq(Messages)
        BY MessagesTyped DEF Responses
      <4> QED BY <2>1, <2>2, <3>2, <4>1, <4>2, GetsTyped
    <3> QED BY <2>2, <3>1, <3>2 DEF InstallProvisional
  <2>3. inFlight.call \in Calls \cup {NoCall}
    BY DEF ReaderTyped
  <2> QED BY <1>4, <1>7, <2>1, <2>2, <2>3 DEF Provisional
<1>8. ASSUME NEW c \in Calls, Retry(c)
      PROVE  PeerTyped'
  BY <1>4, <1>8, InviteStep, InvitedTyped, PoppedTyped DEF Retry, Reads, InviteTyped
<1>9. ASSUME NEW c \in Calls, Fails(c)
      PROVE  PeerTyped'
  BY <1>4, <1>9, CancelledTyped, PoppedTyped DEF Fails, Reads
<1>10. ASSUME NEW c \in Calls, AckFinal(c)
       PROVE  PeerTyped'
  <2>1. wire[c] # << >> /\ UNCHANGED uasAttempt /\ uas[c] \in {"none", "early", "media",
     "answered", "confirmed", "over"}
    BY <1>10 DEF AckFinal, Reads
  <2>2. Popped(c) \in [Calls -> Seq(Messages)]
    BY <2>1, PoppedTyped
  <2>3. ASSUME NEW state \in {"none", "early", "media", "answered", "confirmed", "over"},
     CalleeGets(c, state, << >>, Popped(c))
        PROVE  PeerTyped'
    BY <2>1, <2>2, <2>3, GetsTyped, MessagesTyped
  <2> QED BY <1>4, <1>10, <2>1, <2>3 DEF AckFinal
<1>11. CASE FinishFinal
  <2>1. ASSUME NEW d \in Calls, Byed(d, wire), UNCHANGED uasAttempt
        PROVE  PeerTyped'
    BY <2>1, ByedTyped
  <2>2. reader.call \in Calls /\ current \in Calls \cup {NoCall}
    BY <1>11 DEF FinishFinal, ReaderTyped, NoAnswer, DialogTyped
  <2> QED
    BY <1>11, <2>1, <2>2 DEF FinishFinal, HangUpCancelled, AnswerWithoutSdp, AnswerWithSdp
<1>12. ASSUME NEW c \in Calls, WatchByes(c)
       PROVE  PeerTyped'
  BY <1>12, ByedTyped DEF WatchByes
<1>13. CASE DropAll
  <2>1. \A c \in Calls : << >> \in Seq(Messages)
    OBVIOUS
  <2> QED BY <1>13, <2>1 DEF DropAll
<1>14. CASE DropConnection \/ NetworkLost
  BY <1>13, <1>14 DEF DropConnection, NetworkLost
<1>15. ASSUME NEW c \in Calls, NEW state \in {"early", "media", "answered", "over"},
              NEW kind \in Responses \cup {"bye"}, NEW sdp \in Codecs \cup {NoSdp},
              CalleeGets(c, state, <<Msg(kind, sdp)>>, wire), UNCHANGED uasAttempt
       PROVE  PeerTyped'
  BY <1>15, GetsTyped, MessagesTyped
<1>16. ASSUME NEW c \in Calls, Callee(c)
       PROVE  PeerTyped'
  <2>1. CASE Rings(c)
    BY <1>15, <2>1 DEF Rings, CalleeOnly, Responses
  <2>2. ASSUME NEW kind \in {"183", "reliable"}, NEW sdp \in Codecs, SendsSdp(c, kind, sdp)
        PROVE  PeerTyped'
    BY <1>15, <2>2 DEF SendsSdp, CalleeOnly, Responses
  <2>3. ASSUME NEW kind \in {"422", "illegal"}, Refuses(c, kind)
        PROVE  PeerTyped'
    BY <1>15, <2>3 DEF Refuses, CalleeOnly, Responses
  <2>4. ASSUME NEW sdp \in Codecs \cup {NoSdp}, Answers(c, sdp)
        PROVE  PeerTyped'
    BY <1>15, <2>4 DEF Answers, CalleeOnly, Responses
  <2> QED BY <1>16, <2>1, <2>2, <2>3, <2>4 DEF Callee
<1>17. ASSUME NEW c \in Calls, GivesUp(c)
       PROVE  PeerTyped'
  BY <1>15, <1>17 DEF GivesUp, CalleeOnly, Responses
<1>18. ASSUME NEW c \in Calls,
              Start(c) \/ CallPrepares(c) \/ ByeTimer(c) \/ RestartMedia(c) \/ RtpArrives(c)
                \/ WatchEnds(c)
       PROVE  PeerTyped'
  BY <1>18 DEF Start, CallPrepares, ByeTimer, RestartMedia, RtpArrives, WatchEnds, peer
<1>19. CASE HangUp \/ TerminateBegins \/ Break \/ Connected
  BY <1>19 DEF HangUp, TerminateBegins, Break, Connected, peer
<1>20. CASE UNCHANGED vars
  BY <1>20 DEF vars, peer
<1> QED
  BY <1>1, <1>2, <1>3, <1>5, <1>6, <1>7, <1>8, <1>9, <1>10, <1>11, <1>12, <1>14, <1>16, <1>17,
     <1>18, <1>19, <1>20 DEF Next, CallThread, Looper, ReadsOf, WatchThread

\* The initial state is well typed.
LEMMA TypeInit == Init => TypeOK
<1> SUFFICES ASSUME Init PROVE TypeOK
  OBVIOUS
<1> USE DEF Init
<1>1. InviteTyped /\ DialogTyped
  BY DEF InviteTyped, DialogTyped
<1>2. TasksTyped /\ ReaderTyped
  BY DEF TasksTyped, ReaderTyped
<1>3. SessionTyped /\ PeerTyped
  BY DEF SessionTyped, PeerTyped
<1>4. RestTyped
  BY InputsAssumption DEF RestTyped
<1> QED BY <1>1, <1>2, <1>3, <1>4 DEF TypeOK

\* Each step keeps the state well typed.
LEMMA TypeStep == TypeOK /\ [Next]_vars => TypeOK'
BY InviteStep, DialogStep, TasksStep, ReaderStep, SessionStep, PeerStep, RestStep DEF TypeOK

\* The state of outgoing calls is well typed in every behaviour: among others, every
\* thread and task names a call there is, and no message outside the protocol is on its way.
THEOREM TypeCorrect == Spec => []TypeOK
BY TypeInit, TypeStep, PTL DEF Spec

-----------------------------------------------------------------------------
(* Connected means answered *)

\* The kinds of the messages of call c on their way.
Kinds(c) == {wire[c][i].kind : i \in 1 .. Len(wire[c])}

\* A call not yet made has no thread, no callee, no message and no timeout.
NewIsUntouched ==
  \A c \in Calls : session[c] = "none" =>
    caller[c] = "none" /\ uas[c] = "none" /\ wire[c] = << >> /\ watch[c] = "none"

\* The calls made are those up to the latest.
MadeInOrder == \A c \in Calls : session[c] # "none" <=> c <= owner

\* Nothing names a call not yet made.
NamesAreMade ==
  \A c \in {current, pending, sipId, looper.call, reader.call, inFlight.call} \cup acked :
    c <= owner

\* callStarted and a 2xx with the reader imply an ACK.
AckedBefore ==
  /\ reader # NoAnswer => reader.call \in acked
  /\ started => acked # {}

\* What holds whether or not calls overlap.
Base == TypeOK /\ NewIsUntouched /\ MadeInOrder /\ NamesAreMade /\ AckedBefore

\* Everything that names a call names the latest.
OneAtATime ==
  /\ {current, pending, sipId, looper.call, reader.call} \subseteq {owner, NoCall}
  /\ \A c \in Calls : caller[c] \in {"begun", "prepared"} => c = owner

\* Before call() has set the pending INVITE nothing of the call is there.
FreshIsIdle ==
  owner # NoCall /\ caller[owner] = "begun" =>
    /\ current = NoCall /\ pending = NoCall /\ sipId = NoCall
    /\ looper = NoJob /\ reader = NoAnswer /\ session[owner] # "ended"

\* A call whose session has ended has no pending INVITE.
EndedHasNoInvite == owner # NoCall /\ session[owner] = "ended" => pending = NoCall

\* respInFlight is the 183 of the latest call, or empty, when its PRACK is answered.
PrackIsOfOwner ==
  owner # NoCall /\ "prackOk" \in Kinds(owner) => inFlight.call \in {owner, NoCall}

\* callStarted is set behind the ACK of the latest call.
StartedIsAnswered == started /\ owner # NoCall /\ caller[owner] # "begun" => owner \in acked

\* What holds while the latest call began with nothing left of the others.
Single ==
  OneAtATime /\ FreshIsIdle /\ EndedHasNoInvite /\ PrackIsOfOwner /\ StartedIsAnswered

\* The strengthened invariant.
Inv == Base /\ (owner \notin redials => Single) /\ ConnectedIsAnswered

\* The kind of the message at the head is one of the kinds on the way.
LEMMA HeadKind ==
  ASSUME NEW c \in Calls, PeerTyped, wire[c] # << >>
  PROVE  Head(wire[c]).kind \in Kinds(c)
<1>1. wire[c] \in Seq(Messages) /\ Len(wire[c]) \in Nat /\ Len(wire[c]) >= 1
  BY DEF PeerTyped
<1> QED BY <1>1 DEF Kinds

\* A response the stale-response guard lets through is one of the latest call.
LEMMA HeardIsOwner ==
  ASSUME OneAtATime, NEW c \in Calls, Heard(c)
  PROVE  c = owner
BY DEF OneAtATime, Heard, Calls, NoCall

\* A 2xx in the hands of the reader is one of the latest call.
LEMMA ReaderIsOwner ==
  ASSUME OneAtATime, TypeOK, reader # NoAnswer
  PROVE  reader.call = owner /\ owner \in Calls
BY DEF OneAtATime, TypeOK, ReaderTyped, SessionTyped, Calls, NoCall

\* A CANCEL or BYE the looper writes is for the latest call.
LEMMA LooperIsOwner ==
  ASSUME OneAtATime, TypeOK, looper # NoJob
  PROVE  looper.call = owner /\ owner \in Calls
BY DEF OneAtATime, TypeOK, TasksTyped, SessionTyped, Calls, NoCall

\* onCancelledCall with the Call-ID of another call changes nothing.
LEMMA TellOther ==
  ASSUME NEW c \in Calls, Tell(c, FALSE), c # sipId
  PROVE  UNCHANGED told
BY DEF Tell, Calls, NoCall

\* currentCall, the pending INVITE, the Call-ID of the session, the looper and the
\* reader stay with the latest call.
LEMMA OneAtATimeStep ==
  ASSUME Base, Single, [Next]_vars, \A c \in Calls : ~Start(c)
  PROVE  OneAtATime'
<1> USE DEF Base, Single, TypeOK, OneAtATime, InviteTyped, DialogTyped, SessionTyped, Calls, NoCall
<1>2. ASSUME NEW c \in Calls, CallPrepares(c)
      PROVE  OneAtATime'
  BY <1>2 DEF CallPrepares, invite, dialog, tasks, told
<1>3. ASSUME NEW c \in Calls, CallWrites(c)
      PROVE  OneAtATime'
  BY <1>3 DEF CallWrites, FailSetup, StopRuntime, Tell, invite, dialog, tasks, told
<1>4. CASE TerminateBegins
  BY <1>4 DEF TerminateBegins, StopRuntime, Job, invite, dialog, tasks, told
<1>5. CASE TerminateCancels
  BY <1>5, LooperIsOwner DEF TerminateCancels, Cleared, StopRuntime, Tell, invite, dialog, tasks,
     told, NoJob
<1>6. CASE TerminateByes
  BY <1>6, LooperIsOwner DEF TerminateByes, Cleared, StopRuntime, Tell, invite, dialog, tasks,
     told, NoJob
<1>7. ASSUME NEW c \in Calls, ByeTimer(c)
      PROVE  OneAtATime'
  BY <1>7 DEF ByeTimer, invite, dialog, tasks, told
<1>8. ASSUME NEW c \in Calls, Progressing(c)
      PROVE  OneAtATime'
  BY <1>8, HeardIsOwner DEF Progressing, invite, dialog, tasks, told
<1>9. ASSUME NEW c \in Calls, ReliableProvisional(c)
      PROVE  OneAtATime'
  BY <1>9 DEF ReliableProvisional, FailSetup, StopRuntime, Tell, invite, dialog, tasks, told
<1>10. ASSUME NEW c \in Calls, Provisional(c)
      PROVE  OneAtATime'
  BY <1>10, HeardIsOwner, HeadKind DEF Provisional, InstallProvisional, CodecChanges, invite,
     dialog, tasks, told, PrackIsOfOwner, Reads
<1>11. ASSUME NEW c \in Calls, UpdateUnwritten(c)
      PROVE  OneAtATime'
  BY <1>11 DEF UpdateUnwritten, StopRuntime, Tell, invite, dialog, tasks, told
<1>12. ASSUME NEW c \in Calls, Retry(c)
      PROVE  OneAtATime'
  BY <1>12 DEF Retry, FailSetup, StopRuntime, Tell, invite, dialog, tasks, told
<1>13. ASSUME NEW c \in Calls, Fails(c)
      PROVE  OneAtATime'
  BY <1>13 DEF Fails, StopRuntime, Tell, Cleared, invite, dialog, tasks, told
<1>14. ASSUME NEW c \in Calls, AckFinal(c)
      PROVE  OneAtATime'
  BY <1>14, HeardIsOwner DEF AckFinal, FailSetup, StopRuntime, Tell, invite, dialog, tasks, told
<1>15. CASE FinishFinal
  BY <1>15, ReaderIsOwner DEF FinishFinal, HangUpCancelled, AnswerWithoutSdp, AnswerWithSdp,
     CodecChanges, Cleared, StopRuntime, invite, dialog, tasks, told, NoAnswer
<1>16. ASSUME NEW c \in Calls, ByeAnswered(c)
      PROVE  OneAtATime'
  BY <1>16 DEF ByeAnswered, Cleared, invite, dialog, tasks, told
<1>17. ASSUME NEW c \in Calls, RemoteBye(c)
      PROVE  OneAtATime'
  BY <1>17 DEF RemoteBye, StopRuntime, Cleared, Tell, invite, dialog, tasks, told
<1>18. ASSUME NEW c \in Calls, RtpArrives(c)
      PROVE  OneAtATime'
  BY <1>18 DEF RtpArrives, invite, dialog, tasks, told
<1>19. ASSUME NEW c \in Calls, WatchByes(c)
      PROVE  OneAtATime'
  BY <1>19 DEF WatchByes, StopRuntime, Cleared, Tell, invite, dialog, tasks, told
<1>20. CASE DropConnection
  BY <1>20 DEF DropConnection, DropAll, StopRuntime, Input, invite, dialog, tasks, told
<1>21. CASE NetworkLost
  BY <1>21 DEF NetworkLost, DropAll, StopRuntime, Input, Tell, invite, dialog, tasks, told
<1>22. ASSUME NEW c \in Calls,
           RestartMedia(c) \/ IgnoreResponse(c) \/ PrackFailed(c) \/ WatchEnds(c) \/ Callee(c) \/
           GivesUp(c)
      PROVE  OneAtATime'
  BY <1>22 DEF RestartMedia, IgnoreResponse, PrackFailed, WatchEnds, Callee, GivesUp, Rings,
     SendsSdp, Refuses, Answers, CalleeOnly, invite, dialog, tasks, told
<1>23. CASE HangUp \/ Break \/ Connected
  BY <1>23 DEF HangUp, Break, Connected, invite, dialog, tasks, told
<1>24. CASE UNCHANGED vars
  BY <1>24 DEF vars, invite, dialog, tasks, told
<1> QED
  BY <1>2, <1>3, <1>4, <1>5, <1>6, <1>7, <1>8, <1>9, <1>10, <1>11, <1>12, <1>13, <1>14,
     <1>15, <1>16, <1>17, <1>18, <1>19, <1>20, <1>21, <1>22, <1>23, <1>24 DEF Next, CallThread,
        Looper, ReadsOf, WatchThread

\* Until call() has set the pending INVITE nothing is at work on the call.
LEMMA FreshIsIdleStep ==
  ASSUME Base, Single, [Next]_vars, \A c \in Calls : ~Start(c)
  PROVE  FreshIsIdle'
<1> USE DEF Base, Single, TypeOK, OneAtATime, FreshIsIdle, InviteTyped, DialogTyped, SessionTyped, Calls,
   NoCall
<1>2. ASSUME NEW c \in Calls, CallPrepares(c)
      PROVE  FreshIsIdle'
  BY <1>2 DEF CallPrepares, invite, dialog, tasks, told
<1>3. ASSUME NEW c \in Calls, CallWrites(c)
      PROVE  FreshIsIdle'
  BY <1>3 DEF CallWrites, FailSetup, StopRuntime, Tell, invite, dialog, tasks, told
<1>4. CASE TerminateBegins
  BY <1>4 DEF TerminateBegins, StopRuntime, Job, invite, dialog, tasks, told
<1>5. CASE TerminateCancels
  BY <1>5, LooperIsOwner DEF TerminateCancels, Cleared, StopRuntime, Tell, invite, dialog, tasks,
     told, NoJob
<1>6. CASE TerminateByes
  BY <1>6, LooperIsOwner DEF TerminateByes, Cleared, StopRuntime, Tell, invite, dialog, tasks,
     told, NoJob
<1>7. ASSUME NEW c \in Calls, ByeTimer(c)
      PROVE  FreshIsIdle'
  BY <1>7 DEF ByeTimer, invite, dialog, tasks, told
<1>8. ASSUME NEW c \in Calls, Progressing(c)
      PROVE  FreshIsIdle'
  BY <1>8, HeardIsOwner DEF Progressing, invite, dialog, tasks, told, Heard
<1>9. ASSUME NEW c \in Calls, ReliableProvisional(c)
      PROVE  FreshIsIdle'
  BY <1>9, HeardIsOwner DEF ReliableProvisional, FailSetup, StopRuntime, Tell, invite, dialog,
     tasks, told, Heard
<1>10. ASSUME NEW c \in Calls, Provisional(c)
      PROVE  FreshIsIdle'
  BY <1>10, HeardIsOwner DEF Provisional, InstallProvisional, CodecChanges, invite, dialog, tasks,
     told, Heard
<1>11. ASSUME NEW c \in Calls, UpdateUnwritten(c)
      PROVE  FreshIsIdle'
  BY <1>11, HeardIsOwner DEF UpdateUnwritten, StopRuntime, Tell, invite, dialog, tasks, told, Heard
<1>12. ASSUME NEW c \in Calls, Retry(c)
      PROVE  FreshIsIdle'
  BY <1>12, HeardIsOwner DEF Retry, FailSetup, StopRuntime, Tell, invite, dialog, tasks, told, Heard
<1>13. ASSUME NEW c \in Calls, Fails(c)
      PROVE  FreshIsIdle'
  BY <1>13, HeardIsOwner DEF Fails, StopRuntime, Tell, Cleared, invite, dialog, tasks, told, Heard
<1>14. ASSUME NEW c \in Calls, AckFinal(c)
      PROVE  FreshIsIdle'
  BY <1>14, HeardIsOwner DEF AckFinal, FailSetup, StopRuntime, Tell, invite, dialog, tasks, told,
     Heard
<1>15. CASE FinishFinal
  BY <1>15, ReaderIsOwner DEF FinishFinal, HangUpCancelled, AnswerWithoutSdp, AnswerWithSdp,
     CodecChanges, Cleared, StopRuntime, invite, dialog, tasks, told, NoAnswer
<1>16. ASSUME NEW c \in Calls, ByeAnswered(c)
      PROVE  FreshIsIdle'
  BY <1>16, HeardIsOwner DEF ByeAnswered, Cleared, invite, dialog, tasks, told, Heard
<1>17. ASSUME NEW c \in Calls, RemoteBye(c)
      PROVE  FreshIsIdle'
  <2>1. SUFFICES ASSUME owner # NoCall, caller[owner] = "begun"
                 PROVE  FreshIsIdle'
    BY <1>17 DEF RemoteBye
  <2>2. c # sipId
    BY <2>1
  <2>3. Tell(c, FALSE)
    BY <1>17 DEF RemoteBye
  <2>4. UNCHANGED <<session, sipId>>
    BY <2>2, <2>3, TellOther DEF told
  <2> QED BY <1>17, <2>1, <2>4 DEF RemoteBye, Cleared, tasks, told
<1>18. ASSUME NEW c \in Calls, RtpArrives(c)
      PROVE  FreshIsIdle'
  BY <1>18 DEF RtpArrives, invite, dialog, tasks, told
<1>19. ASSUME NEW c \in Calls, WatchByes(c)
      PROVE  FreshIsIdle'
  <2>1. SUFFICES ASSUME owner # NoCall, caller[owner] = "begun"
                 PROVE  FreshIsIdle'
    BY <1>19 DEF WatchByes
  <2>2. c # sipId
    BY <2>1
  <2>3. Tell(c, FALSE)
    BY <1>19 DEF WatchByes
  <2>4. UNCHANGED <<session, sipId>>
    BY <2>2, <2>3, TellOther DEF told
  <2> QED BY <1>19, <2>1, <2>4 DEF WatchByes, Cleared, tasks, told
<1>20. CASE DropConnection
  BY <1>20 DEF DropConnection, DropAll, StopRuntime, Input, invite, dialog, tasks, told
<1>21. CASE NetworkLost
  BY <1>21 DEF NetworkLost, DropAll, StopRuntime, Input, Tell, invite, dialog, tasks, told
<1>22. ASSUME NEW c \in Calls,
           RestartMedia(c) \/ IgnoreResponse(c) \/ PrackFailed(c) \/ WatchEnds(c) \/ Callee(c) \/
           GivesUp(c)
      PROVE  FreshIsIdle'
  BY <1>22 DEF RestartMedia, IgnoreResponse, PrackFailed, WatchEnds, Callee, GivesUp, Rings,
     SendsSdp, Refuses, Answers, CalleeOnly, invite, dialog, tasks, told
<1>23. CASE HangUp \/ Break \/ Connected
  <2>1. UNCHANGED <<owner, caller, current, pending, sipId, looper, reader, session>>
    BY <1>23 DEF HangUp, Break, Connected, invite, dialog, tasks, told
  <2> QED BY <2>1
<1>24. CASE UNCHANGED vars
  BY <1>24 DEF vars, invite, dialog, tasks, told
<1> QED
  BY <1>2, <1>3, <1>4, <1>5, <1>6, <1>7, <1>8, <1>9, <1>10, <1>11, <1>12, <1>13, <1>14,
     <1>15, <1>16, <1>17, <1>18, <1>19, <1>20, <1>21, <1>22, <1>23, <1>24 DEF Next, CallThread,
        Looper, ReadsOf, WatchThread

\* Whatever ends a session clears the pending INVITE.
LEMMA EndedHasNoInviteStep ==
  ASSUME Base, Single, [Next]_vars, \A c \in Calls : ~Start(c)
  PROVE  EndedHasNoInvite'
<1> USE DEF Base, Single, TypeOK, OneAtATime, FreshIsIdle, InviteTyped, DialogTyped, SessionTyped, Calls,
   NoCall, EndedHasNoInvite
<1>2. ASSUME NEW c \in Calls, CallPrepares(c)
      PROVE  EndedHasNoInvite'
  BY <1>2 DEF CallPrepares, invite, told
<1>3. ASSUME NEW c \in Calls, CallWrites(c)
      PROVE  EndedHasNoInvite'
  BY <1>3 DEF CallWrites, FailSetup, StopRuntime, Tell, invite, told
<1>4. CASE TerminateCancels
  BY <1>4, LooperIsOwner DEF TerminateCancels, Cleared, StopRuntime, Tell, invite, told, NoJob
<1>5. CASE TerminateByes
  BY <1>5, LooperIsOwner DEF TerminateByes, Cleared, StopRuntime, Tell, invite, told, NoJob
<1>6. ASSUME NEW c \in Calls, ReliableProvisional(c)
      PROVE  EndedHasNoInvite'
  BY <1>6, HeardIsOwner DEF ReliableProvisional, FailSetup, StopRuntime, Tell, invite, told, Heard
<1>7. ASSUME NEW c \in Calls, UpdateUnwritten(c)
      PROVE  EndedHasNoInvite'
  BY <1>7, HeardIsOwner DEF UpdateUnwritten, StopRuntime, Tell, invite, told, Heard
<1>8. ASSUME NEW c \in Calls, Retry(c)
      PROVE  EndedHasNoInvite'
  BY <1>8, HeardIsOwner DEF Retry, FailSetup, StopRuntime, Tell, invite, told, Heard
<1>9. ASSUME NEW c \in Calls, Fails(c)
      PROVE  EndedHasNoInvite'
  BY <1>9, HeardIsOwner DEF Fails, StopRuntime, Tell, Cleared, invite, told, Heard
<1>10. ASSUME NEW c \in Calls, AckFinal(c)
      PROVE  EndedHasNoInvite'
  BY <1>10, HeardIsOwner DEF AckFinal, FailSetup, StopRuntime, Tell, invite, told, Heard
<1>11. CASE FinishFinal
  BY <1>11, ReaderIsOwner DEF FinishFinal, HangUpCancelled, AnswerWithoutSdp, AnswerWithSdp,
     CodecChanges, Cleared, StopRuntime, invite, told, NoAnswer
<1>12. ASSUME NEW c \in Calls, ByeAnswered(c)
      PROVE  EndedHasNoInvite'
  BY <1>12 DEF ByeAnswered, Cleared, invite, told
<1>13. ASSUME NEW c \in Calls, RemoteBye(c)
      PROVE  EndedHasNoInvite'
  <2>1. CASE c = sipId
    <3>1. pending' = NoCall
      BY <1>13, <2>1 DEF RemoteBye, Cleared
    <3> QED BY <3>1
  <2>2. CASE c # sipId
    <3>1. UNCHANGED <<session, owner>> /\ pending' \in {pending, NoCall}
      BY <1>13, <2>2, TellOther DEF RemoteBye, Cleared, told
    <3> QED BY <3>1
  <2> QED BY <2>1, <2>2
<1>14. ASSUME NEW c \in Calls, RtpArrives(c)
      PROVE  EndedHasNoInvite'
  BY <1>14 DEF RtpArrives, invite, told, Live
<1>15. ASSUME NEW c \in Calls, WatchByes(c)
      PROVE  EndedHasNoInvite'
  <2>1. CASE c = sipId
    <3>1. pending' = NoCall
      BY <1>15, <2>1 DEF WatchByes, Cleared
    <3> QED BY <3>1
  <2>2. CASE c # sipId
    <3>1. UNCHANGED <<session, owner>> /\ pending' \in {pending, NoCall}
      BY <1>15, <2>2, TellOther DEF WatchByes, Cleared, told
    <3> QED BY <3>1
  <2> QED BY <2>1, <2>2
<1>16. CASE DropConnection
  BY <1>16 DEF DropConnection, DropAll, StopRuntime, Input, invite, told
<1>17. CASE NetworkLost
  BY <1>17 DEF NetworkLost, DropAll, StopRuntime, Input, Tell, invite, told
<1>18. ASSUME NEW c \in Calls,
           ByeTimer(c) \/ RestartMedia(c) \/ IgnoreResponse(c) \/ Progressing(c) \/
              Provisional(c) \/
           PrackFailed(c) \/ WatchEnds(c) \/ Callee(c) \/ GivesUp(c)
      PROVE  EndedHasNoInvite'
  BY <1>18 DEF ByeTimer, RestartMedia, IgnoreResponse, Progressing, Provisional, PrackFailed,
     WatchEnds, Callee, GivesUp, InstallProvisional, Rings, SendsSdp, Refuses, Answers,
     CalleeOnly, invite, told
<1>19. CASE HangUp \/ TerminateBegins \/ Break \/ Connected
  BY <1>19 DEF HangUp, TerminateBegins, Break, Connected, invite, told
<1>20. CASE UNCHANGED vars
  BY <1>20 DEF vars, invite, told
<1> QED
  BY <1>2, <1>3, <1>4, <1>5, <1>6, <1>7, <1>8, <1>9, <1>10, <1>11, <1>12, <1>13, <1>14,
     <1>15, <1>16, <1>17, <1>18, <1>19, <1>20 DEF Next, CallThread, Looper, ReadsOf, WatchThread

\* callStarted is set, and stays set, only behind the ACK of the latest call.
LEMMA StartedIsAnsweredStep ==
  ASSUME Base, Single, [Next]_vars, \A c \in Calls : ~Start(c)
  PROVE  StartedIsAnswered'
<1> USE DEF Base, Single, TypeOK, OneAtATime, StartedIsAnswered, AckedBefore, InviteTyped, DialogTyped, SessionTyped,
   ReaderTyped, RestTyped, Calls, NoCall
<1>2. ASSUME NEW c \in Calls, CallPrepares(c)
      PROVE  StartedIsAnswered'
  BY <1>2 DEF CallPrepares, media, history
<1>3. ASSUME NEW c \in Calls, CallWrites(c)
      PROVE  StartedIsAnswered'
  BY <1>3 DEF CallWrites, FailSetup, StopRuntime, Tell, media, history
<1>4. CASE TerminateBegins
  BY <1>4 DEF TerminateBegins, StopRuntime, Job, media, history
<1>5. CASE TerminateCancels
  BY <1>5 DEF TerminateCancels, Cleared, StopRuntime, Tell, media, history
<1>6. CASE TerminateByes
  BY <1>6 DEF TerminateByes, Cleared, StopRuntime, Tell, media, history
<1>7. ASSUME NEW c \in Calls, RestartMedia(c)
      PROVE  StartedIsAnswered'
  BY <1>7 DEF RestartMedia, media, history
<1>8. ASSUME NEW c \in Calls, ReliableProvisional(c)
      PROVE  StartedIsAnswered'
  BY <1>8 DEF ReliableProvisional, FailSetup, StopRuntime, Tell, media, history
<1>9. ASSUME NEW c \in Calls, Provisional(c)
      PROVE  StartedIsAnswered'
  BY <1>9, HeardIsOwner DEF Provisional, InstallProvisional, CodecChanges, media, history
<1>10. ASSUME NEW c \in Calls, UpdateUnwritten(c)
      PROVE  StartedIsAnswered'
  BY <1>10 DEF UpdateUnwritten, StopRuntime, Tell, media, history
<1>11. ASSUME NEW c \in Calls, Retry(c)
      PROVE  StartedIsAnswered'
  BY <1>11 DEF Retry, FailSetup, StopRuntime, Tell, media, history
<1>12. ASSUME NEW c \in Calls, Fails(c)
      PROVE  StartedIsAnswered'
  BY <1>12 DEF Fails, StopRuntime, Tell, Cleared, media, history
<1>13. ASSUME NEW c \in Calls, AckFinal(c)
      PROVE  StartedIsAnswered'
  BY <1>13, HeardIsOwner DEF AckFinal, FailSetup, StopRuntime, Tell, media, history
<1>14. CASE FinishFinal
  BY <1>14, ReaderIsOwner DEF FinishFinal, HangUpCancelled, AnswerWithoutSdp, AnswerWithSdp,
     CodecChanges, Cleared, StopRuntime, media, history, NoAnswer
<1>15. ASSUME NEW c \in Calls, RemoteBye(c)
      PROVE  StartedIsAnswered'
  BY <1>15 DEF RemoteBye, StopRuntime, Cleared, Tell, media, history
<1>16. ASSUME NEW c \in Calls, WatchEnds(c)
      PROVE  StartedIsAnswered'
  BY <1>16 DEF WatchEnds, StopRuntime, media, history
<1>17. ASSUME NEW c \in Calls, WatchByes(c)
      PROVE  StartedIsAnswered'
  BY <1>17 DEF WatchByes, StopRuntime, Cleared, Tell, media, history
<1>18. CASE DropConnection
  BY <1>18 DEF DropConnection, DropAll, StopRuntime, Input, media, history
<1>19. CASE NetworkLost
  BY <1>19 DEF NetworkLost, DropAll, StopRuntime, Input, Tell, media, history
<1>20. ASSUME NEW c \in Calls,
           ByeTimer(c) \/ IgnoreResponse(c) \/ Progressing(c) \/ PrackFailed(c) \/ ByeAnswered(c) \/
           RtpArrives(c) \/ Callee(c) \/ GivesUp(c)
      PROVE  StartedIsAnswered'
  <2>1. UNCHANGED <<owner, reader, started, caller, acked>>
    BY <1>20 DEF ByeTimer, IgnoreResponse, Progressing, PrackFailed, ByeAnswered, RtpArrives,
       Callee,
       GivesUp, Rings, SendsSdp, Refuses, Answers, CalleeOnly, media, history
  <2> QED BY <2>1
<1>21. CASE HangUp \/ Break \/ Connected
  <2>1. UNCHANGED <<owner, reader, started, caller, acked>>
    BY <1>21 DEF HangUp, Break, Connected, media, history
  <2> QED BY <2>1
<1>22. CASE UNCHANGED vars
  <2>1. UNCHANGED <<owner, reader, started, caller, acked>>
    BY <1>22 DEF vars, media, history
  <2> QED BY <2>1
<1> QED
  BY <1>2, <1>3, <1>4, <1>5, <1>6, <1>7, <1>8, <1>9, <1>10, <1>11, <1>12, <1>13, <1>14,
     <1>15, <1>16, <1>17, <1>18, <1>19, <1>20, <1>21, <1>22 DEF Next, CallThread, Looper,
        ReadsOf, WatchThread

\* The latest call, and which calls were made.
SameCalls ==
  /\ UNCHANGED <<owner, redials>>
  /\ \A c \in Calls : session'[c] = "none" <=> session[c] = "none"

\* Only Start makes a call.
LEMMA SameCallsStep ==
  ASSUME Base, [Next]_vars, \A c \in Calls : ~Start(c)
  PROVE  SameCalls
<1> USE DEF Base, TypeOK, SessionTyped, SameCalls, Live, Calls, NoCall
<1>2. ASSUME NEW c \in Calls, CallWrites(c)
      PROVE  SameCalls
  BY <1>2 DEF CallWrites, FailSetup, StopRuntime, Tell, told
<1>3. CASE TerminateCancels
  BY <1>3 DEF TerminateCancels, Cleared, StopRuntime, Tell, told
<1>4. CASE TerminateByes
  BY <1>4 DEF TerminateByes, Cleared, StopRuntime, Tell, told
<1>5. ASSUME NEW c \in Calls, ReliableProvisional(c)
      PROVE  SameCalls
  BY <1>5 DEF ReliableProvisional, FailSetup, StopRuntime, Tell, told
<1>6. ASSUME NEW c \in Calls, UpdateUnwritten(c)
      PROVE  SameCalls
  BY <1>6 DEF UpdateUnwritten, StopRuntime, Tell, told
<1>7. ASSUME NEW c \in Calls, Retry(c)
      PROVE  SameCalls
  BY <1>7 DEF Retry, FailSetup, StopRuntime, Tell, told
<1>8. ASSUME NEW c \in Calls, Fails(c)
      PROVE  SameCalls
  BY <1>8 DEF Fails, StopRuntime, Tell, Cleared, told
<1>9. ASSUME NEW c \in Calls, AckFinal(c)
      PROVE  SameCalls
  BY <1>9 DEF AckFinal, FailSetup, StopRuntime, Tell, told
<1>10. ASSUME NEW c \in Calls, RemoteBye(c)
      PROVE  SameCalls
  BY <1>10 DEF RemoteBye, StopRuntime, Cleared, Tell, told
<1>11. ASSUME NEW c \in Calls, RtpArrives(c)
      PROVE  SameCalls
  BY <1>11 DEF RtpArrives, told, Live
<1>12. ASSUME NEW c \in Calls, WatchByes(c)
      PROVE  SameCalls
  BY <1>12 DEF WatchByes, StopRuntime, Cleared, Tell, told
<1>13. CASE NetworkLost
  BY <1>13 DEF NetworkLost, DropAll, StopRuntime, Input, Tell, told
<1>14. ASSUME NEW c \in Calls,
           CallPrepares(c) \/ ByeTimer(c) \/ RestartMedia(c) \/ IgnoreResponse(c) \/
              Progressing(c) \/
           Provisional(c) \/ PrackFailed(c) \/ ByeAnswered(c) \/ WatchEnds(c) \/ Callee(c) \/
              GivesUp(c)
      PROVE  SameCalls
  BY <1>14 DEF CallPrepares, ByeTimer, RestartMedia, IgnoreResponse, Progressing, Provisional,
     PrackFailed, ByeAnswered, WatchEnds, Callee, GivesUp, InstallProvisional, Rings, SendsSdp,
     Refuses, Answers, CalleeOnly, told
<1>15. CASE HangUp \/ TerminateBegins \/ FinishFinal \/ Break \/ DropConnection \/ Connected
  BY <1>15 DEF HangUp, TerminateBegins, FinishFinal, Break, DropConnection, Connected,
     HangUpCancelled, AnswerWithoutSdp, AnswerWithSdp, DropAll, told
<1>16. CASE UNCHANGED vars
  BY <1>16 DEF vars, told
<1> QED
  BY <1>2, <1>3, <1>4, <1>5, <1>6, <1>7, <1>8, <1>9, <1>10, <1>11, <1>12, <1>13, <1>14,
     <1>15, <1>16 DEF Next, CallThread, Looper, ReadsOf, WatchThread

\* So the calls made stay those up to the latest.
LEMMA MadeInOrderStep ==
  ASSUME Base, [Next]_vars
  PROVE  MadeInOrder' /\ owner <= owner'
<1> USE DEF Base, TypeOK, SessionTyped, MadeInOrder, Calls, NoCall
<1>1. ASSUME NEW c \in Calls, Start(c)
      PROVE  MadeInOrder' /\ owner <= owner'
  <2>1. \A d \in Calls : session'[d] # "none" <=> session[d] # "none" \/ d = c
    BY <1>1 DEF Start
  <2>2. owner' = c /\ c > owner
    BY <1>1 DEF Start
  <2>3. \A d \in Calls : d < c => d <= owner
    BY <1>1 DEF Start
  <2> QED BY CallsAssumption, <2>1, <2>2, <2>3
<1>2. CASE \A c \in Calls : ~Start(c)
  BY <1>2, SameCallsStep, CallsAssumption DEF SameCalls
<1> QED BY <1>1, <1>2

\* A session becomes connected only behind the ACK of its call.
LEMMA ConnectedStep ==
  ASSUME Inv, [Next]_vars
  PROVE  ConnectedIsAnswered'
<1> USE DEF Inv, Base, TypeOK, ConnectedIsAnswered, SessionTyped, DialogTyped, RestTyped
<1>1. ASSUME NEW c \in Calls, Start(c)
      PROVE  ConnectedIsAnswered'
  BY <1>1 DEF Start, Live
<1>2. ASSUME NEW c \in Calls, CallWrites(c)
      PROVE  ConnectedIsAnswered'
  BY <1>2 DEF CallWrites, FailSetup, StopRuntime, Tell, told, history
<1>3. CASE TerminateCancels
  BY <1>3 DEF TerminateCancels, Cleared, StopRuntime, Tell, told, history
<1>4. CASE TerminateByes
  BY <1>4 DEF TerminateByes, Cleared, StopRuntime, Tell, told, history
<1>5. ASSUME NEW c \in Calls, ReliableProvisional(c)
      PROVE  ConnectedIsAnswered'
  BY <1>5 DEF ReliableProvisional, FailSetup, StopRuntime, Tell, told, history
<1>6. ASSUME NEW c \in Calls, UpdateUnwritten(c)
      PROVE  ConnectedIsAnswered'
  BY <1>6 DEF UpdateUnwritten, StopRuntime, Tell, told, history
<1>7. ASSUME NEW c \in Calls, Retry(c)
      PROVE  ConnectedIsAnswered'
  BY <1>7 DEF Retry, FailSetup, StopRuntime, Tell, told, history
<1>8. ASSUME NEW c \in Calls, Fails(c)
      PROVE  ConnectedIsAnswered'
  BY <1>8 DEF Fails, StopRuntime, Tell, Cleared, told, history
<1>9. ASSUME NEW c \in Calls, AckFinal(c)
      PROVE  ConnectedIsAnswered'
  BY <1>9 DEF AckFinal, FailSetup, StopRuntime, Tell, told, history
<1>10. ASSUME NEW c \in Calls, RemoteBye(c)
      PROVE  ConnectedIsAnswered'
  BY <1>10 DEF RemoteBye, StopRuntime, Cleared, Tell, told, history
<1>11. ASSUME NEW c \in Calls, RtpArrives(c)
      PROVE  ConnectedIsAnswered'
  <2>1. owner \in Calls /\ c <= owner
    BY <1>11 DEF RtpArrives, NamesAreMade, Calls, NoCall
  <2>2. \E d \in acked : d <= owner
    BY <1>11 DEF RtpArrives, AckedBefore, NamesAreMade
  <2>3. CASE owner \in redials
    <3>1. owner \in acked \/ \E d \in acked : d < owner
      BY <2>1, <2>2 DEF Calls
    <3> QED BY <1>11, <2>1, <2>3, <3>1 DEF RtpArrives, told, history
  <2>4. CASE owner \notin redials
    <3>1. c = owner /\ caller[owner] # "begun"
      BY <1>11, <2>4 DEF RtpArrives, Single, OneAtATime, FreshIsIdle, Calls, NoCall
    <3>2. owner \in acked
      BY <1>11, <2>4, <3>1 DEF RtpArrives, Single, StartedIsAnswered, Calls, NoCall
    <3> QED BY <1>11, <2>1, <3>2 DEF RtpArrives, told, history
  <2> QED BY <2>3, <2>4
<1>12. ASSUME NEW c \in Calls, WatchByes(c)
      PROVE  ConnectedIsAnswered'
  BY <1>12 DEF WatchByes, StopRuntime, Cleared, Tell, told, history
<1>13. CASE NetworkLost
  BY <1>13 DEF NetworkLost, DropAll, StopRuntime, Input, Tell, told, history
<1>14. ASSUME NEW c \in Calls,
           CallPrepares(c) \/ ByeTimer(c) \/ RestartMedia(c) \/ IgnoreResponse(c) \/
              Progressing(c) \/
           Provisional(c) \/ PrackFailed(c) \/ ByeAnswered(c) \/ WatchEnds(c) \/ Callee(c) \/
              GivesUp(c)
      PROVE  ConnectedIsAnswered'
  BY <1>14 DEF CallPrepares, ByeTimer, RestartMedia, IgnoreResponse, Progressing, Provisional,
     PrackFailed, ByeAnswered, WatchEnds, Callee, GivesUp, InstallProvisional, Rings, SendsSdp,
     Refuses, Answers, CalleeOnly, told, history
<1>15. CASE HangUp \/ TerminateBegins \/ FinishFinal \/ Break \/ DropConnection \/ Connected
  BY <1>15 DEF HangUp, TerminateBegins, FinishFinal, Break, DropConnection, Connected,
     HangUpCancelled, AnswerWithoutSdp, AnswerWithSdp, DropAll, told, history
<1>16. CASE UNCHANGED vars
  BY <1>16 DEF vars, told, history
<1> QED
  BY <1>1, <1>2, <1>3, <1>4, <1>5, <1>6, <1>7, <1>8, <1>9, <1>10, <1>11, <1>12, <1>13, <1>14,
     <1>15, <1>16 DEF Next, CallThread, Looper, ReadsOf, WatchThread

\* What a step leaves alone of the calls that have not been made.
SessionKept == \A c \in Calls : session'[c] = "none" => session[c] = "none"
CallerKept == \A c \in Calls : session'[c] = "none" => caller'[c] = "none"
WatchKept == \A c \in Calls : session[c] = "none" => watch'[c] = "none"
PeerKept == \A c \in Calls : session[c] = "none" => uas'[c] = "none" /\ wire'[c] = << >>
NoNewPrack == \A c \in Calls : "prackOk" \in Kinds(c)' => "prackOk" \in Kinds(c)

\* Reading a message brings no new kind on its way.
LEMMA TailKinds ==
  ASSUME NEW s \in Seq(Messages), s # << >>, NEW k,
         NEW i \in 1 .. Len(Tail(s)), Tail(s)[i].kind = k
  PROVE  \E j \in 1 .. Len(s) : s[j].kind = k
<1>1. i + 1 \in 1 .. Len(s) /\ Tail(s)[i] = s[i + 1]
  OBVIOUS
<1> QED BY <1>1

\* Sending a message that is no PRACK answer puts no PRACK answer on its way.
LEMMA AppendKinds ==
  ASSUME NEW s \in Seq(Messages), NEW m \in Messages, m.kind # "prackOk",
         NEW i \in 1 .. Len(s \o <<m>>), (s \o <<m>>)[i].kind = "prackOk"
  PROVE  \E j \in 1 .. Len(s) : s[j].kind = "prackOk"
<1>1. CASE i \in 1 .. Len(s)
  <2>1. (s \o <<m>>)[i] = s[i]
    BY <1>1
  <2> QED BY <1>1, <2>1
<1>2. CASE i = Len(s) + 1
  <2>1. (s \o <<m>>)[i] = m
    BY <1>2
  <2> QED BY <2>1
<1>3. Len(s \o <<m>>) = Len(s) + 1
  OBVIOUS
<1> QED BY <1>1, <1>2, <1>3

\* Reading a message of a call puts no PRACK answer on its way.
LEMMA PoppedKinds ==
  ASSUME PeerTyped, NEW d \in Calls, wire[d] # << >>, wire' = Popped(d)
  PROVE  NoNewPrack
<1> SUFFICES ASSUME NEW c \in Calls, NEW i \in 1 .. Len(wire'[c]), wire'[c][i].kind = "prackOk"
             PROVE  \E j \in 1 .. Len(wire[c]) : wire[c][j].kind = "prackOk"
  BY DEF NoNewPrack, Kinds
<1>1. CASE c = d
  BY <1>1, TailKinds DEF PeerTyped, Popped
<1>2. CASE c # d
  BY <1>2 DEF PeerTyped, Popped
<1> QED BY <1>1, <1>2

From(w) == w = wire \/ \E d \in Calls : w = Popped(d) /\ wire[d] # << >>
Known(d) == d \in Calls /\ session[d] # "none"

\* A 2xx in the hands of the reader is one of a call that was made.
LEMMA ReaderIsMade ==
  ASSUME Base, reader # NoAnswer
  PROVE  Known(reader.call)
BY DEF Base, TypeOK, ReaderTyped, NamesAreMade, MadeInOrder, Known

\* The queues after a read: typed, empty ones still empty, no PRACK answer more.
LEMMA FromTyped ==
  ASSUME PeerTyped, NEW w, From(w)
  PROVE  /\ w \in [Calls -> Seq(Messages)]
         /\ \A c \in Calls : wire[c] = << >> => w[c] = << >>
         /\ \A c \in Calls : \A i \in 1 .. Len(w[c]) :
              w[c][i].kind = "prackOk" => \E j \in 1 .. Len(wire[c]) : wire[c][j].kind = "prackOk"
<1>1. CASE w = wire
  BY <1>1 DEF PeerTyped
<1>2. ASSUME NEW d \in Calls, w = Popped(d), wire[d] # << >>
      PROVE  /\ w \in [Calls -> Seq(Messages)]
             /\ \A c \in Calls : wire[c] = << >> => w[c] = << >>
             /\ \A c \in Calls : \A i \in 1 .. Len(w[c]) :
                  w[c][i].kind = "prackOk"
                    => \E j \in 1 .. Len(wire[c]) : wire[c][j].kind = "prackOk"
  <2>1. w \in [Calls -> Seq(Messages)] /\ w[d] = Tail(wire[d]) /\ wire[d] \in Seq(Messages)
    BY <1>2, PoppedTyped DEF PeerTyped, Popped
  <2>2. \A c \in Calls : c # d => w[c] = wire[c]
    BY <1>2 DEF PeerTyped, Popped
  <2>3. ASSUME NEW i \in 1 .. Len(w[d]), w[d][i].kind = "prackOk"
        PROVE  \E j \in 1 .. Len(wire[d]) : wire[d][j].kind = "prackOk"
    BY <1>2, <2>1, <2>3, TailKinds
  <2> QED BY <1>2, <2>1, <2>2, <2>3
<1> QED BY <1>1, <1>2 DEF From

\* What reaches the callee of a call that was made touches no call that was not.
LEMMA GetsKept ==
  ASSUME NewIsUntouched, PeerTyped, NEW d, Known(d), NEW w, From(w), NEW state, NEW reply,
         CalleeGets(d, state, reply, w)
  PROVE  PeerKept
<1>1. w \in [Calls -> Seq(Messages)] /\ \A c \in Calls : wire[c] = << >> => w[c] = << >>
  BY FromTyped
<1> QED BY <1>1 DEF Known, NewIsUntouched, PeerTyped, CalleeGets, PeerKept

\* An answer other than one to a PRACK puts no PRACK answer on its way.
LEMMA GetsNoPrack ==
  ASSUME PeerTyped, NEW d \in Calls, NEW w, From(w), NEW state,
         NEW kind \in (Responses \cup {"bye"}) \ {"prackOk"}, NEW sdp \in Codecs \cup {NoSdp},
         NEW reply \in {<< >>, <<Msg(kind, sdp)>>}, CalleeGets(d, state, reply, w)
  PROVE  NoNewPrack
<1> SUFFICES ASSUME NEW c \in Calls, NEW i \in 1 .. Len(wire'[c]), wire'[c][i].kind = "prackOk"
             PROVE  \E j \in 1 .. Len(wire[c]) : wire[c][j].kind = "prackOk"
  BY DEF NoNewPrack, Kinds
<1>1. /\ w \in [Calls -> Seq(Messages)]
      /\ \A k \in 1 .. Len(w[c]) :
           w[c][k].kind = "prackOk" => \E j \in 1 .. Len(wire[c]) : wire[c][j].kind = "prackOk"
  BY FromTyped
<1>2. CASE c # d
  <2>1. wire'[c] = w[c]
    BY <1>1, <1>2 DEF CalleeGets
  <2> QED BY <1>1, <2>1
<1>3. CASE c = d /\ reply = << >>
  <2>1. wire'[d] = w[d]
    BY <1>1, <1>3 DEF CalleeGets
  <2> QED BY <1>1, <1>3, <2>1
<1>4. CASE c = d /\ reply = <<Msg(kind, sdp)>>
  <2>1. wire'[d] = w[d] \o <<Msg(kind, sdp)>>
    BY <1>1, <1>4 DEF CalleeGets
  <2>2. Msg(kind, sdp) \in Messages /\ Msg(kind, sdp).kind # "prackOk"
    BY DEF Msg, Messages
  <2> QED BY <1>1, <1>4, <2>1, <2>2, AppendKinds
<1> QED BY <1>2, <1>3, <1>4

\* So for an INVITE.
LEMMA InvitedKept ==
  ASSUME NewIsUntouched, PeerTyped, NEW d, Known(d), NEW w, From(w), Invited(d, w)
  PROVE  PeerKept /\ NoNewPrack
<1>1. PICK state : CalleeGets(d, state, << >>, w)
  BY DEF Invited
<1>2. "180" \in (Responses \cup {"bye"}) \ {"prackOk"}
  BY DEF Responses
<1> QED BY <1>1, <1>2, GetsKept, GetsNoPrack DEF Known

\* So for a CANCEL.
LEMMA CancelledKept ==
  ASSUME NewIsUntouched, PeerTyped, NEW d, Known(d), NEW w, From(w), NEW seq,
         Cancelled(d, seq, w)
  PROVE  PeerKept /\ NoNewPrack
<1>1. "refused" \in (Responses \cup {"bye"}) \ {"prackOk"}
  BY DEF Responses
<1>2. ASSUME NEW state, NEW reply \in {<< >>, <<Msg("refused", NoSdp)>>},
             CalleeGets(d, state, reply, w)
      PROVE  PeerKept /\ NoNewPrack
  BY <1>1, <1>2, GetsKept, GetsNoPrack DEF Known
<1> QED BY <1>2 DEF Cancelled

\* So for a BYE.
LEMMA ByedKept ==
  ASSUME NewIsUntouched, PeerTyped, NEW d, Known(d), Byed(d, wire)
  PROVE  PeerKept /\ NoNewPrack
<1>1. "byeAnswer" \in (Responses \cup {"bye"}) \ {"prackOk"}
  BY DEF Responses
<1> QED BY <1>1, GetsKept, GetsNoPrack DEF Known, Byed, From

\* So for a message that is only read.
LEMMA PoppedKept ==
  ASSUME NewIsUntouched, PeerTyped, NEW d, Known(d), wire[d] # << >>, wire' = Popped(d),
         UNCHANGED uas
  PROVE  PeerKept /\ NoNewPrack
<1>1. NoNewPrack
  BY PoppedKinds DEF Known
<1> QED BY <1>1 DEF Known, NewIsUntouched, PeerTyped, PeerKept, Popped

\* So for a step that leaves the callees alone.
LEMMA SamePeer ==
  ASSUME NewIsUntouched, UNCHANGED <<uas, wire>>
  PROVE  PeerKept /\ NoNewPrack
BY DEF NewIsUntouched, PeerKept, NoNewPrack, Kinds

\* No step touches the callee of a call not yet made, and only a reliable 183 puts a
\* PRACK answer on its way.
LEMMA PeerStaysKept ==
  ASSUME Base, [Next]_vars
  PROVE  PeerKept /\ (NoNewPrack \/ \E c \in Calls : ReliableProvisional(c))
<1> DEFINE Goal == PeerKept /\ (NoNewPrack \/ \E c \in Calls : ReliableProvisional(c))
<1> USE DEF Base, TypeOK
<1>1. ASSUME NEW c \in Calls, wire[c] # << >> \/ uas[c] # "none" \/ watch[c] # "none" \/
   caller[c] # "none"
      PROVE  Known(c)
  BY <1>1 DEF Known, NewIsUntouched
<1>2. ASSUME reader # NoAnswer
      PROVE  Known(reader.call)
  BY <1>2, ReaderIsMade
<1>3. ASSUME looper # NoJob
      PROVE  Known(looper.call)
  BY <1>3 DEF Known, NamesAreMade, MadeInOrder, TasksTyped
<1>4. ASSUME NEW c \in Calls, CallWrites(c)
      PROVE  Goal
  BY <1>1, <1>4, InvitedKept, SamePeer DEF CallWrites, From, peer
<1>5. CASE TerminateCancels
  <2>1. Known(looper.call)
    BY <1>3, <1>5 DEF TerminateCancels, NoJob
  <2> QED BY <1>5, <2>1, CancelledKept, SamePeer DEF TerminateCancels, From
<1>6. CASE TerminateByes
  <2>1. Known(looper.call)
    BY <1>3, <1>6 DEF TerminateByes, NoJob
  <2> QED BY <1>6, <2>1, ByedKept, SamePeer DEF TerminateByes
<1>7. ASSUME NEW c \in Calls,
             IgnoreResponse(c) \/ Progressing(c) \/ PrackFailed(c) \/ UpdateUnwritten(c)
               \/ ByeAnswered(c) \/ RemoteBye(c)
      PROVE  Goal
  BY <1>1, <1>7, PoppedKept DEF IgnoreResponse, Progressing, PrackFailed, UpdateUnwritten,
     ByeAnswered, RemoteBye, Reads
<1>8. ASSUME NEW c \in Calls, ReliableProvisional(c)
      PROVE  Goal
  <2>1. Known(c) /\ From(Popped(c)) /\ wire[c] # << >>
    BY <1>1, <1>8 DEF ReliableProvisional, Reads, From
  <2> QED BY <1>8, <2>1, GetsKept, PoppedKept DEF ReliableProvisional
<1>9. ASSUME NEW c \in Calls, Provisional(c)
      PROVE  Goal
  <2>1. Known(c) /\ From(Popped(c)) /\ wire[c] # << >>
    BY <1>1, <1>9 DEF Provisional, Reads, From
  <2>2. "updateFailed" \in (Responses \cup {"bye"}) \ {"prackOk"}
    BY DEF Responses
  <2>3. ASSUME NEW d, Known(d), NEW sdp, InstallProvisional(d, sdp, Popped(c))
        PROVE  Goal
    BY <2>1, <2>2, <2>3, GetsKept, GetsNoPrack, PoppedKept DEF InstallProvisional, Known
  <2>4. ASSUME inFlight.call # NoCall
        PROVE  Known(inFlight.call)
    BY <2>4 DEF Known, NamesAreMade, MadeInOrder, ReaderTyped
  <2>5. Head(wire[c]).kind \in {"183", "prackOk"}
    BY <1>9 DEF Provisional, Reads
  <2> QED BY <1>9, <2>1, <2>3, <2>4, <2>5, PoppedKept DEF Provisional
<1>10. ASSUME NEW c \in Calls, Retry(c)
       PROVE  Goal
  BY <1>1, <1>10, InvitedKept, PoppedKept DEF Retry, Reads, From
<1>11. ASSUME NEW c \in Calls, Fails(c)
       PROVE  Goal
  BY <1>1, <1>11, CancelledKept, PoppedKept DEF Fails, Reads, From
<1>12. ASSUME NEW c \in Calls, AckFinal(c)
       PROVE  Goal
  <2>1. Known(c) /\ From(Popped(c)) /\ wire[c] # << >>
    BY <1>1, <1>12 DEF AckFinal, Reads, From
  <2>2. "180" \in (Responses \cup {"bye"}) \ {"prackOk"}
    BY DEF Responses
  <2>3. ASSUME NEW state, CalleeGets(c, state, << >>, Popped(c))
        PROVE  Goal
    BY <2>1, <2>2, <2>3, GetsKept, GetsNoPrack
  <2> QED BY <1>12, <2>1, <2>3, PoppedKept DEF AckFinal
<1>13. CASE FinishFinal
  <2>1. reader # NoAnswer /\ Known(reader.call)
    BY <1>2, <1>13 DEF FinishFinal
  <2>2. current # NoCall => Known(current)
    BY DEF Known, NamesAreMade, MadeInOrder, DialogTyped
  <2> QED
    BY <1>13, <2>1, <2>2, ByedKept, SamePeer DEF FinishFinal, HangUpCancelled, AnswerWithoutSdp,
       AnswerWithSdp, NoCall
<1>14. ASSUME NEW c \in Calls, WatchByes(c)
       PROVE  Goal
  BY <1>1, <1>14, ByedKept, SamePeer DEF WatchByes
<1>15. CASE DropAll
  BY <1>15 DEF DropAll, NewIsUntouched, PeerKept, NoNewPrack, Kinds
<1>16. CASE DropConnection \/ NetworkLost
  BY <1>15, <1>16 DEF DropConnection, NetworkLost
<1>17. ASSUME NEW c \in Calls, Callee(c) \/ GivesUp(c)
       PROVE  Goal
  <2>1. Known(c)
    BY <1>1, <1>17 DEF Callee, GivesUp, Rings, SendsSdp, Refuses, Answers
  <2>2. ASSUME NEW state, NEW kind \in (Responses \cup {"bye"}) \ {"prackOk"},
               NEW sdp \in Codecs \cup {NoSdp}, CalleeGets(c, state, <<Msg(kind, sdp)>>, wire)
        PROVE  Goal
    BY <2>1, <2>2, GetsKept, GetsNoPrack DEF From
  <2>3. CASE Rings(c)
    BY <2>2, <2>3 DEF Rings, Responses
  <2>4. ASSUME NEW kind \in {"183", "reliable"}, NEW sdp \in Codecs, SendsSdp(c, kind, sdp)
        PROVE  Goal
    BY <2>2, <2>4 DEF SendsSdp, Responses
  <2>5. ASSUME NEW kind \in {"422", "illegal"}, Refuses(c, kind)
        PROVE  Goal
    BY <2>2, <2>5 DEF Refuses, Responses
  <2>6. ASSUME NEW sdp \in Codecs \cup {NoSdp}, Answers(c, sdp)
        PROVE  Goal
    BY <2>2, <2>6 DEF Answers, Responses
  <2>7. CASE GivesUp(c)
    BY <2>2, <2>7 DEF GivesUp, Responses
  <2> QED BY <1>17, <2>3, <2>4, <2>5, <2>6, <2>7 DEF Callee
<1>18. ASSUME NEW c \in Calls,
              Start(c) \/ CallPrepares(c) \/ ByeTimer(c) \/ RestartMedia(c) \/ RtpArrives(c)
                \/ WatchEnds(c)
       PROVE  Goal
  BY <1>18, SamePeer DEF Start, CallPrepares, ByeTimer, RestartMedia, RtpArrives, WatchEnds, peer
<1>19. CASE HangUp \/ TerminateBegins \/ Break \/ Connected
  BY <1>19, SamePeer DEF HangUp, TerminateBegins, Break, Connected, peer
<1>20. CASE UNCHANGED vars
  BY <1>20, SamePeer DEF vars, peer
<1> QED
  BY <1>4, <1>5, <1>6, <1>7, <1>8, <1>9, <1>10, <1>11, <1>12, <1>13, <1>14, <1>16, <1>17, <1>18,
     <1>19, <1>20 DEF Next, CallThread, Looper, ReadsOf, WatchThread

\* No step makes a session new again.
LEMMA SessionStaysKept ==
  ASSUME Base, [Next]_vars
  PROVE  SessionKept
<1>1. ASSUME NEW c \in Calls, Start(c)
      PROVE  SessionKept
  BY <1>1 DEF Start, Base, TypeOK, SessionTyped, SessionKept
<1>2. CASE \A c \in Calls : ~Start(c)
  BY <1>2, SameCallsStep DEF SameCalls, SessionKept
<1> QED BY <1>1, <1>2

\* No call() runs for a session that was not started.
LEMMA CallerStaysKept ==
  ASSUME Base, [Next]_vars
  PROVE  CallerKept
<1> USE DEF Base, TypeOK, InviteTyped, SessionTyped, NewIsUntouched, CallerKept, SessionKept
<1>1. ASSUME NEW c \in Calls, Start(c)
      PROVE  CallerKept
  BY <1>1 DEF Start, Live
<1>2. ASSUME NEW c \in Calls, CallPrepares(c)
      PROVE  CallerKept
  BY <1>2, SessionStaysKept DEF CallPrepares
<1>3. ASSUME NEW c \in Calls, CallWrites(c)
      PROVE  CallerKept
  BY <1>3, SessionStaysKept DEF CallWrites
<1>4. ASSUME NEW c \in Calls,
           ByeTimer(c) \/ RestartMedia(c) \/ IgnoreResponse(c) \/ Progressing(c) \/
           ReliableProvisional(c) \/ Provisional(c) \/ PrackFailed(c) \/ UpdateUnwritten(c) \/
              Retry(c) \/
           Fails(c) \/ AckFinal(c) \/ ByeAnswered(c) \/ RemoteBye(c) \/ RtpArrives(c) \/
              WatchEnds(c) \/
           WatchByes(c) \/ Callee(c) \/ GivesUp(c)
      PROVE  CallerKept
  BY <1>4, SessionStaysKept DEF ByeTimer, RestartMedia, IgnoreResponse, Progressing,
     ReliableProvisional,
     Provisional, PrackFailed, UpdateUnwritten, Retry, Fails, AckFinal, ByeAnswered, RemoteBye,
     RtpArrives, WatchEnds, WatchByes, Callee, GivesUp, InstallProvisional, Rings, SendsSdp,
     Refuses, Answers, CalleeOnly
<1>5. CASE HangUp \/ TerminateBegins \/ TerminateCancels \/ TerminateByes \/ FinishFinal \/
   Break \/ DropConnection \/ NetworkLost \/ Connected
  BY <1>5, SessionStaysKept DEF HangUp, TerminateBegins, TerminateCancels, TerminateByes,
     FinishFinal, Break,
     DropConnection, NetworkLost, Connected, HangUpCancelled, AnswerWithoutSdp, AnswerWithSdp,
     DropAll
<1>6. CASE UNCHANGED vars
  BY <1>6, SessionStaysKept DEF vars
<1> QED
  BY <1>1, <1>2, <1>3, <1>4, <1>5, <1>6 DEF Next, CallThread, Looper, ReadsOf, WatchThread

\* No RTP timeout runs for a call not yet made.
LEMMA WatchStaysKept ==
  ASSUME Base, [Next]_vars
  PROVE  WatchKept
<1> USE DEF Base, TypeOK, TasksTyped, NewIsUntouched, WatchKept
<1>1. CASE FinishFinal
  <2>1. Known(reader.call)
    BY <1>1, ReaderIsMade DEF FinishFinal
  <2>2. UNCHANGED watch \/ watch' = [watch EXCEPT ![reader.call] = "sleeps"]
    BY <1>1 DEF FinishFinal, HangUpCancelled, AnswerWithoutSdp, AnswerWithSdp
  <2> QED BY <2>1, <2>2 DEF Known
<1>2. ASSUME NEW c \in Calls, WatchEnds(c)
      PROVE  WatchKept
  BY <1>2 DEF WatchEnds, StopRuntime, tasks
<1>3. ASSUME NEW c \in Calls, WatchByes(c)
      PROVE  WatchKept
  BY <1>3 DEF WatchByes, StopRuntime, Cleared, Tell, tasks
<1>4. ASSUME NEW c \in Calls,
           Start(c) \/ CallPrepares(c) \/ CallWrites(c) \/ ByeTimer(c) \/ RestartMedia(c) \/
           IgnoreResponse(c) \/ Progressing(c) \/ ReliableProvisional(c) \/ Provisional(c) \/
           PrackFailed(c) \/ UpdateUnwritten(c) \/ Retry(c) \/ Fails(c) \/ AckFinal(c) \/
              ByeAnswered(c) \/
           RemoteBye(c) \/ RtpArrives(c) \/ Callee(c) \/ GivesUp(c)
      PROVE  WatchKept
  BY <1>4 DEF Start, CallPrepares, CallWrites, ByeTimer, RestartMedia, IgnoreResponse, Progressing,
     ReliableProvisional, Provisional, PrackFailed, UpdateUnwritten, Retry, Fails, AckFinal,
     ByeAnswered, RemoteBye, RtpArrives, Callee, GivesUp, InstallProvisional, Rings, SendsSdp,
     Refuses, Answers, CalleeOnly, tasks
<1>5. CASE HangUp \/ TerminateBegins \/ TerminateCancels \/ TerminateByes \/ Break \/
   DropConnection \/ NetworkLost \/ Connected
  BY <1>5 DEF HangUp, TerminateBegins, TerminateCancels, TerminateByes, Break, DropConnection,
     NetworkLost, Connected, DropAll, tasks
<1>6. CASE UNCHANGED vars
  BY <1>6 DEF vars, tasks
<1> QED
  BY <1>1, <1>2, <1>3, <1>4, <1>5, <1>6 DEF Next, CallThread, Looper, ReadsOf, WatchThread

\* A call not yet made stays untouched.
LEMMA NewIsUntouchedStep ==
  ASSUME Base, [Next]_vars
  PROVE  NewIsUntouched'
BY SessionStaysKept, CallerStaysKept, WatchStaysKept, PeerStaysKept
   DEF SessionKept, CallerKept, WatchKept, PeerKept, NewIsUntouched

\* While a PRACK answer of the latest call is on its way, respInFlight is its 183.
LEMMA PrackIsOfOwnerStep ==
  ASSUME Base, Single, [Next]_vars, \A c \in Calls : ~Start(c)
  PROVE  PrackIsOfOwner'
<1> USE DEF Base, Single, PrackIsOfOwner, TypeOK, SessionTyped, Calls, NoCall
<1>2. ASSUME NEW c \in Calls, ReliableProvisional(c)
      PROVE  PrackIsOfOwner'
  BY <1>2, HeardIsOwner DEF ReliableProvisional
<1>3. CASE \A c \in Calls : ~ReliableProvisional(c)
  <2>1. NoNewPrack
    BY <1>3, PeerStaysKept
  <2>2. owner' = owner /\ (inFlight' = inFlight \/ inFlight'.call = NoCall)
    <3>1. ASSUME NEW c \in Calls, Provisional(c)
          PROVE  owner' = owner /\ (inFlight' = inFlight \/ inFlight'.call = NoCall)
      BY <3>1 DEF Provisional, InstallProvisional, CodecChanges
    <3>2. ASSUME NEW c \in Calls, PrackFailed(c)
          PROVE  owner' = owner /\ (inFlight' = inFlight \/ inFlight'.call = NoCall)
      BY <3>2 DEF PrackFailed
    <3>3. ASSUME NEW c \in Calls, UpdateUnwritten(c)
          PROVE  owner' = owner /\ (inFlight' = inFlight \/ inFlight'.call = NoCall)
      BY <3>3 DEF UpdateUnwritten, StopRuntime, Tell
    <3>4. ASSUME NEW c \in Calls,
               CallPrepares(c) \/ CallWrites(c) \/ ByeTimer(c) \/ RestartMedia(c) \/
                  IgnoreResponse(c) \/
               Progressing(c) \/ Retry(c) \/ Fails(c) \/ AckFinal(c) \/ ByeAnswered(c) \/
                  RemoteBye(c) \/
               RtpArrives(c) \/ WatchEnds(c) \/ WatchByes(c) \/ Callee(c) \/ GivesUp(c)
          PROVE  owner' = owner /\ (inFlight' = inFlight \/ inFlight'.call = NoCall)
      BY <3>4 DEF CallPrepares, CallWrites, ByeTimer, RestartMedia, IgnoreResponse, Progressing,
         Retry,
         Fails, AckFinal, ByeAnswered, RemoteBye, RtpArrives, WatchEnds, WatchByes, Callee, GivesUp,
         Rings, SendsSdp, Refuses, Answers, CalleeOnly
    <3>5. CASE HangUp \/ TerminateBegins \/ TerminateCancels \/ TerminateByes \/ FinishFinal \/
       Break \/ DropConnection \/ NetworkLost \/ Connected
      BY <3>5 DEF HangUp, TerminateBegins, TerminateCancels, TerminateByes, FinishFinal, Break,
         DropConnection, NetworkLost, Connected, HangUpCancelled, AnswerWithoutSdp, AnswerWithSdp,
         DropAll
    <3>6. CASE UNCHANGED vars
      BY <3>6 DEF vars
    <3> QED
      BY <1>3, <3>1, <3>2, <3>3, <3>4, <3>5, <3>6 DEF Next, CallThread, Looper, ReadsOf, WatchThread
  <2> QED BY <2>1, <2>2 DEF NoNewPrack
<1> QED BY <1>2, <1>3

\* A call that begins with nothing left of the others is the only one there is.
LEMMA StartIsSingle ==
  ASSUME Base, NEW c \in Calls, Start(c), owner' \notin redials'
  PROVE  Single'
<1> USE DEF Base, TypeOK, InviteTyped, SessionTyped, NewIsUntouched
<1>1. Settled /\ owner' = c /\ sipId' = NoCall /\ caller'[c] = "begun" /\ session'[c] = "dialing"
  BY DEF Start
<1>2. UNCHANGED <<current, pending, looper, reader, wire, inFlight>>
  BY DEF Start, invite, dialog, tasks, peer
<1>3. \A d \in Calls : d # c => caller'[d] \in {"none", "done"}
  BY <1>1 DEF Start, Settled
<1>4. OneAtATime' /\ FreshIsIdle' /\ EndedHasNoInvite'
  BY <1>1, <1>2, <1>3 DEF Settled, OneAtATime, FreshIsIdle, EndedHasNoInvite, NoJob, NoAnswer
<1>5. wire'[c] = << >>
  BY <1>2 DEF Start
<1>6. PrackIsOfOwner' /\ StartedIsAnswered'
  BY <1>1, <1>5 DEF PrackIsOfOwner, StartedIsAnswered, Kinds
<1> QED BY <1>4, <1>6 DEF Single

\* The latest call is a number.
LEMMA OwnerTyped ==
  ASSUME Base, [Next]_vars
  PROVE  owner \in Nat /\ owner' \in Nat
<1>1. TypeOK /\ TypeOK'
  BY TypeStep DEF Base
<1> QED BY <1>1 DEF TypeOK, SessionTyped, Calls, NoCall

\* What names a call names one that was made.
LEMMA NamesAreMadeStep ==
  ASSUME Base, [Next]_vars
  PROVE  NamesAreMade'
<1> DEFINE Names == {current, pending, sipId, looper.call, reader.call, inFlight.call} \cup acked
           Made == {c \in Calls : c <= owner} \cup {NoCall}
<1> USE DEF Base, TypeOK, InviteTyped, DialogTyped, TasksTyped, ReaderTyped, SessionTyped, RestTyped,
    Calls, NoCall, NoJob, NoAnswer
<1>1. Names \subseteq Made
  <2>1. /\ looper.call \in Calls \cup {NoCall} /\ reader.call \in Calls \cup {NoCall}
        /\ inFlight.call \in Calls \cup {NoCall}
    OBVIOUS
  <2>2. Names \subseteq Calls \cup {NoCall}
    BY <2>1
  <2> QED BY <2>2 DEF NamesAreMade
<1>2. ASSUME NEW c \in Calls, wire[c] # << >> \/ caller[c] # "none" \/ current = c
      PROVE  c \in Made
  BY <1>2 DEF NewIsUntouched, MadeInOrder, NamesAreMade
<1>3. SUFFICES Names' \subseteq Made
  <2>1. owner \in Nat /\ owner' \in Nat /\ owner <= owner'
    BY MadeInOrderStep, OwnerTyped
  <2>2. \A c \in Made : c <= owner'
    BY <2>1
  <2> QED BY <1>3, <2>2 DEF NamesAreMade
<1>4. ASSUME NEW c \in Calls, Start(c)
      PROVE  Names' \subseteq Made
  BY <1>1, <1>4 DEF Start, invite, dialog, tasks
<1>5. ASSUME NEW c \in Calls, CallPrepares(c)
      PROVE  Names' \subseteq Made
  BY <1>1, <1>2, <1>5 DEF CallPrepares, dialog, tasks, told, history
<1>6. ASSUME NEW c \in Calls, CallWrites(c)
      PROVE  Names' \subseteq Made
  BY <1>1, <1>6 DEF CallWrites, FailSetup, Tell, tasks, told, history
<1>7. CASE TerminateBegins
  BY <1>1, <1>7 DEF TerminateBegins, Job, dialog, told, history
<1>8. CASE TerminateCancels
  BY <1>1, <1>8 DEF TerminateCancels, Cleared, Tell, told, history
<1>9. CASE TerminateByes
  BY <1>1, <1>9 DEF TerminateByes, Cleared, Tell, told, history
<1>10. ASSUME NEW c \in Calls, Progressing(c)
       PROVE  Names' \subseteq Made
  BY <1>1, <1>2, <1>10 DEF Progressing, Reads, invite, dialog, tasks, history
<1>11. ASSUME NEW c \in Calls, ReliableProvisional(c)
       PROVE  Names' \subseteq Made
  BY <1>1, <1>2, <1>11 DEF ReliableProvisional, Reads, FailSetup, Tell, tasks, told, history
<1>12. ASSUME NEW c \in Calls, Provisional(c)
       PROVE  Names' \subseteq Made
  <2>1. c \in Made
    BY <1>2, <1>12 DEF Provisional, Reads
  <2>2. current' \in {current, c, inFlight.call} /\ inFlight'.call \in {inFlight.call, NoCall}
    BY <1>12 DEF Provisional, InstallProvisional, dialog
  <2>3. UNCHANGED <<pending, sipId, looper, reader, acked>>
    BY <1>12 DEF Provisional, invite, told
  <2> QED BY <1>1, <2>1, <2>2, <2>3
<1>13. ASSUME NEW c \in Calls, UpdateUnwritten(c)
       PROVE  Names' \subseteq Made
  BY <1>1, <1>13 DEF UpdateUnwritten, Tell, tasks, told, history
<1>14. ASSUME NEW c \in Calls, Retry(c)
       PROVE  Names' \subseteq Made
  BY <1>1, <1>14 DEF Retry, FailSetup, Tell, tasks, told, history
<1>15. ASSUME NEW c \in Calls, Fails(c)
       PROVE  Names' \subseteq Made
  BY <1>1, <1>15 DEF Fails, Tell, Cleared, tasks, told, history
<1>16. ASSUME NEW c \in Calls, AckFinal(c)
       PROVE  Names' \subseteq Made
  <2>1. c \in Made
    BY <1>2, <1>16 DEF AckFinal, Reads
  <2>2. reader'.call \in {reader.call, c} /\ acked' \subseteq acked \cup {c}
    BY <1>16 DEF AckFinal
  <2>3. current' \in {current, NoCall} /\ pending' \in {pending, NoCall} /\ sipId' \in {sipId, NoCall}
    BY <1>16 DEF AckFinal, FailSetup, Tell, told
  <2>4. UNCHANGED <<looper, inFlight>>
    BY <1>16 DEF AckFinal, tasks
  <2> QED BY <1>1, <2>1, <2>2, <2>3, <2>4
<1>17. CASE FinishFinal
  <2>1. current' \in {current, reader.call, NoCall} /\ pending' \in {pending, NoCall}
    BY <1>17 DEF FinishFinal, HangUpCancelled, AnswerWithoutSdp, AnswerWithSdp, Cleared
  <2>2. UNCHANGED <<sipId, looper, inFlight, acked>> /\ reader'.call = NoCall
    BY <1>17 DEF FinishFinal, told
  <2> QED BY <1>1, <2>1, <2>2
<1>18. ASSUME NEW c \in Calls, ByeAnswered(c)
       PROVE  Names' \subseteq Made
  BY <1>1, <1>18 DEF ByeAnswered, Cleared, tasks, told, history
<1>19. ASSUME NEW c \in Calls, RemoteBye(c)
       PROVE  Names' \subseteq Made
  BY <1>1, <1>19 DEF RemoteBye, Cleared, Tell, tasks, told
<1>20. ASSUME NEW c \in Calls, RtpArrives(c)
       PROVE  Names' \subseteq Made
  BY <1>1, <1>20 DEF RtpArrives, invite, tasks, told, history
<1>21. ASSUME NEW c \in Calls, WatchByes(c)
       PROVE  Names' \subseteq Made
  BY <1>1, <1>21 DEF WatchByes, Cleared, Tell, told
<1>22. CASE DropConnection \/ NetworkLost
  BY <1>1, <1>22 DEF DropConnection, NetworkLost, DropAll, Tell, tasks, told
<1>23. ASSUME NEW c \in Calls,
           ByeTimer(c) \/ RestartMedia(c) \/ IgnoreResponse(c) \/ PrackFailed(c) \/ WatchEnds(c)
       PROVE  Names' \subseteq Made
  BY <1>1, <1>23 DEF ByeTimer, RestartMedia, IgnoreResponse, PrackFailed, WatchEnds, invite, dialog,
     tasks, told, history
<1>24. ASSUME NEW c \in Calls, Callee(c) \/ GivesUp(c)
       PROVE  Names' \subseteq Made
  <2>1. CalleeOnly
    BY <1>24 DEF Callee, GivesUp, Rings, SendsSdp, Refuses, Answers
  <2> QED BY <1>1, <2>1 DEF CalleeOnly, invite, dialog, tasks, told, history
<1>25. CASE HangUp \/ Break \/ Connected \/ UNCHANGED vars
  BY <1>1, <1>25 DEF HangUp, Break, Connected, vars, invite, dialog, tasks, told, history
<1> QED
  BY <1>4, <1>5, <1>6, <1>7, <1>8, <1>9, <1>10, <1>11, <1>12, <1>13, <1>14, <1>15, <1>16, <1>17,
     <1>18, <1>19, <1>20, <1>21, <1>22, <1>23, <1>24, <1>25 DEF Next, CallThread, Looper, ReadsOf,
     WatchThread

\* Only the handler of an acknowledged 2xx sets callStarted.
LEMMA AckedBeforeStep ==
  ASSUME Base, [Next]_vars
  PROVE  AckedBefore'
<1> USE DEF Base, TypeOK, ReaderTyped, AckedBefore
<1>1. ASSUME NEW c \in Calls, AckFinal(c)
      PROVE  AckedBefore'
  <2>1. acked \subseteq acked' /\ (started' => started)
    BY <1>1 DEF AckFinal, FailSetup, StopRuntime, media
  <2>2. reader' = reader \/ (reader'.call = c /\ c \in acked')
    BY <1>1 DEF AckFinal
  <2> QED BY <2>1, <2>2
<1>2. CASE FinishFinal
  BY <1>2 DEF FinishFinal, NoAnswer
<1>3. ASSUME UNCHANGED <<reader, acked>>, started' => started
      PROVE  AckedBefore'
  BY <1>3
<1>4. ASSUME NEW c \in Calls,
           CallPrepares(c) \/ CallWrites(c) \/ RestartMedia(c) \/ ReliableProvisional(c) \/
           Provisional(c) \/ UpdateUnwritten(c) \/ Retry(c) \/ Fails(c) \/ RemoteBye(c) \/
           WatchEnds(c) \/ WatchByes(c)
      PROVE  UNCHANGED <<reader, acked>> /\ (started' => started)
  BY <1>4 DEF CallPrepares, CallWrites, RestartMedia, ReliableProvisional, Provisional,
     InstallProvisional, UpdateUnwritten, Retry, Fails, RemoteBye, WatchEnds, WatchByes, FailSetup,
     StopRuntime, media, history
<1>5. ASSUME NEW c \in Calls,
           Start(c) \/ ByeTimer(c) \/ IgnoreResponse(c) \/ Progressing(c) \/ PrackFailed(c) \/
           ByeAnswered(c) \/ RtpArrives(c) \/ Callee(c) \/ GivesUp(c)
      PROVE  UNCHANGED <<reader, acked, started>>
  BY <1>5 DEF Start, ByeTimer, IgnoreResponse, Progressing, PrackFailed, ByeAnswered, RtpArrives,
     Callee, GivesUp, Rings, SendsSdp, Refuses, Answers, CalleeOnly, media, history
<1>6. CASE TerminateBegins \/ TerminateCancels \/ TerminateByes \/ DropConnection \/ NetworkLost
  BY <1>3, <1>6 DEF TerminateBegins, TerminateCancels, TerminateByes, DropConnection, NetworkLost,
     DropAll, StopRuntime, media, history
<1>7. CASE HangUp \/ Break \/ Connected \/ UNCHANGED vars
  BY <1>3, <1>7 DEF HangUp, Break, Connected, vars, media, history
<1> QED
  BY <1>1, <1>2, <1>3, <1>4, <1>5, <1>6, <1>7 DEF Next, CallThread, Looper, ReadsOf, WatchThread

\* The strengthened invariant holds initially.
LEMMA InvInit == Init => Inv
<1> SUFFICES ASSUME Init PROVE Inv
  OBVIOUS
<1>1. TypeOK
  BY TypeInit
<1>2. NewIsUntouched /\ MadeInOrder /\ NamesAreMade /\ AckedBefore /\ ConnectedIsAnswered
  BY DEF Init, NewIsUntouched, MadeInOrder, NamesAreMade, AckedBefore, ConnectedIsAnswered, Calls,
     NoCall, NoJob, NoAnswer
<1>3. OneAtATime /\ FreshIsIdle /\ EndedHasNoInvite /\ PrackIsOfOwner /\ StartedIsAnswered
  BY DEF Init, OneAtATime, FreshIsIdle, EndedHasNoInvite, PrackIsOfOwner, StartedIsAnswered, Calls,
     NoCall, NoJob, NoAnswer
<1> QED BY <1>1, <1>2, <1>3 DEF Inv, Base, Single

\* Each step keeps the strengthened invariant.
LEMMA InvStep == Inv /\ [Next]_vars => Inv'
<1> SUFFICES ASSUME Inv, [Next]_vars PROVE Inv'
  OBVIOUS
<1>1. Base /\ TypeOK
  BY DEF Inv, Base
<1>2. Base'
  BY <1>1, TypeStep, NewIsUntouchedStep, MadeInOrderStep, NamesAreMadeStep, AckedBeforeStep DEF Base
<1>3. ASSUME owner' \notin redials'
      PROVE  Single'
  <2>1. ASSUME NEW c \in Calls, Start(c)
        PROVE  Single'
    BY <1>1, <1>3, <2>1, StartIsSingle
  <2>2. CASE \A c \in Calls : ~Start(c)
    <3>1. Single
      BY <1>1, <1>3, <2>2, SameCallsStep DEF SameCalls, Inv
    <3> QED
      BY <1>1, <2>2, <3>1, OneAtATimeStep, FreshIsIdleStep, EndedHasNoInviteStep,
         PrackIsOfOwnerStep, StartedIsAnsweredStep DEF Single
  <2> QED BY <2>1, <2>2
<1>4. ConnectedIsAnswered'
  BY ConnectedStep
<1> QED BY <1>2, <1>3, <1>4 DEF Inv

\* callSessionInitiated for a session comes after the ACK of the 2xx of its own call: neither
\* early media nor the callStarted, the RTP or the PRACK answer of an earlier call connects it,
\* unless it was begun before that one was cleared away.
THEOREM ConnectedAfterAnswer == Spec => []ConnectedIsAnswered
<1>1. Inv => ConnectedIsAnswered
  BY DEF Inv
<1> QED BY InvInit, InvStep, <1>1, PTL DEF Spec
=============================================================================
