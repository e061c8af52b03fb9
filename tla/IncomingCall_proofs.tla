-------------------------- MODULE IncomingCall_proofs --------------------------
(***************************************************************************)
(* Theorems about IncomingCall, for any Call-IDs, event kinds and number of *)
(* events. The inductive invariant Inv adds to the type invariant           *)
(*  - ThreadsFit: which threads of a call can exist together, and with      *)
(*    which session;                                                       *)
(*  - Preparing: a call that is being set up is not answered;               *)
(*  - Refusals: a refused call is current only for a thread that will       *)
(*    clear it, or because a thread put it back;                            *)
(*  - FlagHolds: the flag of a late CANCEL is up for the answered call;     *)
(*  - StartedHolds: callStarted is set for the confirmed call.              *)
(***************************************************************************)
EXTENDS IncomingCall, TLAPS

Duplicating(c) == reader[c] \in {"refresh", "repeat", "resend", "answered"}

\* acceptCall has raised the flag for the call.
Flagged(c) == accept[c] \in {"answering", "written"} \/ resend[c] # "none"

ThreadsFit ==
  \A c \in Calls :
    /\ remote[c] = "idle" =>
         setup[c] = "none" /\ session[c] = "none" /\ current # c /\ reader[c] = "idle"
    /\ setup[c] \in {"prepare", "recheck"} => session[c] = "none"
    /\ setup[c] = "announce" => session[c] = "announced"
    /\ accept[c] # "none" => session[c] \in {"accepted", "ended"} /\ reject[c] = "none"
    /\ resend[c] # "none" => accept[c] = "done"

Preparing ==
  \A c \in Calls :
    setup[c] = "prepare" => answer[c] # "ok" /\ ~Confirmed(c) /\ ~Duplicating(c)

Refusals ==
  \A c \in Calls :
    answer[c] = "error" /\ remote[c] # "over" =>
      /\ setup[c] \in {"prepare", "recheck"} => c \in terminated \/ reader[c] = "clear"
      /\ current = c => \/ reject[c] = "cleanup" \/ setup[c] = "recheck"
                        \/ reader[c] = "clear" \/ c \in putBack

FlagHolds ==
  \A c \in Calls :
    /\ accept[c] = "looked" /\ Cancelling(c) => c \in crossed
    /\ Flagged(c) /\ current = c /\ c \notin crossed \cup putBack
         => finalSent /\ ~Cancelling(c)

StartedHolds ==
  \A c \in Calls \ putBack :
    Confirmed(c) /\ current = c /\ (\A d \in Calls : ~Cancelling(d)) => callStarted

Inv ==
  /\ TypeOK /\ ThreadsFit /\ Preparing /\ NoRevival /\ Refusals /\ FlagHolds /\ StartedHolds

-----------------------------------------------------------------------------
LEMMA InitInvariant == Init => Inv
<1> SUFFICES ASSUME Init PROVE Inv
  OBVIOUS
<1> USE CallAssumption, InputsAssumption DEF Init
<1>1. FlagsOK
  BY DEF FlagsOK
<1>2. TypeOK
  BY <1>1 DEF TypeOK, Remotes, Steps
<1>3. ThreadsFit /\ Preparing /\ NoRevival /\ Refusals /\ FlagHolds /\ StartedHolds
  BY DEF ThreadsFit, Preparing, NoRevival, Refusals, FlagHolds, StartedHolds, Confirmed,
      Flagged, Duplicating, Cancelling
<1> QED BY <1>2, <1>3 DEF Inv

(* The Boolean flags, apart from the rest of the type invariant. *)
LEMMA FlagsOKStep == Inv /\ [Next]_vars => FlagsOK'
<1> SUFFICES ASSUME Inv, [Next]_vars PROVE FlagsOK'
  OBVIOUS
<1> USE CallAssumption, InputsAssumption DEF Inv, TypeOK, Goto, Confirmed, dialog, flags,
      answerers, history, FlagsOK
<1>1. ASSUME NEW c \in Calls, Invite(c) PROVE FlagsOK'
  <2>1. CASE InviteAfterTermination(c)
    BY <2>1 DEF InviteAfterTermination, InviteArrives, FirstInvite, RepeatedInvite, Recent,
          Refuse
  <2>2. CASE InviteForKnownCall(c)
    BY <2>2 DEF InviteForKnownCall, InviteArrives, FirstInvite, RepeatedInvite, Recent
  <2>3. CASE InviteWhileBusy(c)
    BY <2>3 DEF InviteWhileBusy, InviteArrives, FirstInvite, RepeatedInvite, Recent, Refuse
  <2>4. CASE InviteUnusable(c)
    BY <2>4 DEF InviteUnusable, InviteArrives, FirstInvite, RepeatedInvite, Refuse
  <2>5. CASE InviteNotAcceptable(c)
    BY <2>5 DEF InviteNotAcceptable, InviteArrives, FirstInvite, RepeatedInvite, Recent,
          Refuse, ResetForNewInvite, ClearAnswerFlags
  <2>6. CASE InviteCannotRing(c)
    BY <2>6 DEF InviteCannotRing, InviteArrives, FirstInvite, RepeatedInvite, Recent,
          ResetForNewInvite, ClearAnswerFlags
  <2>7. CASE InviteStartsSetup(c)
    BY <2>7 DEF InviteStartsSetup, InviteArrives, FirstInvite, RepeatedInvite, Recent,
          ResetForNewInvite, ClearAnswerFlags
  <2> QED BY <1>1, <2>1, <2>2, <2>3, <2>4, <2>5, <2>6, <2>7 DEF Invite
<1>2. ASSUME NEW c \in Calls, Duplicate(c) PROVE FlagsOK'
  <2>1. CASE DuplicateRefreshes(c)
    BY <2>1 DEF DuplicateRefreshes, PutBack
  <2>2. CASE DuplicateAnswers(c)
    BY <2>2 DEF DuplicateAnswers, PutBack
  <2>3. CASE DuplicateAnswered(c)
    BY <2>3 DEF DuplicateAnswered
  <2> QED BY <1>2, <2>1, <2>2, <2>3 DEF Duplicate
<1>3. ASSUME NEW c \in Calls,
             \/ Cancel(c) \/ CancelRefuses(c) \/ CancelClears(c) \/ Ack(c) \/ AckEndsCall(c)
             \/ Bye(c) \/ Update(c) \/ UpdateStores(c)
      PROVE  FlagsOK'
  <2>1. CASE Cancel(c)
    BY <2>1 DEF Cancel, LateCancel, CancelBegins
  <2>2. CASE CancelRefuses(c)
    BY <2>2 DEF CancelRefuses, Refuse
  <2>3. CASE CancelClears(c)
    BY <2>3 DEF CancelClears, CancelSession
  <2>4. CASE Ack(c)
    BY <2>4 DEF Ack, AckArrives
  <2>5. CASE AckEndsCall(c)
    BY <2>5 DEF AckEndsCall
  <2>6. CASE Bye(c)
    BY <2>6 DEF Bye, CancelSession
  <2>7. CASE Update(c)
    BY <2>7 DEF Update
  <2>8. CASE UpdateStores(c)
    BY <2>8 DEF UpdateStores, PutBack
  <2> QED BY <1>3, <2>1, <2>2, <2>3, <2>4, <2>5, <2>6, <2>7, <2>8
<1>4. ASSUME NEW c \in Calls, SetUp(c) PROVE FlagsOK'
  <2>1. CASE SetupAborts(c)
    BY <2>1 DEF SetupAborts
  <2>2. CASE SetupInstalls(c)
    BY <2>2 DEF SetupInstalls
  <2>3. CASE SetupRechecks(c)
    BY <2>3 DEF SetupRechecks
  <2>4. CASE SetupAnnounced(c)
    BY <2>4 DEF SetupAnnounced
  <2> QED BY <1>4, <2>1, <2>2, <2>3, <2>4 DEF SetUp
<1>5. ASSUME NEW c \in Calls, User(c) PROVE FlagsOK'
  <2>1. CASE Accept(c)
    BY <2>1 DEF Accept
  <2>2. CASE Reject(c)
    BY <2>2 DEF Reject, Refuse
  <2>3. CASE Terminate(c)
    BY <2>3 DEF Terminate, TerminateBeforeAck, TerminateWithBye, TerminateElsewhere
  <2>4. CASE TerminateClears(c)
    BY <2>4 DEF TerminateClears
  <2> QED BY <1>5, <2>1, <2>2, <2>3, <2>4 DEF User
<1>6. ASSUME NEW c \in Calls, Accepting(c) PROVE FlagsOK'
  <2>1. CASE AcceptFindsNoCall(c)
    BY <2>1 DEF AcceptFindsNoCall
  <2>2. CASE AcceptWaitsForAccess(c)
    BY <2>2 DEF AcceptWaitsForAccess
  <2>3. CASE AcceptLooks(c)
    BY <2>3 DEF AcceptLooks
  <2>4. CASE AcceptRaisesFlags(c)
    BY <2>4 DEF AcceptRaisesFlags, AcceptStores, PutBack
  <2>5. CASE AcceptAnswers(c)
    BY <2>5 DEF AcceptAnswers
  <2>6. CASE AcceptCannotAnswer(c)
    BY <2>6 DEF AcceptCannotAnswer, ClearAnswerFlags, CancelSession
  <2>7. CASE AcceptFinishes(c)
    BY <2>7 DEF AcceptFinishes
  <2> QED BY <1>6, <2>1, <2>2, <2>3, <2>4, <2>5, <2>6, <2>7 DEF Accepting
<1>7. ASSUME NEW c \in Calls, Resending(c) PROVE FlagsOK'
  <2>1. CASE ResendEnds(c)
    BY <2>1 DEF ResendEnds, CancelSession
  <2>2. CASE ResendFails(c)
    BY <2>2 DEF ResendFails
  <2> QED BY <1>7, <2>1, <2>2 DEF Resending
<1>8. ASSUME NEW c \in Calls, RejectCleansUp(c) PROVE FlagsOK'
  BY <1>8 DEF RejectCleansUp, ClearAnswerFlags, CancelSession
<1>9. ASSUME NEW c \in Calls, CallerLearns(c) PROVE FlagsOK'
  BY <1>9 DEF CallerLearns
<1>10. CASE Drop
  BY <1>10 DEF Drop, ClearAnswerFlags
<1>11. CASE UNCHANGED vars
  BY <1>11 DEF vars
<1> QED BY <1>1, <1>2, <1>3, <1>4, <1>5, <1>6, <1>7, <1>8, <1>9, <1>10, <1>11 DEF Next, Reader

LEMMA TypeOKStep == Inv /\ [Next]_vars => TypeOK'
<1> SUFFICES ASSUME Inv, [Next]_vars PROVE TypeOK'
  OBVIOUS
<1> USE CallAssumption, InputsAssumption DEF Inv, TypeOK, Goto, Confirmed, dialog, flags,
      answerers, history, Remotes, Steps
<1>a0. FlagsOK'
  BY FlagsOKStep
<1>1. ASSUME NEW c \in Calls, Invite(c) PROVE TypeOK'
  <2>1. CASE InviteAfterTermination(c)
    BY <1>a0, <2>1 DEF InviteAfterTermination, InviteArrives, FirstInvite, RepeatedInvite,
          Recent, Refuse, Input
  <2>2. CASE InviteForKnownCall(c)
    BY <1>a0, <2>2 DEF InviteForKnownCall, InviteArrives, FirstInvite, RepeatedInvite,
          Recent, Input
  <2>3. CASE InviteWhileBusy(c)
    BY <1>a0, <2>3 DEF InviteWhileBusy, InviteArrives, FirstInvite, RepeatedInvite, Recent,
          Refuse, Input
  <2>4. CASE InviteUnusable(c)
    BY <1>a0, <2>4 DEF InviteUnusable, InviteArrives, FirstInvite, RepeatedInvite, Refuse,
          Input
  <2>5. CASE InviteNotAcceptable(c)
    BY <1>a0, <2>5 DEF InviteNotAcceptable, InviteArrives, FirstInvite, RepeatedInvite,
          Recent, Refuse, ResetForNewInvite, ClearAnswerFlags, Input
  <2>6. CASE InviteCannotRing(c)
    BY <1>a0, <2>6 DEF InviteCannotRing, InviteArrives, FirstInvite, RepeatedInvite, Recent,
          ResetForNewInvite, ClearAnswerFlags, Input
  <2>7. CASE InviteStartsSetup(c)
    BY <1>a0, <2>7 DEF InviteStartsSetup, InviteArrives, FirstInvite, RepeatedInvite,
          Recent, ResetForNewInvite, ClearAnswerFlags, Input
  <2> QED BY <1>1, <2>1, <2>2, <2>3, <2>4, <2>5, <2>6, <2>7 DEF Invite
<1>2. ASSUME NEW c \in Calls, Duplicate(c) PROVE TypeOK'
  <2>1. CASE DuplicateRefreshes(c)
    BY <1>a0, <2>1 DEF DuplicateRefreshes, PutBack
  <2>2. CASE DuplicateAnswers(c)
    BY <1>a0, <2>2 DEF DuplicateAnswers, PutBack, Input
  <2>3. CASE DuplicateAnswered(c)
    BY <1>a0, <2>3 DEF DuplicateAnswered
  <2> QED BY <1>2, <2>1, <2>2, <2>3 DEF Duplicate
<1>3. ASSUME NEW c \in Calls,
             \/ Cancel(c) \/ CancelRefuses(c) \/ CancelClears(c) \/ Ack(c) \/ AckEndsCall(c)
             \/ Bye(c) \/ Update(c) \/ UpdateStores(c)
      PROVE  TypeOK'
  <2>1. CASE Cancel(c)
    BY <1>a0, <2>1 DEF Cancel, LateCancel, CancelBegins
  <2>2. CASE CancelRefuses(c)
    BY <1>a0, <2>2 DEF CancelRefuses, Refuse
  <2>3. CASE CancelClears(c)
    BY <1>a0, <2>3 DEF CancelClears, CancelSession
  <2>4. CASE Ack(c)
    BY <1>a0, <2>4 DEF Ack, AckArrives, Input
  <2>5. CASE AckEndsCall(c)
    BY <1>a0, <2>5 DEF AckEndsCall
  <2>6. CASE Bye(c)
    BY <1>a0, <2>6 DEF Bye, CancelSession
  <2>7. CASE Update(c)
    BY <1>a0, <2>7 DEF Update, Input
  <2>8. CASE UpdateStores(c)
    BY <1>a0, <2>8 DEF UpdateStores, PutBack
  <2> QED BY <1>3, <2>1, <2>2, <2>3, <2>4, <2>5, <2>6, <2>7, <2>8
<1>4. ASSUME NEW c \in Calls, SetUp(c) PROVE TypeOK'
  <2>1. CASE SetupAborts(c)
    BY <1>a0, <2>1 DEF SetupAborts
  <2>2. CASE SetupInstalls(c)
    BY <1>a0, <2>2 DEF SetupInstalls
  <2>3. CASE SetupRechecks(c)
    BY <1>a0, <2>3 DEF SetupRechecks
  <2>4. CASE SetupAnnounced(c)
    BY <1>a0, <2>4 DEF SetupAnnounced
  <2> QED BY <1>4, <2>1, <2>2, <2>3, <2>4 DEF SetUp
<1>5. ASSUME NEW c \in Calls, User(c) PROVE TypeOK'
  <2>1. CASE Accept(c)
    BY <1>a0, <2>1 DEF Accept
  <2>2. CASE Reject(c)
    BY <1>a0, <2>2 DEF Reject, Refuse
  <2>3. CASE Terminate(c)
    BY <1>a0, <2>3 DEF Terminate, TerminateBeforeAck, TerminateWithBye, TerminateElsewhere
  <2>4. CASE TerminateClears(c)
    BY <1>a0, <2>4 DEF TerminateClears
  <2> QED BY <1>5, <2>1, <2>2, <2>3, <2>4 DEF User
<1>6. ASSUME NEW c \in Calls, Accepting(c) PROVE TypeOK'
  <2>1. CASE AcceptFindsNoCall(c)
    BY <1>a0, <2>1 DEF AcceptFindsNoCall
  <2>2. CASE AcceptWaitsForAccess(c)
    BY <1>a0, <2>2 DEF AcceptWaitsForAccess, Input
  <2>3. CASE AcceptLooks(c)
    BY <1>a0, <2>3 DEF AcceptLooks
  <2>4. CASE AcceptRaisesFlags(c)
    BY <1>a0, <2>4 DEF AcceptRaisesFlags, AcceptStores, PutBack
  <2>5. CASE AcceptAnswers(c)
    BY <1>a0, <2>5 DEF AcceptAnswers
  <2>6. CASE AcceptCannotAnswer(c)
    BY <1>a0, <2>6 DEF AcceptCannotAnswer, ClearAnswerFlags, CancelSession, Input
  <2>7. CASE AcceptFinishes(c)
    BY <1>a0, <2>7 DEF AcceptFinishes
  <2> QED BY <1>6, <2>1, <2>2, <2>3, <2>4, <2>5, <2>6, <2>7 DEF Accepting
<1>7. ASSUME NEW c \in Calls, Resending(c) PROVE TypeOK'
  <2>1. CASE ResendEnds(c)
    BY <1>a0, <2>1 DEF ResendEnds, CancelSession
  <2>2. CASE ResendFails(c)
    BY <1>a0, <2>2 DEF ResendFails, Input
  <2> QED BY <1>7, <2>1, <2>2 DEF Resending
<1>8. ASSUME NEW c \in Calls, RejectCleansUp(c) PROVE TypeOK'
  BY <1>a0, <1>8 DEF RejectCleansUp, ClearAnswerFlags, CancelSession
<1>9. ASSUME NEW c \in Calls, CallerLearns(c) PROVE TypeOK'
  BY <1>a0, <1>9 DEF CallerLearns
<1>10. CASE Drop
  BY <1>a0, <1>10 DEF Drop, ClearAnswerFlags, Input
<1>11. CASE UNCHANGED vars
  BY <1>a0, <1>11 DEF vars
<1> QED BY <1>1, <1>2, <1>3, <1>4, <1>5, <1>6, <1>7, <1>8, <1>9, <1>10, <1>11 DEF Next, Reader

LEMMA ThreadsFitStep == Inv /\ [Next]_vars => ThreadsFit'
<1> SUFFICES ASSUME Inv, [Next]_vars PROVE ThreadsFit'
  OBVIOUS
<1> USE CallAssumption, InputsAssumption DEF Inv, TypeOK, Goto, Confirmed, dialog, flags,
      answerers, history, ThreadsFit, ReaderIsFree
<1>1. ASSUME NEW c \in Calls, Invite(c) PROVE ThreadsFit'
  <2>1. CASE InviteAfterTermination(c)
    BY <2>1 DEF InviteAfterTermination, InviteArrives, FirstInvite, RepeatedInvite, Recent,
          Refuse
  <2>2. CASE InviteForKnownCall(c)
    BY <2>2 DEF InviteForKnownCall, InviteArrives, FirstInvite, RepeatedInvite, Recent
  <2>3. CASE InviteWhileBusy(c)
    BY <2>3 DEF InviteWhileBusy, InviteArrives, FirstInvite, RepeatedInvite, Recent, Refuse
  <2>4. CASE InviteUnusable(c)
    BY <2>4 DEF InviteUnusable, InviteArrives, FirstInvite, RepeatedInvite, Refuse
  <2>5. CASE InviteNotAcceptable(c)
    BY <2>5 DEF InviteNotAcceptable, InviteArrives, FirstInvite, RepeatedInvite, Recent,
          Refuse, ResetForNewInvite, ClearAnswerFlags
  <2>6. CASE InviteCannotRing(c)
    BY <2>6 DEF InviteCannotRing, InviteArrives, FirstInvite, RepeatedInvite, Recent,
          ResetForNewInvite, ClearAnswerFlags
  <2>7. CASE InviteStartsSetup(c)
    BY <2>7 DEF InviteStartsSetup, InviteArrives, FirstInvite, RepeatedInvite, Recent,
          ResetForNewInvite, ClearAnswerFlags
  <2> QED BY <1>1, <2>1, <2>2, <2>3, <2>4, <2>5, <2>6, <2>7 DEF Invite
<1>2. ASSUME NEW c \in Calls, Duplicate(c) PROVE ThreadsFit'
  <2>1. CASE DuplicateRefreshes(c)
    BY <2>1 DEF DuplicateRefreshes, PutBack
  <2>2. CASE DuplicateAnswers(c)
    BY <2>2 DEF DuplicateAnswers, PutBack
  <2>3. CASE DuplicateAnswered(c)
    BY <2>3 DEF DuplicateAnswered
  <2> QED BY <1>2, <2>1, <2>2, <2>3 DEF Duplicate
<1>3. ASSUME NEW c \in Calls,
             \/ Cancel(c) \/ CancelRefuses(c) \/ CancelClears(c) \/ Ack(c) \/ AckEndsCall(c)
             \/ Bye(c) \/ Update(c) \/ UpdateStores(c)
      PROVE  ThreadsFit'
  <2>1. CASE Cancel(c)
    BY <2>1 DEF Cancel, LateCancel, CancelBegins
  <2>2. CASE CancelRefuses(c)
    BY <2>2 DEF CancelRefuses, Refuse
  <2>3. CASE CancelClears(c)
    BY <2>3 DEF CancelClears, CancelSession
  <2>4. CASE Ack(c)
    BY <2>4 DEF Ack, AckArrives
  <2>5. CASE AckEndsCall(c)
    BY <2>5 DEF AckEndsCall
  <2>6. CASE Bye(c)
    BY <2>6 DEF Bye, CancelSession
  <2>7. CASE Update(c)
    BY <2>7 DEF Update
  <2>8. CASE UpdateStores(c)
    BY <2>8 DEF UpdateStores, PutBack
  <2> QED BY <1>3, <2>1, <2>2, <2>3, <2>4, <2>5, <2>6, <2>7, <2>8
<1>4. ASSUME NEW c \in Calls, SetUp(c) PROVE ThreadsFit'
  <2>1. CASE SetupAborts(c)
    BY <2>1 DEF SetupAborts
  <2>2. CASE SetupInstalls(c)
    BY <2>2 DEF SetupInstalls
  <2>3. CASE SetupRechecks(c)
    BY <2>3 DEF SetupRechecks
  <2>4. CASE SetupAnnounced(c)
    BY <2>4 DEF SetupAnnounced
  <2> QED BY <1>4, <2>1, <2>2, <2>3, <2>4 DEF SetUp
<1>5. ASSUME NEW c \in Calls, User(c) PROVE ThreadsFit'
  <2>1. CASE Accept(c)
    BY <2>1 DEF Accept
  <2>2. CASE Reject(c)
    BY <2>2 DEF Reject, Refuse
  <2>3. CASE Terminate(c)
    BY <2>3 DEF Terminate, TerminateBeforeAck, TerminateWithBye, TerminateElsewhere
  <2>4. CASE TerminateClears(c)
    BY <2>4 DEF TerminateClears
  <2> QED BY <1>5, <2>1, <2>2, <2>3, <2>4 DEF User
<1>6. ASSUME NEW c \in Calls, Accepting(c) PROVE ThreadsFit'
  <2>1. CASE AcceptFindsNoCall(c)
    BY <2>1 DEF AcceptFindsNoCall
  <2>2. CASE AcceptWaitsForAccess(c)
    BY <2>2 DEF AcceptWaitsForAccess
  <2>3. CASE AcceptLooks(c)
    BY <2>3 DEF AcceptLooks
  <2>4. CASE AcceptRaisesFlags(c)
    BY <2>4 DEF AcceptRaisesFlags, AcceptStores, PutBack
  <2>5. CASE AcceptAnswers(c)
    BY <2>5 DEF AcceptAnswers
  <2>6. CASE AcceptCannotAnswer(c)
    BY <2>6 DEF AcceptCannotAnswer, ClearAnswerFlags, CancelSession
  <2>7. CASE AcceptFinishes(c)
    BY <2>7 DEF AcceptFinishes
  <2> QED BY <1>6, <2>1, <2>2, <2>3, <2>4, <2>5, <2>6, <2>7 DEF Accepting
<1>7. ASSUME NEW c \in Calls, Resending(c) PROVE ThreadsFit'
  <2>1. CASE ResendEnds(c)
    BY <2>1 DEF ResendEnds, CancelSession
  <2>2. CASE ResendFails(c)
    BY <2>2 DEF ResendFails
  <2> QED BY <1>7, <2>1, <2>2 DEF Resending
<1>8. ASSUME NEW c \in Calls, RejectCleansUp(c) PROVE ThreadsFit'
  BY <1>8 DEF RejectCleansUp, ClearAnswerFlags, CancelSession
<1>9. ASSUME NEW c \in Calls, CallerLearns(c) PROVE ThreadsFit'
  BY <1>9 DEF CallerLearns
<1>10. CASE Drop
  BY <1>10 DEF Drop, ClearAnswerFlags
<1>11. CASE UNCHANGED vars
  BY <1>11 DEF vars
<1> QED BY <1>1, <1>2, <1>3, <1>4, <1>5, <1>6, <1>7, <1>8, <1>9, <1>10, <1>11 DEF Next, Reader

LEMMA PreparingStep == Inv /\ [Next]_vars => Preparing'
<1> SUFFICES ASSUME Inv, [Next]_vars PROVE Preparing'
  OBVIOUS
<1> USE CallAssumption, InputsAssumption DEF Inv, TypeOK, Goto, Confirmed, dialog, flags,
      answerers, history, Preparing, ThreadsFit, Duplicating, ReaderIsFree
<1>1. ASSUME NEW c \in Calls, Invite(c) PROVE Preparing'
  <2>1. CASE InviteAfterTermination(c)
    BY <2>1 DEF InviteAfterTermination, InviteArrives, FirstInvite, RepeatedInvite, Recent,
          Refuse
  <2>2. CASE InviteForKnownCall(c)
    BY <2>2 DEF InviteForKnownCall, InviteArrives, FirstInvite, RepeatedInvite, Recent
  <2>3. CASE InviteWhileBusy(c)
    BY <2>3 DEF InviteWhileBusy, InviteArrives, FirstInvite, RepeatedInvite, Recent, Refuse
  <2>4. CASE InviteUnusable(c)
    BY <2>4 DEF InviteUnusable, InviteArrives, FirstInvite, RepeatedInvite, Refuse
  <2>5. CASE InviteNotAcceptable(c)
    BY <2>5 DEF InviteNotAcceptable, InviteArrives, FirstInvite, RepeatedInvite, Recent,
          Refuse, ResetForNewInvite, ClearAnswerFlags
  <2>6. CASE InviteCannotRing(c)
    BY <2>6 DEF InviteCannotRing, InviteArrives, FirstInvite, RepeatedInvite, Recent,
          ResetForNewInvite, ClearAnswerFlags
  <2>7. CASE InviteStartsSetup(c)
    BY <2>7 DEF InviteStartsSetup, InviteArrives, FirstInvite, RepeatedInvite, Recent,
          ResetForNewInvite, ClearAnswerFlags
  <2> QED BY <1>1, <2>1, <2>2, <2>3, <2>4, <2>5, <2>6, <2>7 DEF Invite
<1>2. ASSUME NEW c \in Calls, Duplicate(c) PROVE Preparing'
  <2>1. CASE DuplicateRefreshes(c)
    BY <2>1 DEF DuplicateRefreshes, PutBack
  <2>2. CASE DuplicateAnswers(c)
    BY <2>2 DEF DuplicateAnswers, PutBack
  <2>3. CASE DuplicateAnswered(c)
    BY <2>3 DEF DuplicateAnswered
  <2> QED BY <1>2, <2>1, <2>2, <2>3 DEF Duplicate
<1>3. ASSUME NEW c \in Calls,
             \/ Cancel(c) \/ CancelRefuses(c) \/ CancelClears(c) \/ Ack(c) \/ AckEndsCall(c)
             \/ Bye(c) \/ Update(c) \/ UpdateStores(c)
      PROVE  Preparing'
  <2>1. CASE Cancel(c)
    BY <2>1 DEF Cancel, LateCancel, CancelBegins
  <2>2. CASE CancelRefuses(c)
    BY <2>2 DEF CancelRefuses, Refuse
  <2>3. CASE CancelClears(c)
    BY <2>3 DEF CancelClears, CancelSession
  <2>4. CASE Ack(c)
    BY <2>4 DEF Ack, AckArrives
  <2>5. CASE AckEndsCall(c)
    BY <2>5 DEF AckEndsCall
  <2>6. CASE Bye(c)
    BY <2>6 DEF Bye, CancelSession
  <2>7. CASE Update(c)
    BY <2>7 DEF Update
  <2>8. CASE UpdateStores(c)
    BY <2>8 DEF UpdateStores, PutBack
  <2> QED BY <1>3, <2>1, <2>2, <2>3, <2>4, <2>5, <2>6, <2>7, <2>8
<1>4. ASSUME NEW c \in Calls, SetUp(c) PROVE Preparing'
  <2>1. CASE SetupAborts(c)
    BY <2>1 DEF SetupAborts
  <2>2. CASE SetupInstalls(c)
    BY <2>2 DEF SetupInstalls
  <2>3. CASE SetupRechecks(c)
    BY <2>3 DEF SetupRechecks
  <2>4. CASE SetupAnnounced(c)
    BY <2>4 DEF SetupAnnounced
  <2> QED BY <1>4, <2>1, <2>2, <2>3, <2>4 DEF SetUp
<1>5. ASSUME NEW c \in Calls, User(c) PROVE Preparing'
  <2>1. CASE Accept(c)
    BY <2>1 DEF Accept
  <2>2. CASE Reject(c)
    BY <2>2 DEF Reject, Refuse
  <2>3. CASE Terminate(c)
    BY <2>3 DEF Terminate, TerminateBeforeAck, TerminateWithBye, TerminateElsewhere
  <2>4. CASE TerminateClears(c)
    BY <2>4 DEF TerminateClears
  <2> QED BY <1>5, <2>1, <2>2, <2>3, <2>4 DEF User
<1>6. ASSUME NEW c \in Calls, Accepting(c) PROVE Preparing'
  <2>1. CASE AcceptFindsNoCall(c)
    BY <2>1 DEF AcceptFindsNoCall
  <2>2. CASE AcceptWaitsForAccess(c)
    BY <2>2 DEF AcceptWaitsForAccess
  <2>3. CASE AcceptLooks(c)
    BY <2>3 DEF AcceptLooks
  <2>4. CASE AcceptRaisesFlags(c)
    BY <2>4 DEF AcceptRaisesFlags, AcceptStores, PutBack
  <2>5. CASE AcceptAnswers(c)
    BY <2>5 DEF AcceptAnswers
  <2>6. CASE AcceptCannotAnswer(c)
    BY <2>6 DEF AcceptCannotAnswer, ClearAnswerFlags, CancelSession
  <2>7. CASE AcceptFinishes(c)
    BY <2>7 DEF AcceptFinishes
  <2> QED BY <1>6, <2>1, <2>2, <2>3, <2>4, <2>5, <2>6, <2>7 DEF Accepting
<1>7. ASSUME NEW c \in Calls, Resending(c) PROVE Preparing'
  <2>1. CASE ResendEnds(c)
    BY <2>1 DEF ResendEnds, CancelSession
  <2>2. CASE ResendFails(c)
    BY <2>2 DEF ResendFails
  <2> QED BY <1>7, <2>1, <2>2 DEF Resending
<1>8. ASSUME NEW c \in Calls, RejectCleansUp(c) PROVE Preparing'
  BY <1>8 DEF RejectCleansUp, ClearAnswerFlags, CancelSession
<1>9. ASSUME NEW c \in Calls, CallerLearns(c) PROVE Preparing'
  BY <1>9 DEF CallerLearns
<1>10. CASE Drop
  BY <1>10 DEF Drop, ClearAnswerFlags
<1>11. CASE UNCHANGED vars
  BY <1>11 DEF vars
<1> QED BY <1>1, <1>2, <1>3, <1>4, <1>5, <1>6, <1>7, <1>8, <1>9, <1>10, <1>11 DEF Next, Reader

LEMMA NoRevivalStep == Inv /\ [Next]_vars => NoRevival'
<1> SUFFICES ASSUME Inv, [Next]_vars PROVE NoRevival'
  OBVIOUS
<1> USE CallAssumption, InputsAssumption DEF Inv, TypeOK, Goto, Confirmed, dialog, flags,
      answerers, history, NoRevival
<1>1. ASSUME NEW c \in Calls, Invite(c) PROVE NoRevival'
  <2>1. CASE InviteAfterTermination(c)
    BY <2>1 DEF InviteAfterTermination, InviteArrives, FirstInvite, RepeatedInvite, Recent,
          Refuse
  <2>2. CASE InviteForKnownCall(c)
    BY <2>2 DEF InviteForKnownCall, InviteArrives, FirstInvite, RepeatedInvite, Recent
  <2>3. CASE InviteWhileBusy(c)
    BY <2>3 DEF InviteWhileBusy, InviteArrives, FirstInvite, RepeatedInvite, Recent, Refuse
  <2>4. CASE InviteUnusable(c)
    BY <2>4 DEF InviteUnusable, InviteArrives, FirstInvite, RepeatedInvite, Refuse
  <2>5. CASE InviteNotAcceptable(c)
    BY <2>5 DEF InviteNotAcceptable, InviteArrives, FirstInvite, RepeatedInvite, Recent,
          Refuse, ResetForNewInvite, ClearAnswerFlags
  <2>6. CASE InviteCannotRing(c)
    BY <2>6 DEF InviteCannotRing, InviteArrives, FirstInvite, RepeatedInvite, Recent,
          ResetForNewInvite, ClearAnswerFlags
  <2>7. CASE InviteStartsSetup(c)
    BY <2>7 DEF InviteStartsSetup, InviteArrives, FirstInvite, RepeatedInvite, Recent,
          ResetForNewInvite, ClearAnswerFlags
  <2> QED BY <1>1, <2>1, <2>2, <2>3, <2>4, <2>5, <2>6, <2>7 DEF Invite
<1>2. ASSUME NEW c \in Calls, Duplicate(c) PROVE NoRevival'
  <2>1. CASE DuplicateRefreshes(c)
    BY <2>1 DEF DuplicateRefreshes, PutBack
  <2>2. CASE DuplicateAnswers(c)
    BY <2>2 DEF DuplicateAnswers, PutBack
  <2>3. CASE DuplicateAnswered(c)
    BY <2>3 DEF DuplicateAnswered
  <2> QED BY <1>2, <2>1, <2>2, <2>3 DEF Duplicate
<1>3. ASSUME NEW c \in Calls,
             \/ Cancel(c) \/ CancelRefuses(c) \/ CancelClears(c) \/ Ack(c) \/ AckEndsCall(c)
             \/ Bye(c) \/ Update(c) \/ UpdateStores(c)
      PROVE  NoRevival'
  <2>1. CASE Cancel(c)
    BY <2>1 DEF Cancel, LateCancel, CancelBegins
  <2>2. CASE CancelRefuses(c)
    BY <2>2 DEF CancelRefuses, Refuse
  <2>3. CASE CancelClears(c)
    BY <2>3 DEF CancelClears, CancelSession
  <2>4. CASE Ack(c)
    BY <2>4 DEF Ack, AckArrives
  <2>5. CASE AckEndsCall(c)
    BY <2>5 DEF AckEndsCall
  <2>6. CASE Bye(c)
    BY <2>6 DEF Bye, CancelSession
  <2>7. CASE Update(c)
    BY <2>7 DEF Update
  <2>8. CASE UpdateStores(c)
    BY <2>8 DEF UpdateStores, PutBack
  <2> QED BY <1>3, <2>1, <2>2, <2>3, <2>4, <2>5, <2>6, <2>7, <2>8
<1>4. ASSUME NEW c \in Calls, SetUp(c) PROVE NoRevival'
  <2>1. CASE SetupAborts(c)
    BY <2>1 DEF SetupAborts
  <2>2. CASE SetupInstalls(c)
    BY <2>2 DEF SetupInstalls
  <2>3. CASE SetupRechecks(c)
    BY <2>3 DEF SetupRechecks
  <2>4. CASE SetupAnnounced(c)
    BY <2>4 DEF SetupAnnounced
  <2> QED BY <1>4, <2>1, <2>2, <2>3, <2>4 DEF SetUp
<1>5. ASSUME NEW c \in Calls, User(c) PROVE NoRevival'
  <2>1. CASE Accept(c)
    BY <2>1 DEF Accept
  <2>2. CASE Reject(c)
    BY <2>2 DEF Reject, Refuse
  <2>3. CASE Terminate(c)
    BY <2>3 DEF Terminate, TerminateBeforeAck, TerminateWithBye, TerminateElsewhere
  <2>4. CASE TerminateClears(c)
    BY <2>4 DEF TerminateClears
  <2> QED BY <1>5, <2>1, <2>2, <2>3, <2>4 DEF User
<1>6. ASSUME NEW c \in Calls, Accepting(c) PROVE NoRevival'
  <2>1. CASE AcceptFindsNoCall(c)
    BY <2>1 DEF AcceptFindsNoCall
  <2>2. CASE AcceptWaitsForAccess(c)
    BY <2>2 DEF AcceptWaitsForAccess
  <2>3. CASE AcceptLooks(c)
    BY <2>3 DEF AcceptLooks
  <2>4. CASE AcceptRaisesFlags(c)
    BY <2>4 DEF AcceptRaisesFlags, AcceptStores, PutBack
  <2>5. CASE AcceptAnswers(c)
    BY <2>5 DEF AcceptAnswers
  <2>6. CASE AcceptCannotAnswer(c)
    BY <2>6 DEF AcceptCannotAnswer, ClearAnswerFlags, CancelSession
  <2>7. CASE AcceptFinishes(c)
    BY <2>7 DEF AcceptFinishes
  <2> QED BY <1>6, <2>1, <2>2, <2>3, <2>4, <2>5, <2>6, <2>7 DEF Accepting
<1>7. ASSUME NEW c \in Calls, Resending(c) PROVE NoRevival'
  <2>1. CASE ResendEnds(c)
    BY <2>1 DEF ResendEnds, CancelSession
  <2>2. CASE ResendFails(c)
    BY <2>2 DEF ResendFails
  <2> QED BY <1>7, <2>1, <2>2 DEF Resending
<1>8. ASSUME NEW c \in Calls, RejectCleansUp(c) PROVE NoRevival'
  BY <1>8 DEF RejectCleansUp, ClearAnswerFlags, CancelSession
<1>9. ASSUME NEW c \in Calls, CallerLearns(c) PROVE NoRevival'
  BY <1>9 DEF CallerLearns
<1>10. CASE Drop
  BY <1>10 DEF Drop, ClearAnswerFlags
<1>11. CASE UNCHANGED vars
  BY <1>11 DEF vars
<1> QED BY <1>1, <1>2, <1>3, <1>4, <1>5, <1>6, <1>7, <1>8, <1>9, <1>10, <1>11 DEF Next, Reader

LEMMA RefusalsStep == Inv /\ [Next]_vars => Refusals'
<1> SUFFICES ASSUME Inv, [Next]_vars PROVE Refusals'
  OBVIOUS
<1> USE CallAssumption, InputsAssumption DEF Inv, TypeOK, Goto, Confirmed, dialog, flags,
      answerers, history, Refusals, ThreadsFit, NoRevival, ReaderIsFree
<1>1. ASSUME NEW c \in Calls, Invite(c) PROVE Refusals'
  <2>1. CASE InviteAfterTermination(c)
    BY <2>1 DEF InviteAfterTermination, InviteArrives, FirstInvite, RepeatedInvite, Recent,
          Refuse
  <2>2. CASE InviteForKnownCall(c)
    BY <2>2 DEF InviteForKnownCall, InviteArrives, FirstInvite, RepeatedInvite, Recent
  <2>3. CASE InviteWhileBusy(c)
    BY <2>3 DEF InviteWhileBusy, InviteArrives, FirstInvite, RepeatedInvite, Recent, Refuse
  <2>4. CASE InviteUnusable(c)
    BY <2>4 DEF InviteUnusable, InviteArrives, FirstInvite, RepeatedInvite, Refuse
  <2>5. CASE InviteNotAcceptable(c)
    BY <2>5 DEF InviteNotAcceptable, InviteArrives, FirstInvite, RepeatedInvite, Recent,
          Refuse, ResetForNewInvite, ClearAnswerFlags
  <2>6. CASE InviteCannotRing(c)
    BY <2>6 DEF InviteCannotRing, InviteArrives, FirstInvite, RepeatedInvite, Recent,
          ResetForNewInvite, ClearAnswerFlags
  <2>7. CASE InviteStartsSetup(c)
    BY <2>7 DEF InviteStartsSetup, InviteArrives, FirstInvite, RepeatedInvite, Recent,
          ResetForNewInvite, ClearAnswerFlags
  <2> QED BY <1>1, <2>1, <2>2, <2>3, <2>4, <2>5, <2>6, <2>7 DEF Invite
<1>2. ASSUME NEW c \in Calls, Duplicate(c) PROVE Refusals'
  <2>1. CASE DuplicateRefreshes(c)
    BY <2>1 DEF DuplicateRefreshes, PutBack
  <2>2. CASE DuplicateAnswers(c)
    BY <2>2 DEF DuplicateAnswers, PutBack
  <2>3. CASE DuplicateAnswered(c)
    BY <2>3 DEF DuplicateAnswered
  <2> QED BY <1>2, <2>1, <2>2, <2>3 DEF Duplicate
<1>3. ASSUME NEW c \in Calls,
             \/ Cancel(c) \/ CancelRefuses(c) \/ CancelClears(c) \/ Ack(c) \/ AckEndsCall(c)
             \/ Bye(c) \/ Update(c) \/ UpdateStores(c)
      PROVE  Refusals'
  <2>1. CASE Cancel(c)
    BY <2>1 DEF Cancel, LateCancel, CancelBegins
  <2>2. CASE CancelRefuses(c)
    BY <2>2 DEF CancelRefuses, Refuse
  <2>3. CASE CancelClears(c)
    BY <2>3 DEF CancelClears, CancelSession
  <2>4. CASE Ack(c)
    BY <2>4 DEF Ack, AckArrives
  <2>5. CASE AckEndsCall(c)
    BY <2>5 DEF AckEndsCall
  <2>6. CASE Bye(c)
    BY <2>6 DEF Bye, CancelSession
  <2>7. CASE Update(c)
    BY <2>7 DEF Update
  <2>8. CASE UpdateStores(c)
    BY <2>8 DEF UpdateStores, PutBack
  <2> QED BY <1>3, <2>1, <2>2, <2>3, <2>4, <2>5, <2>6, <2>7, <2>8
<1>4. ASSUME NEW c \in Calls, SetUp(c) PROVE Refusals'
  <2>1. CASE SetupAborts(c)
    BY <2>1 DEF SetupAborts
  <2>2. CASE SetupInstalls(c)
    BY <2>2 DEF SetupInstalls
  <2>3. CASE SetupRechecks(c)
    BY <2>3 DEF SetupRechecks
  <2>4. CASE SetupAnnounced(c)
    BY <2>4 DEF SetupAnnounced
  <2> QED BY <1>4, <2>1, <2>2, <2>3, <2>4 DEF SetUp
<1>5. ASSUME NEW c \in Calls, User(c) PROVE Refusals'
  <2>1. CASE Accept(c)
    BY <2>1 DEF Accept
  <2>2. CASE Reject(c)
    BY <2>2 DEF Reject, Refuse
  <2>3. CASE Terminate(c)
    BY <2>3 DEF Terminate, TerminateBeforeAck, TerminateWithBye, TerminateElsewhere
  <2>4. CASE TerminateClears(c)
    BY <2>4 DEF TerminateClears
  <2> QED BY <1>5, <2>1, <2>2, <2>3, <2>4 DEF User
<1>6. ASSUME NEW c \in Calls, Accepting(c) PROVE Refusals'
  <2>1. CASE AcceptFindsNoCall(c)
    BY <2>1 DEF AcceptFindsNoCall
  <2>2. CASE AcceptWaitsForAccess(c)
    BY <2>2 DEF AcceptWaitsForAccess
  <2>3. CASE AcceptLooks(c)
    BY <2>3 DEF AcceptLooks
  <2>4. CASE AcceptRaisesFlags(c)
    BY <2>4 DEF AcceptRaisesFlags, AcceptStores, PutBack
  <2>5. CASE AcceptAnswers(c)
    BY <2>5 DEF AcceptAnswers
  <2>6. CASE AcceptCannotAnswer(c)
    BY <2>6 DEF AcceptCannotAnswer, ClearAnswerFlags, CancelSession
  <2>7. CASE AcceptFinishes(c)
    BY <2>7 DEF AcceptFinishes
  <2> QED BY <1>6, <2>1, <2>2, <2>3, <2>4, <2>5, <2>6, <2>7 DEF Accepting
<1>7. ASSUME NEW c \in Calls, Resending(c) PROVE Refusals'
  <2>1. CASE ResendEnds(c)
    BY <2>1 DEF ResendEnds, CancelSession
  <2>2. CASE ResendFails(c)
    BY <2>2 DEF ResendFails
  <2> QED BY <1>7, <2>1, <2>2 DEF Resending
<1>8. ASSUME NEW c \in Calls, RejectCleansUp(c) PROVE Refusals'
  BY <1>8 DEF RejectCleansUp, ClearAnswerFlags, CancelSession
<1>9. ASSUME NEW c \in Calls, CallerLearns(c) PROVE Refusals'
  BY <1>9 DEF CallerLearns
<1>10. CASE Drop
  BY <1>10 DEF Drop, ClearAnswerFlags
<1>11. CASE UNCHANGED vars
  BY <1>11 DEF vars
<1> QED BY <1>1, <1>2, <1>3, <1>4, <1>5, <1>6, <1>7, <1>8, <1>9, <1>10, <1>11 DEF Next, Reader

LEMMA FlagHoldsStep == Inv /\ [Next]_vars => FlagHolds'
<1> SUFFICES ASSUME Inv, [Next]_vars PROVE FlagHolds'
  OBVIOUS
<1> USE CallAssumption, InputsAssumption DEF Inv, TypeOK, Goto, Confirmed, dialog, flags,
      answerers, history, FlagHolds, ThreadsFit, Flagged, Cancelling, ReaderIsFree
<1>1. ASSUME NEW c \in Calls, Invite(c) PROVE FlagHolds'
  <2>1. CASE InviteAfterTermination(c)
    BY <2>1 DEF InviteAfterTermination, InviteArrives, FirstInvite, RepeatedInvite, Recent,
          Refuse
  <2>2. CASE InviteForKnownCall(c)
    BY <2>2 DEF InviteForKnownCall, InviteArrives, FirstInvite, RepeatedInvite, Recent
  <2>3. CASE InviteWhileBusy(c)
    BY <2>3 DEF InviteWhileBusy, InviteArrives, FirstInvite, RepeatedInvite, Recent, Refuse
  <2>4. CASE InviteUnusable(c)
    BY <2>4 DEF InviteUnusable, InviteArrives, FirstInvite, RepeatedInvite, Refuse
  <2>5. CASE InviteNotAcceptable(c)
    BY <2>5 DEF InviteNotAcceptable, InviteArrives, FirstInvite, RepeatedInvite, Recent,
          Refuse, ResetForNewInvite, ClearAnswerFlags
  <2>6. CASE InviteCannotRing(c)
    BY <2>6 DEF InviteCannotRing, InviteArrives, FirstInvite, RepeatedInvite, Recent,
          ResetForNewInvite, ClearAnswerFlags
  <2>7. CASE InviteStartsSetup(c)
    BY <2>7 DEF InviteStartsSetup, InviteArrives, FirstInvite, RepeatedInvite, Recent,
          ResetForNewInvite, ClearAnswerFlags
  <2> QED BY <1>1, <2>1, <2>2, <2>3, <2>4, <2>5, <2>6, <2>7 DEF Invite
<1>2. ASSUME NEW c \in Calls, Duplicate(c) PROVE FlagHolds'
  <2>1. CASE DuplicateRefreshes(c)
    BY <2>1 DEF DuplicateRefreshes, PutBack
  <2>2. CASE DuplicateAnswers(c)
    BY <2>2 DEF DuplicateAnswers, PutBack
  <2>3. CASE DuplicateAnswered(c)
    BY <2>3 DEF DuplicateAnswered
  <2> QED BY <1>2, <2>1, <2>2, <2>3 DEF Duplicate
<1>3. ASSUME NEW c \in Calls,
             \/ Cancel(c) \/ CancelRefuses(c) \/ CancelClears(c) \/ Ack(c) \/ AckEndsCall(c)
             \/ Bye(c) \/ Update(c) \/ UpdateStores(c)
      PROVE  FlagHolds'
  <2>1. CASE Cancel(c)
    BY <2>1 DEF Cancel, LateCancel, CancelBegins
  <2>2. CASE CancelRefuses(c)
    BY <2>2 DEF CancelRefuses, Refuse
  <2>3. CASE CancelClears(c)
    BY <2>3 DEF CancelClears, CancelSession
  <2>4. CASE Ack(c)
    BY <2>4 DEF Ack, AckArrives
  <2>5. CASE AckEndsCall(c)
    BY <2>5 DEF AckEndsCall
  <2>6. CASE Bye(c)
    BY <2>6 DEF Bye, CancelSession
  <2>7. CASE Update(c)
    BY <2>7 DEF Update
  <2>8. CASE UpdateStores(c)
    BY <2>8 DEF UpdateStores, PutBack
  <2> QED BY <1>3, <2>1, <2>2, <2>3, <2>4, <2>5, <2>6, <2>7, <2>8
<1>4. ASSUME NEW c \in Calls, SetUp(c) PROVE FlagHolds'
  <2>1. CASE SetupAborts(c)
    BY <2>1 DEF SetupAborts
  <2>2. CASE SetupInstalls(c)
    BY <2>2 DEF SetupInstalls
  <2>3. CASE SetupRechecks(c)
    BY <2>3 DEF SetupRechecks
  <2>4. CASE SetupAnnounced(c)
    BY <2>4 DEF SetupAnnounced
  <2> QED BY <1>4, <2>1, <2>2, <2>3, <2>4 DEF SetUp
<1>5. ASSUME NEW c \in Calls, User(c) PROVE FlagHolds'
  <2>1. CASE Accept(c)
    BY <2>1 DEF Accept
  <2>2. CASE Reject(c)
    BY <2>2 DEF Reject, Refuse
  <2>3. CASE Terminate(c)
    BY <2>3 DEF Terminate, TerminateBeforeAck, TerminateWithBye, TerminateElsewhere
  <2>4. CASE TerminateClears(c)
    BY <2>4 DEF TerminateClears
  <2> QED BY <1>5, <2>1, <2>2, <2>3, <2>4 DEF User
<1>6. ASSUME NEW c \in Calls, Accepting(c) PROVE FlagHolds'
  <2>1. CASE AcceptFindsNoCall(c)
    BY <2>1 DEF AcceptFindsNoCall
  <2>2. CASE AcceptWaitsForAccess(c)
    BY <2>2 DEF AcceptWaitsForAccess
  <2>3. CASE AcceptLooks(c)
    BY <2>3 DEF AcceptLooks
  <2>4. CASE AcceptRaisesFlags(c)
    BY <2>4 DEF AcceptRaisesFlags, AcceptStores, PutBack
  <2>5. CASE AcceptAnswers(c)
    BY <2>5 DEF AcceptAnswers
  <2>6. CASE AcceptCannotAnswer(c)
    BY <2>6 DEF AcceptCannotAnswer, ClearAnswerFlags, CancelSession
  <2>7. CASE AcceptFinishes(c)
    BY <2>7 DEF AcceptFinishes
  <2> QED BY <1>6, <2>1, <2>2, <2>3, <2>4, <2>5, <2>6, <2>7 DEF Accepting
<1>7. ASSUME NEW c \in Calls, Resending(c) PROVE FlagHolds'
  <2>1. CASE ResendEnds(c)
    BY <2>1 DEF ResendEnds, CancelSession
  <2>2. CASE ResendFails(c)
    BY <2>2 DEF ResendFails
  <2> QED BY <1>7, <2>1, <2>2 DEF Resending
<1>8. ASSUME NEW c \in Calls, RejectCleansUp(c) PROVE FlagHolds'
  BY <1>8 DEF RejectCleansUp, ClearAnswerFlags, CancelSession
<1>9. ASSUME NEW c \in Calls, CallerLearns(c) PROVE FlagHolds'
  BY <1>9 DEF CallerLearns
<1>10. CASE Drop
  BY <1>10 DEF Drop, ClearAnswerFlags
<1>11. CASE UNCHANGED vars
  BY <1>11 DEF vars
<1> QED BY <1>1, <1>2, <1>3, <1>4, <1>5, <1>6, <1>7, <1>8, <1>9, <1>10, <1>11 DEF Next, Reader

LEMMA StartedHoldsStep == Inv /\ [Next]_vars => StartedHolds'
<1> SUFFICES ASSUME Inv, [Next]_vars PROVE StartedHolds'
  OBVIOUS
<1> USE CallAssumption, InputsAssumption DEF Inv, TypeOK, Goto, Confirmed, dialog, flags,
      answerers, history, StartedHolds, Preparing, Cancelling, ReaderIsFree
<1>1. ASSUME NEW c \in Calls, Invite(c) PROVE StartedHolds'
  <2>1. CASE InviteAfterTermination(c)
    BY <2>1 DEF InviteAfterTermination, InviteArrives, FirstInvite, RepeatedInvite, Recent,
          Refuse
  <2>2. CASE InviteForKnownCall(c)
    BY <2>2 DEF InviteForKnownCall, InviteArrives, FirstInvite, RepeatedInvite, Recent
  <2>3. CASE InviteWhileBusy(c)
    BY <2>3 DEF InviteWhileBusy, InviteArrives, FirstInvite, RepeatedInvite, Recent, Refuse
  <2>4. CASE InviteUnusable(c)
    BY <2>4 DEF InviteUnusable, InviteArrives, FirstInvite, RepeatedInvite, Refuse
  <2>5. CASE InviteNotAcceptable(c)
    BY <2>5 DEF InviteNotAcceptable, InviteArrives, FirstInvite, RepeatedInvite, Recent,
          Refuse, ResetForNewInvite, ClearAnswerFlags
  <2>6. CASE InviteCannotRing(c)
    BY <2>6 DEF InviteCannotRing, InviteArrives, FirstInvite, RepeatedInvite, Recent,
          ResetForNewInvite, ClearAnswerFlags
  <2>7. CASE InviteStartsSetup(c)
    BY <2>7 DEF InviteStartsSetup, InviteArrives, FirstInvite, RepeatedInvite, Recent,
          ResetForNewInvite, ClearAnswerFlags
  <2> QED BY <1>1, <2>1, <2>2, <2>3, <2>4, <2>5, <2>6, <2>7 DEF Invite
<1>2. ASSUME NEW c \in Calls, Duplicate(c) PROVE StartedHolds'
  <2>1. CASE DuplicateRefreshes(c)
    BY <2>1 DEF DuplicateRefreshes, PutBack
  <2>2. CASE DuplicateAnswers(c)
    BY <2>2 DEF DuplicateAnswers, PutBack
  <2>3. CASE DuplicateAnswered(c)
    BY <2>3 DEF DuplicateAnswered
  <2> QED BY <1>2, <2>1, <2>2, <2>3 DEF Duplicate
<1>3. ASSUME NEW c \in Calls,
             \/ Cancel(c) \/ CancelRefuses(c) \/ CancelClears(c) \/ Ack(c) \/ AckEndsCall(c)
             \/ Bye(c) \/ Update(c) \/ UpdateStores(c)
      PROVE  StartedHolds'
  <2>1. CASE Cancel(c)
    BY <2>1 DEF Cancel, LateCancel, CancelBegins
  <2>2. CASE CancelRefuses(c)
    BY <2>2 DEF CancelRefuses, Refuse
  <2>3. CASE CancelClears(c)
    BY <2>3 DEF CancelClears, CancelSession
  <2>4. CASE Ack(c)
    BY <2>4 DEF Ack, AckArrives
  <2>5. CASE AckEndsCall(c)
    BY <2>5 DEF AckEndsCall
  <2>6. CASE Bye(c)
    BY <2>6 DEF Bye, CancelSession
  <2>7. CASE Update(c)
    BY <2>7 DEF Update
  <2>8. CASE UpdateStores(c)
    BY <2>8 DEF UpdateStores, PutBack
  <2> QED BY <1>3, <2>1, <2>2, <2>3, <2>4, <2>5, <2>6, <2>7, <2>8
<1>4. ASSUME NEW c \in Calls, SetUp(c) PROVE StartedHolds'
  <2>1. CASE SetupAborts(c)
    BY <2>1 DEF SetupAborts
  <2>2. CASE SetupInstalls(c)
    BY <2>2 DEF SetupInstalls
  <2>3. CASE SetupRechecks(c)
    BY <2>3 DEF SetupRechecks
  <2>4. CASE SetupAnnounced(c)
    BY <2>4 DEF SetupAnnounced
  <2> QED BY <1>4, <2>1, <2>2, <2>3, <2>4 DEF SetUp
<1>5. ASSUME NEW c \in Calls, User(c) PROVE StartedHolds'
  <2>1. CASE Accept(c)
    BY <2>1 DEF Accept
  <2>2. CASE Reject(c)
    BY <2>2 DEF Reject, Refuse
  <2>3. CASE Terminate(c)
    BY <2>3 DEF Terminate, TerminateBeforeAck, TerminateWithBye, TerminateElsewhere
  <2>4. CASE TerminateClears(c)
    BY <2>4 DEF TerminateClears
  <2> QED BY <1>5, <2>1, <2>2, <2>3, <2>4 DEF User
<1>6. ASSUME NEW c \in Calls, Accepting(c) PROVE StartedHolds'
  <2>1. CASE AcceptFindsNoCall(c)
    BY <2>1 DEF AcceptFindsNoCall
  <2>2. CASE AcceptWaitsForAccess(c)
    BY <2>2 DEF AcceptWaitsForAccess
  <2>3. CASE AcceptLooks(c)
    BY <2>3 DEF AcceptLooks
  <2>4. CASE AcceptRaisesFlags(c)
    BY <2>4 DEF AcceptRaisesFlags, AcceptStores, PutBack
  <2>5. CASE AcceptAnswers(c)
    BY <2>5 DEF AcceptAnswers
  <2>6. CASE AcceptCannotAnswer(c)
    BY <2>6 DEF AcceptCannotAnswer, ClearAnswerFlags, CancelSession
  <2>7. CASE AcceptFinishes(c)
    BY <2>7 DEF AcceptFinishes
  <2> QED BY <1>6, <2>1, <2>2, <2>3, <2>4, <2>5, <2>6, <2>7 DEF Accepting
<1>7. ASSUME NEW c \in Calls, Resending(c) PROVE StartedHolds'
  <2>1. CASE ResendEnds(c)
    BY <2>1 DEF ResendEnds, CancelSession
  <2>2. CASE ResendFails(c)
    BY <2>2 DEF ResendFails
  <2> QED BY <1>7, <2>1, <2>2 DEF Resending
<1>8. ASSUME NEW c \in Calls, RejectCleansUp(c) PROVE StartedHolds'
  BY <1>8 DEF RejectCleansUp, ClearAnswerFlags, CancelSession
<1>9. ASSUME NEW c \in Calls, CallerLearns(c) PROVE StartedHolds'
  BY <1>9 DEF CallerLearns
<1>10. CASE Drop
  BY <1>10 DEF Drop, ClearAnswerFlags
<1>11. CASE UNCHANGED vars
  BY <1>11 DEF vars
<1> QED BY <1>1, <1>2, <1>3, <1>4, <1>5, <1>6, <1>7, <1>8, <1>9, <1>10, <1>11 DEF Next, Reader

LEMMA NextInvariant == Inv /\ [Next]_vars => Inv'
BY TypeOKStep, ThreadsFitStep, PreparingStep, NoRevivalStep, RefusalsStep, FlagHoldsStep,
   StartedHoldsStep DEF Inv

\* Every reachable state is well typed.
THEOREM TypeCorrect == Spec => []TypeOK
<1>1. Inv => TypeOK
  BY DEF Inv
<1> QED BY <1>1, InitInvariant, NextInvariant, PTL DEF Spec

\* A terminated call is current only for a thread that will clear it or put it back
\* (SipHandler 7601-7616).
THEOREM TerminatedStaysTerminated == Spec => []NoRevival
<1>1. Inv => NoRevival
  BY DEF Inv
<1> QED BY <1>1, InitInvariant, NextInvariant, PTL DEF Spec

\* A CANCEL after the 200 OK spares the answered call (handleCancel 3350-3362).
THEOREM LateCancelAlwaysSpares == Spec => LateCancelSparesAnswered
<1> DEFINE Spared(c) ==
      /\ reader[c] = "clear" /\ reader'[c] = "idle" /\ current = c
      /\ accept[c] = "written" \/ resend[c] # "none"
      => c \in crossed \cup putBack
<1>1. Inv => \A c \in Calls : Spared(c)
  BY DEF Inv, FlagHolds, Flagged, Cancelling
<1> QED BY <1>1, InitInvariant, NextInvariant, PTL DEF Spec, LateCancelSparesAnswered

LEMMA OnlyResendEnds ==
  ASSUME TypeOK, Next, NEW c \in Calls,
         resend[c] = "sleep", resend'[c] = "done"
  PROVE  ResendEnds(c) \/ ResendFails(c)
<1> USE CallAssumption DEF TypeOK, Goto, dialog, flags, answerers, history
<1>1. ASSUME NEW d \in Calls, Invite(d) PROVE ResendEnds(c) \/ ResendFails(c)
  BY <1>1 DEF Invite, InviteAfterTermination, InviteForKnownCall, InviteWhileBusy,
        InviteUnusable, InviteNotAcceptable, InviteCannotRing, InviteStartsSetup,
        InviteArrives
<1>2. ASSUME NEW d \in Calls, Duplicate(d) PROVE ResendEnds(c) \/ ResendFails(c)
  BY <1>2 DEF Duplicate, DuplicateRefreshes, DuplicateAnswers, DuplicateAnswered
<1>3. ASSUME NEW d \in Calls,
             \/ Cancel(d) \/ CancelRefuses(d) \/ CancelClears(d) \/ Ack(d) \/ AckEndsCall(d)
             \/ Bye(d) \/ Update(d) \/ UpdateStores(d)
      PROVE  ResendEnds(c) \/ ResendFails(c)
  BY <1>3 DEF Cancel, CancelRefuses, CancelClears, Ack, AckEndsCall, Bye, Update,
        UpdateStores, LateCancel, CancelBegins, AckArrives
<1>4. ASSUME NEW d \in Calls, SetUp(d) PROVE ResendEnds(c) \/ ResendFails(c)
  BY <1>4 DEF SetUp, SetupAborts, SetupInstalls, SetupRechecks, SetupAnnounced
<1>5. ASSUME NEW d \in Calls, User(d) PROVE ResendEnds(c) \/ ResendFails(c)
  BY <1>5 DEF User, Accept, Reject, Terminate, TerminateClears
<1>6. ASSUME NEW d \in Calls, Accepting(d) PROVE ResendEnds(c) \/ ResendFails(c)
  BY <1>6 DEF Accepting, AcceptFindsNoCall, AcceptWaitsForAccess, AcceptLooks,
        AcceptRaisesFlags, AcceptAnswers, AcceptCannotAnswer, AcceptFinishes
<1>7. ASSUME NEW d \in Calls, Resending(d) PROVE ResendEnds(c) \/ ResendFails(c)
  BY <1>7 DEF Resending, ResendEnds, ResendFails
<1>8. ASSUME NEW d \in Calls, RejectCleansUp(d) \/ CallerLearns(d) PROVE ResendEnds(c) \/ ResendFails(c)
  BY <1>8 DEF RejectCleansUp, CallerLearns
<1>9. CASE Drop
  BY <1>9 DEF Drop
<1> QED BY <1>1, <1>2, <1>3, <1>4, <1>5, <1>6, <1>7, <1>8, <1>9 DEF Next, Reader

\* The retransmission thread never ends a confirmed call (4038-4060).
THEOREM AckTimerAlwaysSpares == Spec => AckTimerSparesConfirmed
<1> DEFINE Spared(c) ==
      /\ resend[c] = "sleep" /\ resend'[c] = "done" /\ Confirmed(c) /\ current = c
      /\ \A d \in Calls : ~Cancelling(d)
      => current' = c
<1>1. ASSUME Inv, [Next]_vars, NEW c \in Calls \ putBack PROVE Spared(c)
  <2>1. CASE UNCHANGED vars
    BY <2>1 DEF vars, answerers
  <2>2. CASE Next
    <3> SUFFICES ASSUME resend[c] = "sleep", resend'[c] = "done", Confirmed(c), current = c,
                        \A d \in Calls : ~Cancelling(d)
                 PROVE  current' = c
      OBVIOUS
    <3>1. ResendEnds(c) \/ ResendFails(c)
      BY <2>2, <1>1, OnlyResendEnds DEF Inv
    <3>2. callStarted
      BY <1>1 DEF Inv, StartedHolds
    <3> QED BY <3>1, <3>2 DEF ResendEnds, ResendFails
  <2> QED BY <1>1, <2>1, <2>2
<1>2. Inv /\ [Next]_vars => \A c \in Calls \ putBack : Spared(c)
  BY <1>1
<1> QED BY <1>2, InitInvariant, NextInvariant, PTL DEF Spec, AckTimerSparesConfirmed

LEMMA OnlyAcceptLooks ==
  ASSUME TypeOK, Next, NEW c \in Calls,
         accept[c] # "looked", accept'[c] = "looked"
  PROVE  AcceptLooks(c)
<1> USE CallAssumption DEF TypeOK, Goto, dialog, flags, answerers, history
<1>1. ASSUME NEW d \in Calls, Invite(d) PROVE AcceptLooks(c)
  BY <1>1 DEF Invite, InviteAfterTermination, InviteForKnownCall, InviteWhileBusy,
        InviteUnusable, InviteNotAcceptable, InviteCannotRing, InviteStartsSetup,
        InviteArrives
<1>2. ASSUME NEW d \in Calls, Duplicate(d) PROVE AcceptLooks(c)
  BY <1>2 DEF Duplicate, DuplicateRefreshes, DuplicateAnswers, DuplicateAnswered
<1>3. ASSUME NEW d \in Calls,
             \/ Cancel(d) \/ CancelRefuses(d) \/ CancelClears(d) \/ Ack(d) \/ AckEndsCall(d)
             \/ Bye(d) \/ Update(d) \/ UpdateStores(d)
      PROVE  AcceptLooks(c)
  BY <1>3 DEF Cancel, CancelRefuses, CancelClears, Ack, AckEndsCall, Bye, Update,
        UpdateStores, LateCancel, CancelBegins, AckArrives
<1>4. ASSUME NEW d \in Calls, SetUp(d) PROVE AcceptLooks(c)
  BY <1>4 DEF SetUp, SetupAborts, SetupInstalls, SetupRechecks, SetupAnnounced
<1>5. ASSUME NEW d \in Calls, User(d) PROVE AcceptLooks(c)
  BY <1>5 DEF User, Accept, Reject, Terminate, TerminateClears
<1>6. ASSUME NEW d \in Calls, Accepting(d) PROVE AcceptLooks(c)
  BY <1>6 DEF Accepting, AcceptFindsNoCall, AcceptWaitsForAccess, AcceptLooks,
        AcceptRaisesFlags, AcceptAnswers, AcceptCannotAnswer, AcceptFinishes
<1>7. ASSUME NEW d \in Calls, Resending(d) PROVE AcceptLooks(c)
  BY <1>7 DEF Resending, ResendEnds, ResendFails
<1>8. ASSUME NEW d \in Calls, RejectCleansUp(d) \/ CallerLearns(d) PROVE AcceptLooks(c)
  BY <1>8 DEF RejectCleansUp, CallerLearns
<1>9. CASE Drop
  BY <1>9 DEF Drop
<1> QED BY <1>1, <1>2, <1>3, <1>4, <1>5, <1>6, <1>7, <1>8, <1>9 DEF Next, Reader

\* An accept thread does not go on to answer a call that was refused (4119-4130).
THEOREM RefusedNeverAnswered == Spec => NoAnswerAfterRefusal
<1> DEFINE Kept(c) ==
      accept[c] # "looked" /\ accept'[c] = "looked" /\ remote[c] # "over"
        => answer[c] # "error" \/ reader[c] = "clear" \/ c \in putBack
<1>1. ASSUME Inv, [Next]_vars, NEW c \in Calls PROVE Kept(c)
  <2>1. CASE UNCHANGED vars
    BY <2>1 DEF vars, answerers
  <2>2. CASE Next
    <3> SUFFICES ASSUME accept[c] # "looked", accept'[c] = "looked", remote[c] # "over",
                        answer[c] = "error"
                 PROVE  reader[c] = "clear" \/ c \in putBack
      OBVIOUS
    <3>1. AcceptLooks(c)
      BY <2>2, <1>1, OnlyAcceptLooks DEF Inv
    <3>2. reject[c] = "none" /\ setup[c] # "recheck"
      BY <1>1, <3>1 DEF Inv, ThreadsFit, AcceptLooks
    <3> QED BY <1>1, <3>1, <3>2 DEF Inv, Refusals, AcceptLooks
  <2> QED BY <1>1, <2>1, <2>2
<1>2. Inv /\ [Next]_vars => \A c \in Calls : Kept(c)
  BY <1>1
<1> QED BY <1>2, InitInvariant, NextInvariant, PTL DEF Spec, NoAnswerAfterRefusal
=============================================================================
