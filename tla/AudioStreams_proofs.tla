-------------------------- MODULE AudioStreams_proofs --------------------------
(***************************************************************************)
(* Theorems about AudioStreams, for any streams and any number and size of  *)
(* commands. None of the properties is inductive: the I/O thread and the    *)
(* client are only held apart by where a command is, in its queue, with the *)
(* thread or answered (Pending, Running, Answered), and by how far the      *)
(* stream has been opened and closed (Lifecycle). The same invariant makes  *)
(* every step one of CommandExchange, or a stutter.                         *)
(***************************************************************************)
EXTENDS AudioStreams, FiniteSetTheorems, TLAPS

OpenStreams == {s \in Streams : halStream[s] = "open"}

DeviceCounts ==
  /\ mOpenedStreamsCount = Cardinality(OpenStreams)
  /\ mIsClosed => OpenStreams = {}
  /\ halDevice = "closed" => mIsClosed

Lifecycle(s) ==
  /\ object[s] = "absent" =>
       /\ client[s] = "none" /\ close[s] = "no" /\ io[s] = "none" /\ ~mCallback[s]
       /\ callback[s] = "idle" /\ efWord[s] = {}
  /\ halStream[s] = "open" <=> object[s] # "absent" /\ close[s] # "done"
  /\ mStop[s] <=> close[s] # "no"
  /\ client[s] \in {"idle", "submitted", "waiting"} => object[s] = "live"
  /\ client[s] \in {"submitted", "waiting"} => close[s] = "no"
  /\ close[s] = "no" => io[s] # "exited"
  /\ object[s] = "gone" => close[s] = "done" /\ io[s] \in {"none", "exited"}
  /\ close[s] = "done" => callback[s] = "idle"

Resting(s) == io[s] \in {"check", "wait", "read"}

\* The command of a client is in the queue.
Pending(s) ==
  /\ Resting(s) /\ statusMQ[s] = {} /\ ClientFlag(s) \notin efWord[s]
  /\ \A c \in commandMQ[s] : s \notin outputs \/ ~c.transfer => dataMQ[s] = 0
  /\ commandMQ[s] # {} /\ \A c, d \in commandMQ[s] : c = d

\* It is with the legacy HAL.
Running(s) ==
  /\ io[s] = "hal" /\ commandMQ[s] = {} /\ statusMQ[s] = {} /\ ClientFlag(s) \notin efWord[s]
  /\ s \notin outputs \/ ~command[s].transfer => dataMQ[s] = 0

\* It has come to mStatus, which announces all that is left in the data queue.
Answered(s) ==
  /\ commandMQ[s] = {}
  /\ dataMQ[s] = IF s \notin outputs /\ mStatus[s].ok /\ mStatus[s].replyTo.transfer
                   THEN mStatus[s].count ELSE 0
  /\ \/ io[s] = "reply" /\ statusMQ[s] = {} /\ ClientFlag(s) \notin efWord[s]
     \/ io[s] = "wake" /\ statusMQ[s] = {mStatus[s]} /\ ClientFlag(s) \notin efWord[s]
     \/ Resting(s) /\ statusMQ[s] = {mStatus[s]}

Drained(s) ==
  /\ commandMQ[s] = {} /\ statusMQ[s] = {} /\ dataMQ[s] = 0
  /\ io[s] \notin {"hal", "reply", "wake"} /\ ClientFlag(s) \notin efWord[s]

Exchange(s) ==
  /\ client[s] \in {"none", "idle", "released"} => Drained(s)
  /\ client[s] \in {"submitted", "waiting"} => Pending(s) \/ Running(s) \/ Answered(s)
  /\ commandMQ[s] # {} => statusMQ[s] = {} /\ io[s] \notin {"hal", "reply", "wake"}
  /\ io[s] \in {"hal", "reply"} => statusMQ[s] = {}

Inv == TypeOK /\ DeviceCounts /\ \A s \in Streams : Lifecycle(s) /\ Exchange(s)


LEMMA InitInvariant == Init => Inv
<1> SUFFICES ASSUME Init PROVE Inv
  OBVIOUS
<1>1. TypeOK
  <2>1. NoCommand \in Command
    BY BoundsAssumption DEF NoCommand, Command
  <2>2. NoStatus \in Status
    BY <2>1 DEF NoStatus, Status
  <2>3. 0 \in 0 .. MaxCommands /\ 0 \in 0 .. MAX_BUFFER_SIZE
    BY BoundsAssumption DEF MAX_BUFFER_SIZE
  <2> QED BY <2>1, <2>2, <2>3 DEF Init, TypeOK
<1>2. OpenStreams = {}
  BY DEF Init, OpenStreams
<1>3. DeviceCounts
  BY <1>2, FS_EmptySet DEF Init, DeviceCounts
<1>4. \A s \in Streams : Lifecycle(s) /\ Exchange(s)
  BY DEF Init, Lifecycle, Exchange, Drained
<1> QED BY <1>1, <1>3, <1>4 DEF Inv

LEMMA OpenStreamsFinite == IsFiniteSet(OpenStreams) /\ Cardinality(OpenStreams) \in Nat
<1>1. IsFiniteSet(OpenStreams)
  BY StreamsAssumption, FS_Subset DEF OpenStreams
<1> QED BY <1>1, FS_CardinalityType

\* Only opening and closing a legacy stream, and closing the device, touch what is counted.
LEMMA CountsStep == Inv /\ [Next]_vars => DeviceCounts'
<1> SUFFICES ASSUME Inv, [Next]_vars PROVE DeviceCounts'
  OBVIOUS
<1> USE DEF Inv
<1>1. ASSUME NEW s \in Streams, NEW b \in BOOLEAN, OpenStream(s, b) PROVE DeviceCounts'
  <2>1. s \notin OpenStreams
    BY <1>1 DEF OpenStream, OpenStreams, Lifecycle
  <2>2. OpenStreams' = OpenStreams \cup {s}
    BY <1>1 DEF OpenStream, OpenStreams, TypeOK
  <2>3. Cardinality(OpenStreams') = Cardinality(OpenStreams) + 1
    BY <2>1, <2>2, OpenStreamsFinite, FS_AddElement
  <2> QED BY <1>1, <2>3 DEF OpenStream, deviceVars, DeviceCounts
<1>2. ASSUME NEW s \in Streams, NEW n \in 0 .. MaxSize, NEW k \in 0 .. MaxSize, Prepare(s, n, k)
     PROVE DeviceCounts'
  BY <1>2 DEF Prepare, deviceVars, streamVars, DeviceCounts, OpenStreams
<1>3. ASSUME NEW s \in Streams, Submit(s) PROVE DeviceCounts'
  BY <1>3 DEF Submit, deviceVars, streamVars, DeviceCounts, OpenStreams
<1>4. ASSUME NEW s \in Streams, Signal(s) PROVE DeviceCounts'
  BY <1>4 DEF Signal, deviceVars, streamVars, DeviceCounts, OpenStreams
<1>5. ASSUME NEW s \in Streams, Collect(s) PROVE DeviceCounts'
  BY <1>5 DEF Collect, deviceVars, streamVars, DeviceCounts, OpenStreams
<1>6. ASSUME NEW s \in Streams, Release(s) PROVE DeviceCounts'
  BY <1>6 DEF Release, deviceVars, streamVars, DeviceCounts, OpenStreams
<1>7. ASSUME DropDevice PROVE DeviceCounts'
  BY <1>7 DEF DropDevice, deviceVars, streamVars, DeviceCounts, OpenStreams
<1>8. ASSUME ClientDies PROVE DeviceCounts'
  BY <1>8 DEF ClientDies, deviceVars, streamVars, DeviceCounts, OpenStreams
<1>9. ASSUME NEW s \in Streams, CheckStop(s) PROVE DeviceCounts'
  BY <1>9 DEF CheckStop, deviceVars, streamVars, DeviceCounts, OpenStreams
<1>10. ASSUME NEW s \in Streams, WaitReturns(s) PROVE DeviceCounts'
  BY <1>10 DEF WaitReturns, deviceVars, streamVars, DeviceCounts, OpenStreams
<1>11. ASSUME NEW s \in Streams, WaitInterrupted(s) PROVE DeviceCounts'
  BY <1>11 DEF WaitInterrupted, deviceVars, streamVars, DeviceCounts, OpenStreams
<1>12. ASSUME NEW s \in Streams, ReadCommand(s) PROVE DeviceCounts'
  BY <1>12 DEF ReadCommand, deviceVars, streamVars, DeviceCounts, OpenStreams
<1>13. ASSUME NEW s \in Streams, HalReturns(s) PROVE DeviceCounts'
  BY <1>13 DEF HalReturns, deviceVars, streamVars, DeviceCounts, OpenStreams
<1>14. ASSUME NEW s \in Streams, Reply(s) PROVE DeviceCounts'
  BY <1>14 DEF Reply, deviceVars, streamVars, DeviceCounts, OpenStreams
<1>15. ASSUME NEW s \in Streams, WakeClient(s) PROVE DeviceCounts'
  BY <1>15 DEF WakeClient, deviceVars, streamVars, DeviceCounts, OpenStreams
<1>16. ASSUME NEW s \in Streams, SetCallback(s) PROVE DeviceCounts'
  BY <1>16 DEF SetCallback, deviceVars, streamVars, DeviceCounts, OpenStreams
<1>17. ASSUME NEW s \in Streams, ClearCallback(s) PROVE DeviceCounts'
  BY <1>17 DEF ClearCallback, deviceVars, streamVars, DeviceCounts, OpenStreams
<1>18. ASSUME NEW s \in Streams, AsyncCallback(s) PROVE DeviceCounts'
  BY <1>18 DEF AsyncCallback, deviceVars, streamVars, DeviceCounts, OpenStreams
<1>19. ASSUME NEW s \in Streams, CallbackReturns(s) PROVE DeviceCounts'
  BY <1>19 DEF CallbackReturns, deviceVars, streamVars, DeviceCounts, OpenStreams
<1>20. ASSUME NEW s \in Streams, CloseStream(s) PROVE DeviceCounts'
  BY <1>20 DEF CloseStream, StopThread, deviceVars, streamVars, DeviceCounts, OpenStreams
<1>21. ASSUME NEW s \in Streams, CloseWakes(s) PROVE DeviceCounts'
  BY <1>21 DEF CloseWakes, deviceVars, streamVars, DeviceCounts, OpenStreams
<1>22. ASSUME NEW s \in Streams, CloseHalStream(s) PROVE DeviceCounts'
  <2>1. s \in OpenStreams
    BY <1>22 DEF CloseHalStream, OpenStreams, Lifecycle
  <2>2. OpenStreams' = OpenStreams \ {s}
    BY <1>22 DEF CloseHalStream, OpenStreams, TypeOK
  <2>3. Cardinality(OpenStreams') = Cardinality(OpenStreams) - 1
    BY <2>1, <2>2, OpenStreamsFinite, FS_RemoveElement
  <2> QED BY <1>22, <2>1, <2>2, <2>3 DEF CloseHalStream, deviceVars, DeviceCounts
<1>23. ASSUME NEW s \in Streams, BeginDestructor(s) PROVE DeviceCounts'
  BY <1>23 DEF BeginDestructor, StopThread, deviceVars, streamVars, DeviceCounts, OpenStreams
<1>24. ASSUME NEW s \in Streams, EndDestructor(s) PROVE DeviceCounts'
  BY <1>24 DEF EndDestructor, deviceVars, streamVars, DeviceCounts, OpenStreams
<1>25. ASSUME CloseDevice PROVE DeviceCounts'
  <2>1. OpenStreams = {}
    BY <1>25, OpenStreamsFinite, FS_EmptySet DEF CloseDevice, DoClose, DeviceCounts
  <2> QED BY <1>25, <2>1 DEF CloseDevice, DoClose, streamVars, DeviceCounts, OpenStreams
<1>26. ASSUME DestroyDevice PROVE DeviceCounts'
  <2>1. OpenStreams = {}
    BY <1>26, OpenStreamsFinite, FS_EmptySet DEF DestroyDevice, DoClose, DeviceCounts
  <2> QED BY <1>26, <2>1 DEF DestroyDevice, DoClose, streamVars, DeviceCounts, OpenStreams
<1>27. ASSUME UNCHANGED vars PROVE DeviceCounts'
  BY <1>27 DEF vars, deviceVars, streamVars, closeVars, threadVars, queueVars, callbackVars,
       clientVars, DeviceCounts, OpenStreams
<1> QED BY <1>1, <1>2, <1>3, <1>4, <1>5, <1>6, <1>7, <1>8, <1>9, <1>10, <1>11, <1>12, <1>13,
       <1>14, <1>15, <1>16, <1>17, <1>18, <1>19, <1>20, <1>21, <1>22, <1>23, <1>24, <1>25,
       <1>26, <1>27 DEF Next, IoThread, Service, PrepareForWriting, PrepareForReading

LEMMA BufferLimit ==
  ASSUME NEW n \in Nat, NEW k \in Nat, k # 0, n <= MAX_BUFFER_SIZE \div k
  PROVE  n * k \in 0 .. MAX_BUFFER_SIZE
<1>1. CASE k \in {1, 2}
  BY <1>1 DEF MAX_BUFFER_SIZE
<1>2. CASE k > 2
  <2>1. 2 \div k = 0
    BY <1>2
  <2> QED BY <2>1 DEF MAX_BUFFER_SIZE
<1> QED BY <1>1, <1>2

LEMMA OutcomeTypes ==
  ASSUME TypeOK, NEW s \in Streams
  PROVE  \A outcome \in Outcomes(s) : outcome[1] \in Status /\ outcome[2] \in Nat
<1>1. \A ok \in BOOLEAN, n \in Nat : Answer(s, ok, n) \in Status
  BY DEF TypeOK, Answer, Status
<1>2. mStatus[s].count \in Nat /\ dataMQ[s] \in Nat
  BY DEF TypeOK, Status
<1> DEFINE Good(outcome) == outcome[1] \in Status /\ outcome[2] \in Nat
<1>3. \A st \in Status, n \in Nat : Good(<<st, n>>)
  OBVIOUS
<1> HIDE DEF Good
<1>4. \A outcome \in DoWrite(s) : Good(outcome)
  <2>1. 0 \in Nat /\ \A n \in 0 .. dataMQ[s] : n \in Nat
    BY <1>2
  <2> QED BY <1>1, <1>3, <2>1 DEF DoWrite
<1>5. \A outcome \in DoAsk(s) : Good(outcome)
  BY <1>1, <1>2, <1>3 DEF DoAsk
<1>6. \A outcome \in DoRead(s) : Good(outcome)
  <2> DEFINE most == IF command[s].read > capacity[s] - dataMQ[s] THEN capacity[s] - dataMQ[s]
                     ELSE command[s].read
  <2>1. DoRead(s) = {<<Answer(s, TRUE, n), dataMQ[s] + n>> : n \in 0 .. most}
                      \cup {<<Answer(s, FALSE, mStatus[s].count), dataMQ[s]>>}
    BY DEF DoRead
  <2>2. \A n \in 0 .. most : n \in Nat /\ dataMQ[s] + n \in Nat
    BY <1>2
  <2> HIDE DEF most
  <2> QED BY <1>1, <1>2, <1>3, <2>1, <2>2
<1> QED BY <1>4, <1>5, <1>6 DEF Outcomes, Good

\* The client takes all data that an answered command has left in the queue.
LEMMA ReceivesAll ==
  ASSUME NEW s \in Streams, Answered(s), statusMQ[s] = {mStatus[s]}
  PROVE  Received(s) = dataMQ[s]
<1>1. (CHOOSE st \in statusMQ[s] : TRUE) = mStatus[s]
  OBVIOUS
<1> QED BY <1>1 DEF Received, Answered

\* A client puts well-typed commands into the queue.
LEMMA SubmitsCommand ==
  ASSUME NEW s \in Streams, Submit(s)
  PROVE  \E q \in SUBSET Command : commandMQ' = [commandMQ EXCEPT ![s] = q]
<1> DEFINE puts(q) == commandMQ' = [commandMQ EXCEPT ![s] = q]
           command1(n) == [transfer |-> TRUE, read |-> n]
<1>1. \/ \E n \in 1 .. MaxSize : puts({command1(n)})
      \/ puts({command1(0)})
      \/ puts({NoCommand})
  BY DEF Submit
<1>2. \A n \in 0 .. MaxSize : command1(n) \in Command
  BY DEF Command
<1>3. NoCommand \in Command
  BY BoundsAssumption DEF Command, NoCommand
<1>4. 0 \in 0 .. MaxSize /\ \A n \in 1 .. MaxSize : n \in 0 .. MaxSize
  BY BoundsAssumption
<1> HIDE DEF puts, command1
<1>5. \E q \in SUBSET Command : puts(q)
  BY <1>1, <1>2, <1>3, <1>4
<1> QED BY <1>5 DEF puts

LEMMA TypeStep == Inv /\ [Next]_vars => TypeOK'
<1> SUFFICES ASSUME Inv, TypeOK, [Next]_vars PROVE TypeOK'
  BY DEF Inv
<1> USE DEF TypeOK, deviceVars, streamVars, closeVars, threadVars, queueVars, callbackVars,
       clientVars
<1>1. ASSUME NEW s \in Streams, NEW b \in BOOLEAN, OpenStream(s, b) PROVE TypeOK'
  BY <1>1 DEF OpenStream
<1>2. ASSUME NEW s \in Streams, NEW n \in 0 .. MaxSize, NEW k \in 0 .. MaxSize, Prepare(s, n, k)
     PROVE TypeOK'
  <2>1. n * k \in 0 .. MAX_BUFFER_SIZE
    BY <1>2, BufferLimit DEF Prepare
  <2> QED BY <1>2, <2>1 DEF Prepare
<1>3. ASSUME NEW s \in Streams, Submit(s) PROVE TypeOK'
  <2>1. PICK q \in SUBSET Command : commandMQ' = [commandMQ EXCEPT ![s] = q]
    BY <1>3, SubmitsCommand
  <2>2. commandMQ' \in [Streams -> SUBSET Command]
    BY <2>1
  <2>3. dataMQ' \in [Streams -> Nat]
    BY <1>3 DEF Submit
  <2>4. sent' \in [Streams -> 0 .. MaxCommands]
    BY <1>3, BoundsAssumption DEF Submit
  <2> QED BY <1>3, <2>2, <2>3, <2>4 DEF Submit
<1>4. ASSUME NEW s \in Streams, Signal(s) PROVE TypeOK'
  BY <1>4 DEF Signal, Flags, ThreadFlag, ClientFlag
<1>5. ASSUME NEW s \in Streams, Collect(s) PROVE TypeOK'
  <2>1. dataMQ'[s] \in Nat
    <3>1. Exchange(s) /\ client[s] = "waiting" /\ ClientFlag(s) \in efWord[s]
      BY <1>5 DEF Collect, Inv
    <3>2. Answered(s) /\ statusMQ[s] = {mStatus[s]}
      BY <3>1 DEF Exchange, Pending, Running, Answered
    <3> QED BY <1>5, <3>2, ReceivesAll DEF Collect
  <2>2. dataMQ' \in [Streams -> Nat]
    BY <1>5, <2>1 DEF Collect
  <2> QED BY <1>5, <2>2 DEF Collect
<1>6. ASSUME NEW s \in Streams, Release(s) PROVE TypeOK'
  BY <1>6 DEF Release
<1>7. ASSUME DropDevice PROVE TypeOK'
  BY <1>7 DEF DropDevice
<1>8. ASSUME ClientDies PROVE TypeOK'
  BY <1>8 DEF ClientDies
<1>9. ASSUME NEW s \in Streams, CheckStop(s) PROVE TypeOK'
  BY <1>9 DEF CheckStop
<1>10. ASSUME NEW s \in Streams, WaitReturns(s) PROVE TypeOK'
  BY <1>10 DEF WaitReturns
<1>11. ASSUME NEW s \in Streams, WaitInterrupted(s) PROVE TypeOK'
  BY <1>11 DEF WaitInterrupted
<1>12. ASSUME NEW s \in Streams, ReadCommand(s) PROVE TypeOK'
  BY <1>12 DEF ReadCommand
<1>13. ASSUME NEW s \in Streams, HalReturns(s) PROVE TypeOK'
  <2>1. \A outcome \in Outcomes(s) : outcome[1] \in Status /\ outcome[2] \in Nat
    BY OutcomeTypes
  <2> QED BY <1>13, <2>1 DEF HalReturns
<1>14. ASSUME NEW s \in Streams, Reply(s) PROVE TypeOK'
  BY <1>14 DEF Reply
<1>15. ASSUME NEW s \in Streams, WakeClient(s) PROVE TypeOK'
  BY <1>15 DEF WakeClient, Flags, ThreadFlag, ClientFlag
<1>16. ASSUME NEW s \in Streams, SetCallback(s) PROVE TypeOK'
  BY <1>16 DEF SetCallback
<1>17. ASSUME NEW s \in Streams, ClearCallback(s) PROVE TypeOK'
  BY <1>17 DEF ClearCallback
<1>18. ASSUME NEW s \in Streams, AsyncCallback(s) PROVE TypeOK'
  BY <1>18 DEF AsyncCallback
<1>19. ASSUME NEW s \in Streams, CallbackReturns(s) PROVE TypeOK'
  BY <1>19 DEF CallbackReturns
<1>20. ASSUME NEW s \in Streams, CloseStream(s) PROVE TypeOK'
  BY <1>20 DEF CloseStream, StopThread
<1>21. ASSUME NEW s \in Streams, CloseWakes(s) PROVE TypeOK'
  BY <1>21 DEF CloseWakes, Flags, ThreadFlag, ClientFlag
<1>22. ASSUME NEW s \in Streams, CloseHalStream(s) PROVE TypeOK'
  <2>1. mOpenedStreamsCount' \in Nat
    <3>1. mOpenedStreamsCount = Cardinality(OpenStreams) /\ s \in OpenStreams
      BY <1>22 DEF Inv, DeviceCounts, CloseHalStream, OpenStreams, Lifecycle
    <3>2. mOpenedStreamsCount # 0
      BY <3>1, OpenStreamsFinite, FS_EmptySet
    <3> QED BY <1>22, <3>2 DEF CloseHalStream
  <2> QED BY <1>22, <2>1 DEF CloseHalStream
<1>23. ASSUME NEW s \in Streams, BeginDestructor(s) PROVE TypeOK'
  BY <1>23 DEF BeginDestructor, StopThread
<1>24. ASSUME NEW s \in Streams, EndDestructor(s) PROVE TypeOK'
  BY <1>24 DEF EndDestructor
<1>25. ASSUME CloseDevice PROVE TypeOK'
  BY <1>25 DEF CloseDevice, DoClose
<1>26. ASSUME DestroyDevice PROVE TypeOK'
  BY <1>26 DEF DestroyDevice, DoClose
<1>27. ASSUME UNCHANGED vars PROVE TypeOK'
  BY <1>27 DEF vars, deviceVars, streamVars, closeVars, threadVars, queueVars, callbackVars,
       clientVars
<1> QED BY <1>1, <1>2, <1>3, <1>4, <1>5, <1>6, <1>7, <1>8, <1>9, <1>10, <1>11, <1>12, <1>13,
       <1>14, <1>15, <1>16, <1>17, <1>18, <1>19, <1>20, <1>21, <1>22, <1>23, <1>24, <1>25,
       <1>26, <1>27 DEF Next, IoThread, Service, PrepareForWriting, PrepareForReading

LEMMA LifecycleStep ==
  ASSUME Inv, [Next]_vars, NEW t \in Streams
  PROVE  Lifecycle(t)'
<1> USE DEF Lifecycle, deviceVars, streamVars, closeVars, threadVars, queueVars, callbackVars,
       clientVars
<1>0. TypeOK /\ Lifecycle(t) /\ Exchange(t)
  BY DEF Inv
<1> USE <1>0 DEF TypeOK
<1>1. ASSUME NEW s \in Streams, NEW b \in BOOLEAN, OpenStream(s, b) PROVE Lifecycle(t)'
  BY <1>1 DEF OpenStream
<1>2. ASSUME NEW s \in Streams, NEW n \in 0 .. MaxSize, NEW k \in 0 .. MaxSize, Prepare(s, n, k)
     PROVE Lifecycle(t)'
  BY <1>2 DEF Prepare, Exchange, Drained
<1>3. ASSUME NEW s \in Streams, Submit(s) PROVE Lifecycle(t)'
  BY <1>3 DEF Submit
<1>4. ASSUME NEW s \in Streams, Signal(s) PROVE Lifecycle(t)'
  BY <1>4 DEF Signal
<1>5. ASSUME NEW s \in Streams, Collect(s) PROVE Lifecycle(t)'
  BY <1>5 DEF Collect
<1>6. ASSUME NEW s \in Streams, Release(s) PROVE Lifecycle(t)'
  BY <1>6 DEF Release
<1>7. ASSUME DropDevice PROVE Lifecycle(t)'
  BY <1>7 DEF DropDevice
<1>8. ASSUME ClientDies PROVE Lifecycle(t)'
  BY <1>8 DEF ClientDies
<1>9. ASSUME NEW s \in Streams, CheckStop(s) PROVE Lifecycle(t)'
  BY <1>9 DEF CheckStop
<1>10. ASSUME NEW s \in Streams, WaitReturns(s) PROVE Lifecycle(t)'
  BY <1>10 DEF WaitReturns
<1>11. ASSUME NEW s \in Streams, WaitInterrupted(s) PROVE Lifecycle(t)'
  BY <1>11 DEF WaitInterrupted
<1>12. ASSUME NEW s \in Streams, ReadCommand(s) PROVE Lifecycle(t)'
  BY <1>12 DEF ReadCommand
<1>13. ASSUME NEW s \in Streams, HalReturns(s) PROVE Lifecycle(t)'
  BY <1>13 DEF HalReturns
<1>14. ASSUME NEW s \in Streams, Reply(s) PROVE Lifecycle(t)'
  BY <1>14 DEF Reply
<1>15. ASSUME NEW s \in Streams, WakeClient(s) PROVE Lifecycle(t)'
  BY <1>15 DEF WakeClient
<1>16. ASSUME NEW s \in Streams, SetCallback(s) PROVE Lifecycle(t)'
  BY <1>16 DEF SetCallback
<1>17. ASSUME NEW s \in Streams, ClearCallback(s) PROVE Lifecycle(t)'
  BY <1>17 DEF ClearCallback
<1>18. ASSUME NEW s \in Streams, AsyncCallback(s) PROVE Lifecycle(t)'
  BY <1>18 DEF AsyncCallback
<1>19. ASSUME NEW s \in Streams, CallbackReturns(s) PROVE Lifecycle(t)'
  BY <1>19 DEF CallbackReturns
<1>20. ASSUME NEW s \in Streams, CloseStream(s) PROVE Lifecycle(t)'
  BY <1>20 DEF CloseStream, StopThread
<1>21. ASSUME NEW s \in Streams, CloseWakes(s) PROVE Lifecycle(t)'
  BY <1>21 DEF CloseWakes
<1>22. ASSUME NEW s \in Streams, CloseHalStream(s) PROVE Lifecycle(t)'
  BY <1>22 DEF CloseHalStream
<1>23. ASSUME NEW s \in Streams, BeginDestructor(s) PROVE Lifecycle(t)'
  BY <1>23 DEF BeginDestructor, StopThread
<1>24. ASSUME NEW s \in Streams, EndDestructor(s) PROVE Lifecycle(t)'
  BY <1>24 DEF EndDestructor
<1>25. ASSUME CloseDevice PROVE Lifecycle(t)'
  BY <1>25 DEF CloseDevice, DoClose
<1>26. ASSUME DestroyDevice PROVE Lifecycle(t)'
  BY <1>26 DEF DestroyDevice, DoClose
<1>27. ASSUME UNCHANGED vars PROVE Lifecycle(t)'
  BY <1>27 DEF vars, deviceVars, streamVars, closeVars, threadVars, queueVars, callbackVars,
       clientVars
<1> QED BY <1>1, <1>2, <1>3, <1>4, <1>5, <1>6, <1>7, <1>8, <1>9, <1>10, <1>11, <1>12, <1>13,
       <1>14, <1>15, <1>16, <1>17, <1>18, <1>19, <1>20, <1>21, <1>22, <1>23, <1>24, <1>25,
       <1>26, <1>27 DEF Next, IoThread, Service, PrepareForWriting, PrepareForReading

\* An outcome announces what it leaves in the data queue.
Announces(s, outcome) ==
  outcome[2] = IF s \notin outputs /\ outcome[1].ok /\ outcome[1].replyTo.transfer
                 THEN outcome[1].count ELSE 0

LEMMA OutcomeData ==
  ASSUME TypeOK, NEW s \in Streams, Running(s)
  PROVE  \A outcome \in Outcomes(s) : Announces(s, outcome)
<1>1. CASE command[s].transfer /\ s \in outputs
  BY <1>1 DEF Outcomes, DoWrite, Announces, Answer
<1>2. CASE ~command[s].transfer
  <2>1. dataMQ[s] = 0
    BY <1>2 DEF Running
  <2> QED BY <1>2, <2>1 DEF Outcomes, DoAsk, Announces, Answer
<1>3. CASE command[s].transfer /\ s \notin outputs
  <2> DEFINE most == IF command[s].read > capacity[s] - dataMQ[s] THEN capacity[s] - dataMQ[s]
                     ELSE command[s].read
  <2>1. dataMQ[s] = 0
    BY <1>3 DEF Running
  <2>2. Outcomes(s) = {<<Answer(s, TRUE, n), dataMQ[s] + n>> : n \in 0 .. most}
                        \cup {<<Answer(s, FALSE, mStatus[s].count), dataMQ[s]>>}
    BY <1>3 DEF Outcomes, DoRead
  <2> HIDE DEF most
  <2> QED BY <1>3, <2>1, <2>2 DEF Announces, Answer
<1> QED BY <1>1, <1>2, <1>3

LEMMA ExchangeStep ==
  ASSUME Inv, [Next]_vars, NEW t \in Streams
  PROVE  Exchange(t)'
<1> USE DEF deviceVars, streamVars, closeVars, threadVars, queueVars, callbackVars, clientVars,
       ClientFlag, ThreadFlag
<1>0. TypeOK /\ Lifecycle(t) /\ Exchange(t)
  BY DEF Inv
<1> USE <1>0 DEF TypeOK, Exchange, Drained, Pending, Running, Answered, Resting
<1>1. ASSUME NEW s \in Streams, NEW b \in BOOLEAN, OpenStream(s, b) PROVE Exchange(t)'
  BY <1>1 DEF OpenStream, Lifecycle
<1>2. ASSUME NEW s \in Streams, NEW n \in 0 .. MaxSize, NEW k \in 0 .. MaxSize, Prepare(s, n, k)
     PROVE Exchange(t)'
  BY <1>2 DEF Prepare
<1>3. ASSUME NEW s \in Streams, Submit(s) PROVE Exchange(t)'
  <2>1. CASE t # s
    BY <1>3, <2>1 DEF Submit
  <2>2. CASE t = s
    <3>1. /\ Resting(t) /\ statusMQ'[t] = {} /\ io'[t] = io[t] /\ client'[t] = "submitted"
          /\ ClientFlag(t)' \notin efWord'[t]
      BY <1>3, <2>2 DEF Submit, Lifecycle
    <3>2. \E c : /\ commandMQ'[t] = {c}
                 /\ dataMQ'[t] = 0 \/ (s \in outputs /\ c.transfer)
      <4>1. dataMQ[t] = 0
        BY <1>3, <2>2 DEF Submit
      <4> DEFINE write == [transfer |-> TRUE, read |-> 0]
      <4>2. CASE s \in outputs /\ commandMQ' = [commandMQ EXCEPT ![s] = {write}]
        <5>1. write.transfer
          OBVIOUS
        <5> HIDE DEF write
        <5>2. commandMQ'[t] = {write}
          BY <2>2, <4>2
        <5> QED BY <4>2, <5>1, <5>2
      <4>3. CASE dataMQ' = dataMQ /\ \E c : commandMQ' = [commandMQ EXCEPT ![s] = {c}]
        BY <2>2, <4>1, <4>3
      <4> QED BY <1>3, <4>2, <4>3 DEF Submit
    <3>3. outputs' = outputs
      BY <1>3 DEF Submit
    <3> QED BY <2>2, <3>1, <3>2, <3>3
  <2> QED BY <2>1, <2>2
<1>4. ASSUME NEW s \in Streams, Signal(s) PROVE Exchange(t)'
  BY <1>4 DEF Signal
<1>5. ASSUME NEW s \in Streams, Collect(s) PROVE Exchange(t)'
  <2>1. CASE t # s
    BY <1>5, <2>1 DEF Collect
  <2>2. CASE t = s
    <3>1. Answered(s) /\ statusMQ[s] = {mStatus[s]} /\ Resting(s)
      BY <1>5, <2>2 DEF Collect
    <3>2. Received(s) = dataMQ[s]
      BY <3>1, ReceivesAll
    <3>3. dataMQ'[s] = 0
      BY <1>5, <3>2 DEF Collect
    <3> QED BY <1>5, <2>2, <3>1, <3>3 DEF Collect
  <2> QED BY <2>1, <2>2
<1>6. ASSUME NEW s \in Streams, Release(s) PROVE Exchange(t)'
  BY <1>6 DEF Release
<1>7. ASSUME DropDevice PROVE Exchange(t)'
  BY <1>7 DEF DropDevice
<1>8. ASSUME ClientDies PROVE Exchange(t)'
  BY <1>8 DEF ClientDies
<1>9. ASSUME NEW s \in Streams, CheckStop(s) PROVE Exchange(t)'
  BY <1>9 DEF CheckStop, Lifecycle
<1>10. ASSUME NEW s \in Streams, WaitReturns(s) PROVE Exchange(t)'
  BY <1>10 DEF WaitReturns
<1>11. ASSUME NEW s \in Streams, WaitInterrupted(s) PROVE Exchange(t)'
  BY <1>11 DEF WaitInterrupted
<1>12. ASSUME NEW s \in Streams, ReadCommand(s) PROVE Exchange(t)'
  BY <1>12 DEF ReadCommand
<1>13. ASSUME NEW s \in Streams, HalReturns(s) PROVE Exchange(t)'
  <2>1. CASE t # s
    BY <1>13, <2>1 DEF HalReturns
  <2>2. CASE t = s
    <3>1. PICK outcome \in Outcomes(s) :
            mStatus'[s] = outcome[1] /\ dataMQ'[s] = outcome[2]
      BY <1>13 DEF HalReturns
    <3>2. CASE client[t] = "dead"
      BY <1>13, <2>2, <3>2 DEF HalReturns
    <3>3. CASE client[t] # "dead"
      <4>1. Running(s) /\ client[t] \in {"submitted", "waiting"}
        BY <1>13, <2>2, <3>3 DEF HalReturns
      <4>2. Announces(s, outcome)
        BY <4>1, OutcomeData
      <4> QED BY <1>13, <2>2, <3>1, <4>1, <4>2 DEF HalReturns, Announces
    <3> QED BY <3>2, <3>3
  <2> QED BY <2>1, <2>2
<1>14. ASSUME NEW s \in Streams, Reply(s) PROVE Exchange(t)'
  BY <1>14 DEF Reply
<1>15. ASSUME NEW s \in Streams, WakeClient(s) PROVE Exchange(t)'
  BY <1>15 DEF WakeClient
<1>16. ASSUME NEW s \in Streams, SetCallback(s) PROVE Exchange(t)'
  BY <1>16 DEF SetCallback
<1>17. ASSUME NEW s \in Streams, ClearCallback(s) PROVE Exchange(t)'
  BY <1>17 DEF ClearCallback
<1>18. ASSUME NEW s \in Streams, AsyncCallback(s) PROVE Exchange(t)'
  BY <1>18 DEF AsyncCallback
<1>19. ASSUME NEW s \in Streams, CallbackReturns(s) PROVE Exchange(t)'
  BY <1>19 DEF CallbackReturns
<1>20. ASSUME NEW s \in Streams, CloseStream(s) PROVE Exchange(t)'
  BY <1>20 DEF CloseStream, StopThread
<1>21. ASSUME NEW s \in Streams, CloseWakes(s) PROVE Exchange(t)'
  BY <1>21 DEF CloseWakes
<1>22. ASSUME NEW s \in Streams, CloseHalStream(s) PROVE Exchange(t)'
  BY <1>22 DEF CloseHalStream
<1>23. ASSUME NEW s \in Streams, BeginDestructor(s) PROVE Exchange(t)'
  BY <1>23 DEF BeginDestructor, StopThread
<1>24. ASSUME NEW s \in Streams, EndDestructor(s) PROVE Exchange(t)'
  BY <1>24 DEF EndDestructor
<1>25. ASSUME CloseDevice PROVE Exchange(t)'
  BY <1>25 DEF CloseDevice, DoClose
<1>26. ASSUME DestroyDevice PROVE Exchange(t)'
  BY <1>26 DEF DestroyDevice, DoClose
<1>27. ASSUME UNCHANGED vars PROVE Exchange(t)'
  BY <1>27 DEF vars, deviceVars, streamVars, closeVars, threadVars, queueVars, callbackVars,
       clientVars
<1> QED BY <1>1, <1>2, <1>3, <1>4, <1>5, <1>6, <1>7, <1>8, <1>9, <1>10, <1>11, <1>12, <1>13,
       <1>14, <1>15, <1>16, <1>17, <1>18, <1>19, <1>20, <1>21, <1>22, <1>23, <1>24, <1>25,
       <1>26, <1>27 DEF Next, IoThread, Service, PrepareForWriting, PrepareForReading

LEMMA InvariantStep == Inv /\ [Next]_vars => Inv'
<1>1. Inv /\ [Next]_vars => \A s \in Streams : (Lifecycle(s) /\ Exchange(s))'
  BY LifecycleStep, ExchangeStep
<1> QED BY <1>1, TypeStep, CountsStep DEF Inv

LEMMA Invariant == Spec => []Inv
  BY InitInvariant, InvariantStep, PTL DEF Spec

\* Every reachable state of a stream, its thread, its queues and its client is well typed: no
\* amount of data is ever negative and no buffer exceeds the limit of prepareForWriting.
THEOREM TypeCorrect == Spec => []TypeOK
  BY Invariant, PTL DEF Inv

\* For any streams: the destructor of StreamOut or StreamIn ends only when neither the I/O
\* thread nor the callback thread is inside the object (StreamOut.cpp:159-179).
THEOREM ThreadsEndFirst == Spec => []NobodyOutlivesStream
<1>1. Inv => NobodyOutlivesStream
  BY DEF Inv, TypeOK, Lifecycle, NobodyOutlivesStream
<1> QED BY <1>1, Invariant, PTL

\* For any streams: close() takes the legacy stream away from a running I/O thread only when
\* the client has died with a command under way (StreamOut.cpp:318-330).
THEOREM HalOpenInUse == Spec => []HalUsedWhileOpen
<1>1. Inv => HalUsedWhileOpen
  BY DEF Inv, TypeOK, Lifecycle, Exchange, Drained, Pending, Running, Answered, Resting,
         HalUsedWhileOpen
<1> QED BY <1>1, Invariant, PTL

Fits(s) == dataMQ[s] <= capacity[s]

LEMMA OutcomeFits ==
  ASSUME TypeOK, NEW s \in Streams, Fits(s)
  PROVE  \A outcome \in Outcomes(s) : outcome[2] <= capacity[s]
<1> DEFINE Good(outcome) == outcome[2] <= capacity[s]
           most == IF command[s].read > capacity[s] - dataMQ[s] THEN capacity[s] - dataMQ[s]
                   ELSE command[s].read
<1>1. dataMQ[s] \in Nat /\ capacity[s] \in Nat /\ command[s].read \in Nat
  BY DEF TypeOK, Command
<1>2. \A st, n : n <= capacity[s] => Good(<<st, n>>)
  OBVIOUS
<1> HIDE DEF Good
<1>3. \A outcome \in DoRead(s) : Good(outcome)
  <2>1. DoRead(s) = {<<Answer(s, TRUE, n), dataMQ[s] + n>> : n \in 0 .. most}
                      \cup {<<Answer(s, FALSE, mStatus[s].count), dataMQ[s]>>}
    BY DEF DoRead
  <2>2. \A n \in 0 .. most : dataMQ[s] + n <= capacity[s]
    BY <1>1 DEF Fits
  <2> HIDE DEF most
  <2> QED BY <1>2, <2>1, <2>2 DEF Fits
<1>4. \A outcome \in DoWrite(s) : Good(outcome)
  <2>1. 0 <= capacity[s]
    BY <1>1
  <2> QED BY <1>2, <2>1 DEF DoWrite
<1>5. \A outcome \in DoAsk(s) : Good(outcome)
  BY <1>2 DEF DoAsk, Fits
<1>6. \A outcome \in Outcomes(s) : Good(outcome)
  BY <1>3, <1>4, <1>5 DEF Outcomes
<1> QED BY <1>6 DEF Good

\* A command adds to an empty queue, and the I/O thread looks at the space that is left.
LEMMA FitsStep ==
  ASSUME Inv, NEW t \in Streams, Fits(t), [Next]_vars
  PROVE  Fits(t)'
<1> USE DEF deviceVars, streamVars, closeVars, threadVars, queueVars, callbackVars, clientVars
<1>1. dataMQ[t] \in Nat /\ capacity[t] \in Nat
  BY DEF Inv, TypeOK
<1>2. CASE UNCHANGED <<dataMQ[t], capacity[t]>>
  BY <1>2 DEF Fits
<1>3. ASSUME NEW s \in Streams, NEW n \in 0 .. MaxSize, NEW k \in 0 .. MaxSize, Prepare(s, n, k)
      PROVE  Fits(t)'
  <2>1. CASE t # s
    <3>1. UNCHANGED <<dataMQ[t], capacity[t]>>
      BY <1>3, <2>1 DEF Prepare, Inv, TypeOK
    <3> QED BY <1>2, <3>1
  <2>2. CASE t = s
    <3>1. dataMQ'[t] = 0
      BY <1>3, <2>2 DEF Prepare, Inv, Exchange, Drained
    <3>2. capacity'[t] \in Nat
      BY <1>3, TypeStep DEF TypeOK
    <3> QED BY <3>1, <3>2 DEF Fits
  <2> QED BY <2>1, <2>2
<1>4. ASSUME NEW s \in Streams, Submit(s) PROVE Fits(t)'
  <2>1. capacity' = capacity /\ dataMQ[s] = 0
    BY <1>4 DEF Submit, Inv, Exchange, Drained
  <2>2. \/ dataMQ' = dataMQ
        \/ \E n \in 1 .. capacity[s] : dataMQ' = [dataMQ EXCEPT ![s] = @ + n]
    BY <1>4 DEF Submit
  <2> QED BY <1>1, <2>1, <2>2 DEF Fits, Inv, TypeOK
<1>5. ASSUME NEW s \in Streams, Collect(s) PROVE Fits(t)'
  <2>1. CASE t # s
    BY <1>2, <1>5, <2>1 DEF Collect, Inv, TypeOK
  <2>2. CASE t = s
    <3>1. Exchange(s) /\ client[s] = "waiting" /\ ClientFlag(s) \in efWord[s]
      BY <1>5 DEF Collect, Inv
    <3>2. Answered(s) /\ statusMQ[s] = {mStatus[s]}
      BY <3>1 DEF Exchange, Pending, Running, Answered
    <3>3. dataMQ'[t] = 0 /\ capacity' = capacity
      BY <1>1, <1>5, <2>2, <3>2, ReceivesAll DEF Collect, Inv, TypeOK
    <3> QED BY <1>1, <3>3 DEF Fits
  <2> QED BY <2>1, <2>2
<1>6. ASSUME NEW s \in Streams, HalReturns(s) PROVE Fits(t)'
  <2>1. PICK outcome \in Outcomes(s) : dataMQ' = [dataMQ EXCEPT ![s] = outcome[2]]
    BY <1>6 DEF HalReturns
  <2>2. capacity' = capacity
    BY <1>6 DEF HalReturns
  <2>3. CASE t # s
    BY <1>2, <2>1, <2>2, <2>3 DEF Inv, TypeOK
  <2>4. CASE t = s
    <3>1. dataMQ'[t] = outcome[2]
      BY <2>1, <2>4 DEF Inv, TypeOK
    <3>2. outcome[2] <= capacity[t]
      BY <2>4, OutcomeFits DEF Inv
    <3> QED BY <2>2, <3>1, <3>2 DEF Fits
  <2> QED BY <2>3, <2>4
<1>7. ASSUME NEW s \in Streams, NEW b \in BOOLEAN,
             \/ OpenStream(s, b) \/ Signal(s) \/ Release(s) \/ CloseStream(s) \/ SetCallback(s)
             \/ ClearCallback(s) \/ AsyncCallback(s) \/ WaitInterrupted(s) \/ CallbackReturns(s)
             \/ CloseWakes(s) \/ CloseHalStream(s) \/ BeginDestructor(s) \/ EndDestructor(s)
      PROVE  UNCHANGED <<dataMQ, capacity>>
  BY <1>7 DEF OpenStream, Signal, Release, CloseStream, SetCallback, ClearCallback, AsyncCallback,
     WaitInterrupted, CallbackReturns, CloseWakes, CloseHalStream, BeginDestructor,
     EndDestructor, StopThread
<1>8. ASSUME NEW s \in Streams,
             CheckStop(s) \/ WaitReturns(s) \/ ReadCommand(s) \/ Reply(s) \/ WakeClient(s)
      PROVE  UNCHANGED <<dataMQ, capacity>>
  BY <1>8 DEF CheckStop, WaitReturns, ReadCommand, Reply, WakeClient
<1>9. ASSUME DropDevice \/ ClientDies \/ CloseDevice \/ DestroyDevice \/ UNCHANGED vars
      PROVE  UNCHANGED <<dataMQ, capacity>>
  BY <1>9 DEF DropDevice, ClientDies, CloseDevice, DestroyDevice, DoClose, vars
<1> QED
  BY <1>2, <1>3, <1>4, <1>5, <1>6, <1>7, <1>8, <1>9
  DEF Next, IoThread, Service, PrepareForWriting, PrepareForReading

LEMMA FitsInit == Init => \A s \in Streams : Fits(s)
  BY DEF Init, Fits

\* For any commands, sizes and failures: the queues are empty between two commands, the status
\* queue has room whenever the thread answers, and the data queue is never filled beyond its
\* size (StreamOut.cpp:87-139, StreamIn.cpp:84-93).
THEOREM QueuesDrained == Spec => []IdleMeansDrained
<1> DEFINE AllFit == \A s \in Streams : Fits(s)
<1>1. Inv /\ AllFit /\ [Next]_vars => AllFit'
  BY FitsStep
<1>2. Inv /\ AllFit => IdleMeansDrained
  BY DEF Inv, Exchange, Drained, IdleMeansDrained, Fits
<1>3. Init => AllFit
  BY FitsInit
<1> QED
  <2> HIDE DEF AllFit
  <2> QED BY <1>1, <1>2, <1>3, Invariant, PTL DEF Spec

\* For any number of streams: mOpenedStreamsCount counts the open legacy streams, and the
\* legacy device is closed only without any (Device.cpp:558-563).
THEOREM DeviceClosesLast == Spec => []DeviceClosedLast
<1>1. Inv => DeviceClosedLast
  BY DEF Inv, DeviceCounts, OpenStreams, DeviceClosedLast
<1> QED BY <1>1, Invariant, PTL
-----------------------------------------------------------------------------
(* The streams implement CommandExchange. *)

\* What the client of a stream may rely on does not change.
Same(t) == ExchangeOf(t)' = ExchangeOf(t) /\ DataOf(t)' = DataOf(t)

\* What it is computed from.
Seen(t) == <<client[t], close[t] = "no", commandMQ[t], io[t] = "hal", statusMQ[t], mStatus[t],
             command[t], dataMQ[t], t \in outputs>>

LEMMA SeenSame ==
  ASSUME NEW t \in Streams, Seen(t)' = Seen(t)
  PROVE  Same(t)
<1>1. Phase(t)' = Phase(t)
  BY DEF Seen, Phase
<1>2. Matter(t)' = Matter(t)
  BY <1>1 DEF Seen, Matter, Doing, Done, Kind
<1> QED BY <1>1, <1>2 DEF Same, ExchangeOf, DataOf, Seen

CommandStep == [Commands!Next]_(Commands!vars)

LEMMA NothingMoves ==
  ASSUME \A t \in Streams : Same(t)
  PROVE  CommandStep
<1>1. [t \in Streams |-> ExchangeOf(t)]' = [t \in Streams |-> ExchangeOf(t)]
  BY DEF Same
<1>2. [t \in Streams |-> DataOf(t)]' = [t \in Streams |-> DataOf(t)]
  BY DEF Same
<1> QED BY <1>1, <1>2 DEF CommandStep, Commands!vars

LEMMA OneMoves ==
  ASSUME NEW s \in Streams, NEW now, NEW left,
         \A t \in Streams : t # s => Same(t),
         ExchangeOf(s)' = now, DataOf(s)' = left
  PROVE  Commands!Moves(s, now, left)
<1> DEFINE f == [t \in Streams |-> ExchangeOf(t)]
           d == [t \in Streams |-> DataOf(t)]
<1>1. f' = [f EXCEPT ![s] = now]
  BY DEF Same
<1>2. d' = [d EXCEPT ![s] = left]
  BY DEF Same
<1> QED BY <1>1, <1>2 DEF Commands!Moves

\* A step of one stream that its client does not see.
LEMMA Unseen ==
  ASSUME NEW s \in Streams, Same(s), \A t \in Streams : t # s => Seen(t)' = Seen(t)
  PROVE  CommandStep
BY SeenSame, NothingMoves

LEMMA OpensIdle ==
  ASSUME Inv, NEW s \in Streams, NEW b \in BOOLEAN, OpenStream(s, b)
  PROVE  Commands!Open(s)
<1> USE DEF deviceVars, closeVars, threadVars, queueVars, callbackVars
<1>1. TypeOK /\ Lifecycle(s) /\ Exchange(s)
  BY DEF Inv
<1>2. client[s] = "none" /\ close[s] = "no" /\ dataMQ[s] = 0
  BY <1>1 DEF OpenStream, Lifecycle, Exchange, Drained
<1>3. ASSUME NEW t \in Streams, t # s PROVE Same(t)
  <2>1. Seen(t)' = Seen(t)
    BY <1>1, <1>3 DEF OpenStream, Seen, TypeOK
  <2> QED BY <2>1, SeenSame
<1>4. Phase(s) = "new"
  BY <1>2 DEF Phase
<1>5. Phase(s)' = "idle" /\ dataMQ'[s] = 0
  BY <1>1, <1>2 DEF OpenStream, Phase, TypeOK
<1>6. ExchangeOf(s)' = Commands!Idle /\ DataOf(s)' = 0
  BY <1>5 DEF ExchangeOf, DataOf, Matter, Commands!Idle, Commands!At
<1>7. Commands!Moves(s, Commands!Idle, 0)
  BY <1>3, <1>6, OneMoves
<1>8. Commands!Is(s, "new")
  BY <1>4 DEF Commands!Is, ExchangeOf
<1> QED BY <1>7, <1>8 DEF Commands!Open

LEMMA SubmitAsks ==
  ASSUME Inv, NEW s \in Streams, Submit(s)
  PROVE  Commands!Ask(s)
<1> USE DEF deviceVars, streamVars, closeVars, threadVars, queueVars, callbackVars
<1>1. TypeOK /\ Lifecycle(s) /\ Exchange(s)
  BY DEF Inv
<1>2. client[s] = "idle" /\ close[s] = "no" /\ dataMQ[s] = 0
  BY <1>1 DEF Submit, Exchange, Drained
<1>3. ASSUME NEW t \in Streams, t # s PROVE Same(t)
  <2>1. Seen(t)' = Seen(t)
    BY <1>1, <1>3 DEF Submit, Seen, TypeOK
  <2> QED BY <2>1, SeenSame
<1>4. Commands!Is(s, "idle")
  BY <1>2 DEF Phase, Commands!Is, ExchangeOf
<1>5. client'[s] = "submitted" /\ outputs' = outputs
  BY <1>1 DEF Submit, TypeOK
<1>6. ASSUME NEW c, commandMQ' = [commandMQ EXCEPT ![s] = {c}]
      PROVE  /\ Phase(s)' = "asked" /\ DataOf(s)' = dataMQ'[s]
             /\ ExchangeOf(s)' =
                  Commands!At("asked", Kind(s, c.transfer),
                              IF c.transfer /\ s \in outputs THEN dataMQ'[s] ELSE c.read)
  <2>1. commandMQ'[s] = {c} /\ (CHOOSE d \in commandMQ'[s] : TRUE) = c
    BY <1>1, <1>6 DEF TypeOK
  <2>2. Phase(s)' = "asked"
    BY <1>5, <2>1 DEF Phase
  <2> QED BY <1>5, <2>1, <2>2 DEF ExchangeOf, DataOf, Matter, Doing, Kind, Commands!At
<1> DEFINE amounts == (0 .. MaxSize) \cup (0 .. MAX_BUFFER_SIZE)
<1>7. CASE /\ s \in outputs
           /\ commandMQ' = [commandMQ EXCEPT ![s] = {[transfer |-> TRUE, read |-> 0]}]
           /\ \E n \in 1 .. capacity[s] : dataMQ' = [dataMQ EXCEPT ![s] = @ + n]
  <2>1. PICK n \in 1 .. capacity[s] : dataMQ' = [dataMQ EXCEPT ![s] = @ + n]
    BY <1>7
  <2>2. dataMQ'[s] = n /\ n \in amounts
    BY <1>1, <1>2, <2>1 DEF TypeOK, MAX_BUFFER_SIZE
  <2> DEFINE write == [transfer |-> TRUE, read |-> 0]
  <2>3. write.transfer = TRUE
    OBVIOUS
  <2>4. commandMQ' = [commandMQ EXCEPT ![s] = {write}]
    BY <1>7
  <2> HIDE DEF write, amounts
  <2>5. ExchangeOf(s)' = Commands!At("asked", "write", n) /\ DataOf(s)' = n
    BY <1>6, <1>7, <2>2, <2>3, <2>4 DEF Kind
  <2>6. Commands!Moves(s, Commands!At("asked", "write", n), n)
    BY <1>3, <2>5, OneMoves
  <2> QED BY <1>4, <2>2, <2>6 DEF Commands!Ask, amounts
<1>8. CASE /\ s \notin outputs /\ dataMQ' = dataMQ
           /\ \E n \in 1 .. MaxSize :
                commandMQ' = [commandMQ EXCEPT ![s] = {[transfer |-> TRUE, read |-> n]}]
  <2>1. PICK n \in 1 .. MaxSize :
               commandMQ' = [commandMQ EXCEPT ![s] = {[transfer |-> TRUE, read |-> n]}]
    BY <1>8
  <2>2. n \in amounts
    BY BoundsAssumption
  <2> DEFINE read == [transfer |-> TRUE, read |-> n]
  <2>3. read.transfer = TRUE /\ read.read = n
    OBVIOUS
  <2>4. commandMQ' = [commandMQ EXCEPT ![s] = {read}]
    BY <2>1
  <2> HIDE DEF read, amounts
  <2>5. ExchangeOf(s)' = Commands!At("asked", "read", n) /\ DataOf(s)' = 0
    BY <1>2, <1>6, <1>8, <2>3, <2>4 DEF Kind
  <2>6. Commands!Moves(s, Commands!At("asked", "read", n), 0)
    BY <1>3, <2>5, OneMoves
  <2> QED BY <1>4, <2>2, <2>6 DEF Commands!Ask, amounts
<1>9. CASE commandMQ' = [commandMQ EXCEPT ![s] = {NoCommand}] /\ dataMQ' = dataMQ
  <2>1. NoCommand.transfer = FALSE /\ NoCommand.read = 0
    BY DEF NoCommand
  <2>2. ExchangeOf(s)' = Commands!At("asked", "ask", 0) /\ DataOf(s)' = 0
    BY <1>2, <1>6, <1>9, <2>1 DEF Kind
  <2>3. Commands!Moves(s, Commands!At("asked", "ask", 0), 0)
    BY <1>3, <2>2, OneMoves
  <2> QED BY <1>4, <2>3 DEF Commands!Ask
<1> QED BY <1>7, <1>8, <1>9 DEF Submit

\* A client that has signalled its command waits for the same answer as before.
LEMMA SignalUnseen ==
  ASSUME Inv, NEW s \in Streams, Signal(s)
  PROVE  CommandStep
<1> USE DEF deviceVars, streamVars, closeVars, threadVars, callbackVars
<1>1. TypeOK
  BY DEF Inv
<1>2. Phase(s)' = Phase(s)
  BY <1>1 DEF Signal, Phase, TypeOK
<1>3. Matter(s)' = Matter(s)
  BY <1>2 DEF Signal, Matter, Doing, Done, Kind
<1>4. Same(s)
  BY <1>2, <1>3 DEF Signal, Same, ExchangeOf, DataOf
<1>5. \A t \in Streams : t # s => Seen(t)' = Seen(t)
  BY <1>1 DEF Signal, Seen, TypeOK
<1> QED BY <1>4, <1>5, Unseen

LEMMA CollectTakes ==
  ASSUME Inv, NEW s \in Streams, Collect(s)
  PROVE  Commands!Take(s)
<1> USE DEF deviceVars, streamVars, closeVars, threadVars, callbackVars
<1>1. TypeOK /\ Lifecycle(s) /\ Exchange(s)
  BY DEF Inv
<1>2. client[s] = "waiting" /\ close[s] = "no"
  BY <1>1 DEF Collect, Lifecycle
<1>3. Answered(s) /\ statusMQ[s] = {mStatus[s]} /\ io[s] # "hal"
  BY <1>1, <1>2 DEF Collect, Exchange, Pending, Running, Answered, Resting
<1>4. Received(s) = dataMQ[s]
  BY <1>3, ReceivesAll
<1>5. ASSUME NEW t \in Streams, t # s PROVE Same(t)
  <2>1. Seen(t)' = Seen(t)
    BY <1>1, <1>5 DEF Collect, Seen, TypeOK
  <2> QED BY <2>1, SeenSame
<1>6. Phase(s) = "answered"
  BY <1>2, <1>3 DEF Phase, Answered
<1>7. Phase(s)' = "idle"
  BY <1>1, <1>2 DEF Collect, Phase, TypeOK
<1>8. dataMQ'[s] = 0
  BY <1>1, <1>4 DEF Collect, TypeOK
<1>9. ExchangeOf(s)' = Commands!Idle /\ DataOf(s)' = 0
  BY <1>7, <1>8 DEF ExchangeOf, DataOf, Matter, Commands!Idle, Commands!At
<1>10. Commands!Moves(s, Commands!Idle, 0)
  BY <1>5, <1>9, OneMoves
<1> QED BY <1>6, <1>10 DEF Commands!Take, Commands!Is, ExchangeOf

\* After its last command the client leaves the stream, with close() or without.
LEMMA LeavingCloses ==
  ASSUME Inv, NEW s \in Streams, client[s] = "idle", close[s] = "no", Phase(s)' = "over",
         \A t \in Streams : t # s => Seen(t)' = Seen(t)
  PROVE  Commands!Close(s)
<1>1. \A t \in Streams : t # s => Same(t)
  BY SeenSame
<1>2. ExchangeOf(s)' = Commands!Over /\ DataOf(s)' = 0
  BY DEF ExchangeOf, DataOf, Matter, Commands!Over, Commands!At
<1>3. Commands!Moves(s, Commands!Over, 0)
  BY <1>1, <1>2, OneMoves
<1>4. Commands!Is(s, "idle")
  BY DEF Phase, Commands!Is, ExchangeOf
<1> QED BY <1>3, <1>4 DEF Commands!Close

\* A stream without a client, before and after a step.
LEMMA OverStaysOver ==
  ASSUME NEW s \in Streams, Phase(s) = "over", Phase(s)' = "over"
  PROVE  Same(s)
BY DEF Same, ExchangeOf, DataOf, Matter

LEMMA ReleaseCloses ==
  ASSUME Inv, NEW s \in Streams, Release(s)
  PROVE  Commands!Close(s) \/ CommandStep
<1> USE DEF deviceVars, streamVars, closeVars, threadVars, queueVars, callbackVars
<1>1. TypeOK
  BY DEF Inv
<1>2. \A t \in Streams : t # s => Seen(t)' = Seen(t)
  BY <1>1 DEF Release, Seen, TypeOK
<1>3. client[s] = "idle" /\ Phase(s)' = "over"
  BY <1>1 DEF Release, Phase, TypeOK
<1>4. CASE close[s] = "no"
  BY <1>2, <1>3, <1>4, LeavingCloses
<1>5. CASE close[s] # "no"
  <2>1. Phase(s) = "over"
    BY <1>3, <1>5 DEF Phase
  <2> QED BY <1>2, <1>3, <2>1, OverStaysOver, Unseen
<1> QED BY <1>4, <1>5

LEMMA CloseCloses ==
  ASSUME Inv, NEW s \in Streams, CloseStream(s)
  PROVE  Commands!Close(s)
<1> USE DEF deviceVars, streamVars, threadVars, queueVars, callbackVars, clientVars
<1>1. TypeOK /\ Lifecycle(s)
  BY DEF Inv
<1>2. \A t \in Streams : t # s => Seen(t)' = Seen(t)
  BY <1>1 DEF CloseStream, StopThread, Seen, TypeOK
<1>3. client[s] = "idle" /\ close[s] = "no" /\ Phase(s)' = "over"
  BY <1>1 DEF CloseStream, StopThread, Phase, TypeOK, Lifecycle
<1> QED BY <1>2, <1>3, LeavingCloses

LEMMA DyingAbandons ==
  ASSUME Inv, ClientDies
  PROVE  Commands!Die
<1> USE DEF streamVars, closeVars, threadVars, queueVars, callbackVars
<1> DEFINE dead == {s \in Streams : client[s] \notin {"none", "released"}}
<1>1. TypeOK
  BY DEF Inv
<1>2. ASSUME NEW s \in dead PROVE Phase(s) # "new" /\ Phase(s)' = "over"
  BY <1>1, <1>2 DEF ClientDies, Phase, TypeOK
<1>3. ASSUME NEW s \in Streams, s \notin dead PROVE Same(s)
  <2>1. Seen(s)' = Seen(s)
    BY <1>1, <1>3 DEF ClientDies, Seen, TypeOK
  <2> QED BY <2>1, SeenSame
<1>4. \A s \in dead : ExchangeOf(s)' = Commands!Over /\ DataOf(s)' = 0
  BY <1>2 DEF ExchangeOf, DataOf, Matter, Commands!Over, Commands!At
<1>5. \A s \in dead : ~Commands!Is(s, "new")
  BY <1>2 DEF Commands!Is, ExchangeOf
<1>6. dead \in SUBSET Streams
  OBVIOUS
<1> HIDE DEF dead
<1>7. [s \in Streams |-> ExchangeOf(s)]' =
        [s \in Streams |-> IF s \in dead THEN Commands!Over
                           ELSE [t \in Streams |-> ExchangeOf(t)][s]]
  BY <1>3, <1>4 DEF Same
<1>8. [s \in Streams |-> DataOf(s)]' =
        [s \in Streams |-> IF s \in dead THEN 0 ELSE [t \in Streams |-> DataOf(t)][s]]
  BY <1>3, <1>4 DEF Same
<1> QED BY <1>5, <1>6, <1>7, <1>8 DEF Commands!Die

LEMMA ReadBegins ==
  ASSUME Inv, NEW s \in Streams, ReadCommand(s)
  PROVE  Commands!Begin(s) \/ CommandStep
<1> USE DEF deviceVars, streamVars, closeVars, callbackVars, clientVars
<1>1. TypeOK /\ Exchange(s)
  BY DEF Inv
<1>2. \A t \in Streams : t # s => Seen(t)' = Seen(t)
  BY <1>1 DEF ReadCommand, Seen, TypeOK
<1>3. CASE commandMQ[s] = {}
  <2>1. Seen(s)' = Seen(s)
    BY <1>1, <1>3 DEF ReadCommand, Seen, TypeOK
  <2> QED BY <1>2, <2>1, SeenSame, Unseen
<1>4. CASE commandMQ[s] # {} /\ client[s] = "dead"
  <2>1. Phase(s) = "over" /\ Phase(s)' = "over"
    BY <1>4 DEF ReadCommand, Phase
  <2> QED BY <1>2, <2>1, OverStaysOver, Unseen
<1>5. CASE commandMQ[s] # {} /\ client[s] # "dead"
  <2>1. client[s] \in {"submitted", "waiting"} /\ Pending(s)
    BY <1>1, <1>5 DEF TypeOK, Exchange, Drained, Running, Answered
  <2>2. PICK c \in commandMQ[s] :
          /\ command' = [command EXCEPT ![s] = c]
          /\ commandMQ' = [commandMQ EXCEPT ![s] = {}]
          /\ io' = [io EXCEPT ![s] = "hal"]
    BY <1>5 DEF ReadCommand
  <2>3. (CHOOSE d \in commandMQ[s] : TRUE) = c
    BY <2>1, <2>2 DEF Pending
  <2>4. Phase(s) = "asked" /\ Phase(s)' = "working"
    BY <1>1, <1>5, <2>1, <2>2 DEF ReadCommand, Phase, TypeOK
  <2>5. command'[s] = c /\ dataMQ' = dataMQ /\ outputs' = outputs
    BY <1>1, <2>2 DEF ReadCommand, TypeOK
  <2>6. Matter(s)' = Matter(s)
    BY <2>3, <2>4, <2>5 DEF Matter, Doing, Kind
  <2>7. /\ ExchangeOf(s)' = [ExchangeOf(s) EXCEPT !.phase = "working"]
        /\ DataOf(s)' = DataOf(s)
    BY <2>4, <2>5, <2>6 DEF ExchangeOf, DataOf
  <2>8. \A t \in Streams : t # s => Same(t)
    BY <1>2, SeenSame
  <2>9. Commands!Moves(s, [ExchangeOf(s) EXCEPT !.phase = "working"], DataOf(s))
    BY <2>7, <2>8, OneMoves
  <2>10. Commands!Is(s, "asked")
    BY <2>4 DEF Commands!Is, ExchangeOf
  <2> QED BY <2>9, <2>10 DEF Commands!Begin
<1> QED BY <1>3, <1>4, <1>5

\* An outcome is about the command that was carried out, and within what it asked or offered.
LEMMA OutcomeAmount ==
  ASSUME TypeOK, NEW s \in Streams, NEW outcome \in Outcomes(s)
  PROVE  /\ outcome[1].replyTo = command[s]
         /\ (IF outcome[1].ok THEN outcome[1].count ELSE 0) \in 0 .. Doing(s, command[s]).amount
<1>1. command[s].read \in Nat /\ dataMQ[s] \in Nat /\ capacity[s] \in Nat
  BY BoundsAssumption DEF TypeOK, Command
<1>2. CASE ~command[s].transfer
  BY <1>1, <1>2 DEF Outcomes, DoAsk, Answer, Doing
<1>3. CASE command[s].transfer /\ s \in outputs
  BY <1>1, <1>3 DEF Outcomes, DoWrite, Answer, Doing
<1>4. CASE command[s].transfer /\ s \notin outputs
  <2> DEFINE most == IF command[s].read > capacity[s] - dataMQ[s] THEN capacity[s] - dataMQ[s]
                     ELSE command[s].read
  <2>1. outcome \in {<<Answer(s, TRUE, n), dataMQ[s] + n>> : n \in 0 .. most}
                      \cup {<<Answer(s, FALSE, mStatus[s].count), dataMQ[s]>>}
    BY <1>4 DEF Outcomes, DoRead
  <2>2. \A n \in 0 .. most : n \in 0 .. command[s].read
    BY <1>1
  <2>3. Doing(s, command[s]).amount = command[s].read
    BY <1>4 DEF Doing
  <2> HIDE DEF most
  <2>4. CASE outcome \in {<<Answer(s, TRUE, n), dataMQ[s] + n>> : n \in 0 .. most}
    <3>1. PICK n \in 0 .. most : outcome = <<Answer(s, TRUE, n), dataMQ[s] + n>>
      BY <2>4
    <3>2. outcome[1].replyTo = command[s] /\ outcome[1].ok /\ outcome[1].count = n
      BY <3>1 DEF Answer
    <3> QED BY <2>2, <2>3, <3>2
  <2>5. CASE outcome = <<Answer(s, FALSE, mStatus[s].count), dataMQ[s]>>
    <3>1. outcome[1].replyTo = command[s] /\ ~outcome[1].ok
      BY <2>5 DEF Answer
    <3> QED BY <1>1, <2>3, <3>1
  <2> QED BY <2>1, <2>4, <2>5
<1> QED BY <1>2, <1>3, <1>4

LEMMA HalAnswers ==
  ASSUME Inv, NEW s \in Streams, HalReturns(s)
  PROVE  Commands!Answer(s) \/ CommandStep
<1> USE DEF deviceVars, streamVars, closeVars, callbackVars, clientVars
<1>1. TypeOK /\ Exchange(s)
  BY DEF Inv
<1>2. \A t \in Streams : t # s => Seen(t)' = Seen(t)
  BY <1>1 DEF HalReturns, Seen, TypeOK
<1>3. CASE client[s] = "dead"
  <2>1. Phase(s) = "over" /\ Phase(s)' = "over"
    BY <1>3 DEF HalReturns, Phase
  <2> QED BY <1>2, <2>1, OverStaysOver, Unseen
<1>4. CASE client[s] # "dead"
  <2>1. client[s] \in {"submitted", "waiting"} /\ Running(s)
    BY <1>1, <1>4 DEF HalReturns, TypeOK, Exchange, Drained, Pending, Answered, Resting
  <2>2. PICK outcome \in Outcomes(s) :
          mStatus' = [mStatus EXCEPT ![s] = outcome[1]] /\ dataMQ' = [dataMQ EXCEPT ![s] = outcome[2]]
    BY DEF HalReturns
  <2>3. mStatus'[s] = outcome[1] /\ dataMQ'[s] = outcome[2] /\ statusMQ' = statusMQ
        /\ commandMQ' = commandMQ /\ outputs' = outputs /\ client' = client /\ io'[s] = "reply"
    BY <1>1, <2>2 DEF HalReturns, TypeOK
  <2>4. Phase(s) = "working" /\ Phase(s)' = "answered"
    BY <1>1, <2>1, <2>3 DEF HalReturns, Phase, Running
  <2> DEFINE n == IF outcome[1].ok THEN outcome[1].count ELSE 0
  <2>5. outcome[1].replyTo = command[s] /\ n \in 0 .. Doing(s, command[s]).amount
    BY <1>1, OutcomeAmount
  <2>6. Announces(s, outcome)
    BY <1>1, <2>1, OutcomeData
  <2>7. Matter(s) = Doing(s, command[s])
    BY <2>4 DEF Matter
  <2>8. Matter(s)' = [kind |-> Kind(s, command[s].transfer), amount |-> n]
    BY <2>1, <2>3, <2>4, <2>5 DEF Matter, Done, Kind, Running
  <2>9. outcome[2] = IF Kind(s, command[s].transfer) = "read" THEN n ELSE 0
    BY <2>5, <2>6 DEF Announces, Kind
  <2> HIDE DEF n
  <2>10. Matter(s).kind = Kind(s, command[s].transfer) /\ n \in 0 .. Matter(s).amount
    BY <2>5, <2>7 DEF Doing
  <2>11. /\ ExchangeOf(s)' = Commands!At("answered", ExchangeOf(s).kind, n)
         /\ DataOf(s)' = IF ExchangeOf(s).kind = "read" THEN n ELSE 0
    <3>1. ExchangeOf(s).kind = Kind(s, command[s].transfer)
      BY <2>10 DEF ExchangeOf
    <3>2. ExchangeOf(s)' = Commands!At("answered", ExchangeOf(s).kind, n)
      BY <2>4, <2>8, <3>1 DEF ExchangeOf, Commands!At
    <3> QED BY <2>3, <2>4, <2>9, <3>1, <3>2 DEF DataOf
  <2>12. \A t \in Streams : t # s => Same(t)
    BY <1>2, SeenSame
  <2>13. Commands!Moves(s, Commands!At("answered", ExchangeOf(s).kind, n),
                        IF ExchangeOf(s).kind = "read" THEN n ELSE 0)
    BY <2>11, <2>12, OneMoves
  <2>14. Commands!Is(s, "working") /\ n \in 0 .. ExchangeOf(s).amount
    BY <2>4, <2>10 DEF Commands!Is, ExchangeOf
  <2> QED BY <2>13, <2>14 DEF Commands!Answer
<1> QED BY <1>3, <1>4

\* What the client finds in the status queue is what the legacy HAL has answered.
LEMMA ReplyUnseen ==
  ASSUME Inv, NEW s \in Streams, Reply(s)
  PROVE  CommandStep
<1> USE DEF deviceVars, streamVars, closeVars, callbackVars, clientVars
<1>1. TypeOK /\ Exchange(s)
  BY DEF Inv
<1>2. \A t \in Streams : t # s => Seen(t)' = Seen(t)
  BY <1>1 DEF Reply, Seen, TypeOK
<1>3. CASE client[s] = "dead"
  <2>1. Phase(s) = "over" /\ Phase(s)' = "over"
    BY <1>3 DEF Reply, Phase
  <2> QED BY <1>2, <2>1, OverStaysOver, Unseen
<1>4. CASE client[s] # "dead"
  <2>1. client[s] \in {"submitted", "waiting"} /\ commandMQ[s] = {} /\ statusMQ[s] = {}
    BY <1>1, <1>4 DEF Reply, TypeOK, Exchange, Drained, Pending, Running, Answered, Resting
  <2>2. statusMQ'[s] = {mStatus[s]} /\ io'[s] = "wake"
    BY <1>1, <2>1 DEF Reply, TypeOK
  <2>3. Phase(s) = "answered" /\ Phase(s)' = "answered"
    BY <2>1, <2>2 DEF Reply, Phase
  <2>4. (CHOOSE st \in statusMQ'[s] : TRUE) = mStatus[s]
    BY <2>2
  <2>5. Matter(s)' = Matter(s)
    BY <2>1, <2>2, <2>3, <2>4 DEF Reply, Matter, Done, Kind
  <2>6. Same(s)
    BY <2>3, <2>5 DEF Reply, Same, ExchangeOf, DataOf
  <2> QED BY <1>2, <2>6, Unseen
<1> QED BY <1>3, <1>4

LEMMA DestructorUnseen ==
  ASSUME Inv, NEW s \in Streams, BeginDestructor(s)
  PROVE  CommandStep
<1> USE DEF deviceVars, threadVars, queueVars, callbackVars, clientVars
<1>1. TypeOK
  BY DEF Inv
<1>2. \A t \in Streams : t # s => Seen(t)' = Seen(t)
  BY <1>1 DEF BeginDestructor, StopThread, Seen, TypeOK
<1>3. Phase(s) = "over" /\ Phase(s)' = "over"
  BY DEF BeginDestructor, Phase
<1> QED BY <1>2, <1>3, OverStaysOver, Unseen

LEMMA CommandsStep == Inv /\ [Next]_vars => CommandStep
<1> SUFFICES ASSUME Inv, TypeOK, [Next]_vars PROVE CommandStep
  BY DEF Inv
<1> USE DEF TypeOK, Seen, deviceVars, streamVars, closeVars, threadVars, queueVars, callbackVars,
       clientVars
<1> DEFINE Unchanged == \A t \in Streams : Seen(t)' = Seen(t)
<1>0. Unchanged => CommandStep
  BY SeenSame, NothingMoves
<1>1. ASSUME NEW s \in Streams, NEW b \in BOOLEAN, OpenStream(s, b) PROVE CommandStep
  BY <1>1, OpensIdle DEF CommandStep, Commands!Next
<1>2. ASSUME NEW s \in Streams, NEW n \in 0 .. MaxSize, NEW k \in 0 .. MaxSize, Prepare(s, n, k)
     PROVE CommandStep
  <2>1. Lifecycle(s) /\ Exchange(s) /\ io[s] # "hal"
    BY <1>2 DEF Inv, Prepare, Exchange, Drained
  <2>2. Unchanged
    BY <1>2, <2>1 DEF Prepare
  <2> QED BY <1>0, <2>2
<1>3. ASSUME NEW s \in Streams, Submit(s) PROVE CommandStep
  BY <1>3, SubmitAsks DEF CommandStep, Commands!Next
<1>4. ASSUME NEW s \in Streams, Signal(s) PROVE CommandStep
  BY <1>4, SignalUnseen
<1>5. ASSUME NEW s \in Streams, Collect(s) PROVE CommandStep
  BY <1>5, CollectTakes DEF CommandStep, Commands!Next
<1>6. ASSUME NEW s \in Streams, Release(s) PROVE CommandStep
  BY <1>6, ReleaseCloses DEF CommandStep, Commands!Next
<1>7. ASSUME DropDevice PROVE CommandStep
  BY <1>0, <1>7 DEF DropDevice
<1>8. ASSUME ClientDies PROVE CommandStep
  BY <1>8, DyingAbandons DEF CommandStep, Commands!Next
<1>9. ASSUME NEW s \in Streams, CheckStop(s) PROVE CommandStep
  BY <1>0, <1>9 DEF CheckStop
<1>10. ASSUME NEW s \in Streams, WaitReturns(s) PROVE CommandStep
  BY <1>0, <1>10 DEF WaitReturns
<1>11. ASSUME NEW s \in Streams, WaitInterrupted(s) PROVE CommandStep
  BY <1>0, <1>11 DEF WaitInterrupted
<1>12. ASSUME NEW s \in Streams, ReadCommand(s) PROVE CommandStep
  BY <1>12, ReadBegins DEF CommandStep, Commands!Next
<1>13. ASSUME NEW s \in Streams, HalReturns(s) PROVE CommandStep
  BY <1>13, HalAnswers DEF CommandStep, Commands!Next
<1>14. ASSUME NEW s \in Streams, Reply(s) PROVE CommandStep
  BY <1>14, ReplyUnseen
<1>15. ASSUME NEW s \in Streams, WakeClient(s) PROVE CommandStep
  BY <1>0, <1>15 DEF WakeClient
<1>16. ASSUME NEW s \in Streams, SetCallback(s) PROVE CommandStep
  BY <1>0, <1>16 DEF SetCallback
<1>17. ASSUME NEW s \in Streams, ClearCallback(s) PROVE CommandStep
  BY <1>0, <1>17 DEF ClearCallback
<1>18. ASSUME NEW s \in Streams, AsyncCallback(s) PROVE CommandStep
  BY <1>0, <1>18 DEF AsyncCallback
<1>19. ASSUME NEW s \in Streams, CallbackReturns(s) PROVE CommandStep
  BY <1>0, <1>19 DEF CallbackReturns
<1>20. ASSUME NEW s \in Streams, CloseStream(s) PROVE CommandStep
  BY <1>20, CloseCloses DEF CommandStep, Commands!Next
<1>21. ASSUME NEW s \in Streams, CloseWakes(s) PROVE CommandStep
  BY <1>0, <1>21 DEF CloseWakes
<1>22. ASSUME NEW s \in Streams, CloseHalStream(s) PROVE CommandStep
  BY <1>0, <1>22 DEF CloseHalStream
<1>23. ASSUME NEW s \in Streams, BeginDestructor(s) PROVE CommandStep
  BY <1>23, DestructorUnseen
<1>24. ASSUME NEW s \in Streams, EndDestructor(s) PROVE CommandStep
  BY <1>0, <1>24 DEF EndDestructor
<1>25. ASSUME CloseDevice PROVE CommandStep
  BY <1>0, <1>25 DEF CloseDevice, DoClose
<1>26. ASSUME DestroyDevice PROVE CommandStep
  BY <1>0, <1>26 DEF DestroyDevice, DoClose
<1>27. ASSUME UNCHANGED vars PROVE CommandStep
  BY <1>0, <1>27 DEF vars
<1> HIDE DEF TypeOK, Seen, deviceVars, streamVars, closeVars, threadVars, queueVars, callbackVars,
       clientVars
<1> QED BY <1>1, <1>2, <1>3, <1>4, <1>5, <1>6, <1>7, <1>8, <1>9, <1>10, <1>11, <1>12, <1>13,
       <1>14, <1>15, <1>16, <1>17, <1>18, <1>19, <1>20, <1>21, <1>22, <1>23, <1>24, <1>25,
       <1>26, <1>27 DEF Next, IoThread, Service, PrepareForWriting, PrepareForReading

\* For any streams, commands and failures of the legacy HAL, and whenever a client dies: what a
\* client of a stream sees is a behaviour of CommandExchange. Its command is carried out once;
\* the answer is about this command and announces no more than was asked for or offered; and
\* nothing of it is left for the next (StreamOut.cpp:87-147, StreamIn.cpp:84-147).
THEOREM ImplementsCommandExchange == Spec => CommandsSpec
<1>1. Init => Commands!Init
  <2> SUFFICES ASSUME Init PROVE Commands!Init
    OBVIOUS
  <2>1. \A s \in Streams : ExchangeOf(s) = Commands!New /\ DataOf(s) = 0
    BY DEF Init, ExchangeOf, DataOf, Phase, Matter, Commands!New, Commands!At
  <2> QED BY <2>1 DEF Commands!Init
<1>2. Inv /\ [Next]_vars => [Commands!Next]_(Commands!vars)
  BY CommandsStep DEF CommandStep
<1> QED BY <1>1, <1>2, Invariant, PTL DEF Spec, CommandsSpec, Commands!Spec
=============================================================================
