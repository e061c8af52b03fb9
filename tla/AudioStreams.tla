----------------------------- MODULE AudioStreams -----------------------------
(***************************************************************************)
(* The audio HAL service (audio/impl, interface version 7.1): a Device, its *)
(* output and input streams, the thread each stream starts to serve its     *)
(* message queues, the legacy HAL below and the client above.              *)
(*                                                                         *)
(* A client and the I/O thread of a stream share three queues and one word  *)
(* of event flags. An output stream's thread waits for NOT_EMPTY and        *)
(* answers with NOT_FULL, an input stream's thread the other way round. A   *)
(* step is one access to what they share. Calls through the binder come     *)
(* from the client one at a time, except that the client may die at any     *)
(* point. Amounts of data are in units of one GiB, the unit of the limit    *)
(* on buffers.                                                             *)
(***************************************************************************)
EXTENDS Naturals, FiniteSets

CONSTANTS
  Streams,      \* streams the client may open
  MaxSize,      \* bound on the frame sizes and counts the client asks for
  MaxCommands   \* bound on the commands sent to each stream

ASSUME StreamsAssumption == IsFiniteSet(Streams)
ASSUME BoundsAssumption == MaxSize \in Nat /\ MaxCommands \in Nat

VARIABLES
  deviceRef,     \* the client holds the IPrimaryDevice
  mIsClosed,
  mOpenedStreamsCount,
  halDevice,     \* the legacy device: "open" or "closed"
  object,        \* the StreamOut or StreamIn object
  outputs,       \* the streams opened as output streams
  mStop,         \* mStopWriteThread, mStopReadThread
  halStream,     \* the legacy stream
  capacity,      \* size of mDataMQ, 0 before prepareForWriting or prepareForReading
  io,            \* where the I/O thread is
  command,       \* the command it carries out
  mStatus,       \* its answer
  efWord,        \* the event flag word in shared memory
  commandMQ, dataMQ, statusMQ,
  client,        \* what the client's thread for this stream does
  close,         \* progress of a call of close()
  mCallback,     \* a callback is set
  callback,      \* the legacy HAL's callback thread
  sent           \* commands sent so far

deviceVars == <<deviceRef, mIsClosed, halDevice>>
streamVars == <<mOpenedStreamsCount, object, outputs, halStream>>
closeVars == <<mStop, close>>
threadVars == <<io, command, mStatus>>
queueVars == <<efWord, commandMQ, dataMQ, statusMQ>>
callbackVars == <<mCallback, callback>>
clientVars == <<client, sent>>
vars == <<deviceVars, streamVars, closeVars, threadVars, queueVars, callbackVars, clientVars,
          capacity>>

\* 2 << 30 bytes.
MAX_BUFFER_SIZE == 2

\* WRITE and READ transfer data, the other commands only ask. A command that nobody knows is
\* answered with NOT_SUPPORTED, like a question the legacy HAL cannot answer.
Command == [transfer : BOOLEAN, read : 0 .. MaxSize]
NoCommand == [transfer |-> FALSE, read |-> 0]
Status == [replyTo : Command, ok : BOOLEAN, count : Nat]
NoStatus == [replyTo |-> NoCommand, ok |-> FALSE, count |-> 0]

\* The command and status queues have length one: each is a set of at most one element.
Flags == {"NOT_EMPTY", "NOT_FULL"}
ThreadFlag(s) == IF s \in outputs THEN "NOT_EMPTY" ELSE "NOT_FULL"
ClientFlag(s) == IF s \in outputs THEN "NOT_FULL" ELSE "NOT_EMPTY"

TypeOK ==
  /\ deviceRef \in BOOLEAN /\ mIsClosed \in BOOLEAN
  /\ mOpenedStreamsCount \in Nat
  /\ halDevice \in {"open", "closed"}
  /\ object \in [Streams -> {"absent", "live", "dying", "gone"}]
  /\ outputs \in SUBSET Streams
  /\ mStop \in [Streams -> BOOLEAN]
  /\ halStream \in [Streams -> {"none", "open", "closed"}]
  /\ capacity \in [Streams -> 0 .. MAX_BUFFER_SIZE]
  /\ io \in [Streams -> {"none", "check", "wait", "read", "hal", "reply", "wake", "exited"}]
  /\ command \in [Streams -> Command]
  /\ mStatus \in [Streams -> Status]
  /\ efWord \in [Streams -> SUBSET Flags]
  /\ commandMQ \in [Streams -> SUBSET Command]
  /\ dataMQ \in [Streams -> Nat]
  /\ statusMQ \in [Streams -> SUBSET Status]
  /\ client \in [Streams -> {"none", "idle", "submitted", "waiting", "released", "dead"}]
  /\ close \in [Streams -> {"no", "stopped", "woken", "done"}]
  /\ mCallback \in [Streams -> BOOLEAN]
  /\ callback \in [Streams -> {"idle", "calling"}]
  /\ sent \in [Streams -> 0 .. MaxCommands]

Init ==
  /\ deviceRef = TRUE /\ mIsClosed = FALSE /\ halDevice = "open"
  /\ mOpenedStreamsCount = 0
  /\ object = [s \in Streams |-> "absent"]
  /\ outputs = {}
  /\ mStop = [s \in Streams |-> FALSE]
  /\ halStream = [s \in Streams |-> "none"]
  /\ capacity = [s \in Streams |-> 0]
  /\ io = [s \in Streams |-> "none"]
  /\ command = [s \in Streams |-> NoCommand]
  /\ mStatus = [s \in Streams |-> NoStatus]
  /\ efWord = [s \in Streams |-> {}]
  /\ commandMQ = [s \in Streams |-> {}]
  /\ dataMQ = [s \in Streams |-> 0]
  /\ statusMQ = [s \in Streams |-> {}]
  /\ client = [s \in Streams |-> "none"]
  /\ close = [s \in Streams |-> "no"]
  /\ mCallback = [s \in Streams |-> FALSE]
  /\ callback = [s \in Streams |-> "idle"]
  /\ sent = [s \in Streams |-> 0]

-----------------------------------------------------------------------------
(* The client. It speaks to the binder from one thread per stream and waits for the answer to *)
(* a command before it does anything else with the stream. *)

\* openOutputStream and openInputStream. A client does not use a device that it has closed.
OpenStream(s, isOutput) ==
  /\ deviceRef /\ ~mIsClosed /\ object[s] = "absent"
  /\ outputs' = IF isOutput THEN outputs \cup {s} ELSE outputs
  /\ object' = [object EXCEPT ![s] = "live"]
  /\ halStream' = [halStream EXCEPT ![s] = "open"]
  /\ mOpenedStreamsCount' = mOpenedStreamsCount + 1
  /\ client' = [client EXCEPT ![s] = "idle"]
  /\ UNCHANGED <<deviceVars, closeVars, threadVars, queueVars, callbackVars, sent,
                 capacity>>

\* What prepareForWriting and prepareForReading have in common. A second call, a size of zero and a buffer above the
\* limit are refused; queues or a thread that cannot be made leave everything as it was.
Prepare(s, frameSize, framesCount) ==
  /\ client[s] = "idle" /\ close[s] \in {"no", "done"}
  /\ capacity[s] = 0
  /\ frameSize # 0 /\ framesCount # 0
  /\ frameSize <= MAX_BUFFER_SIZE \div framesCount
  /\ capacity' = [capacity EXCEPT ![s] = frameSize * framesCount]
  /\ io' = [io EXCEPT ![s] = "check"]
  /\ UNCHANGED <<deviceVars, streamVars, closeVars, command, mStatus, queueVars, callbackVars,
                 clientVars>>

PrepareForWriting(s, frameSize, framesCount) == s \in outputs /\ Prepare(s, frameSize, framesCount)
PrepareForReading(s, frameSize, framesCount) == s \notin outputs /\ Prepare(s, frameSize, framesCount)

\* Output data are in the queue before the command is.
Submit(s) ==
  /\ client[s] = "idle" /\ close[s] = "no" /\ io[s] # "none"
  /\ sent[s] < MaxCommands
  /\ \/ \E n \in 1 .. capacity[s] :
          /\ s \in outputs
          /\ dataMQ' = [dataMQ EXCEPT ![s] = @ + n]
          /\ commandMQ' = [commandMQ EXCEPT ![s] = {[transfer |-> TRUE, read |-> 0]}]
     \/ \E n \in 1 .. MaxSize :
          /\ s \notin outputs
          /\ commandMQ' = [commandMQ EXCEPT ![s] = {[transfer |-> TRUE, read |-> n]}]
          /\ UNCHANGED dataMQ
     \/ /\ commandMQ' = [commandMQ EXCEPT ![s] = {NoCommand}]
        /\ UNCHANGED dataMQ
  /\ sent' = [sent EXCEPT ![s] = @ + 1]
  /\ client' = [client EXCEPT ![s] = "submitted"]
  /\ UNCHANGED <<deviceVars, streamVars, closeVars, threadVars, efWord, statusMQ, callbackVars,
                 capacity>>

Signal(s) ==
  /\ client[s] = "submitted"
  /\ efWord' = [efWord EXCEPT ![s] = @ \cup {ThreadFlag(s)}]
  /\ client' = [client EXCEPT ![s] = "waiting"]
  /\ UNCHANGED <<deviceVars, streamVars, closeVars, threadVars, commandMQ, dataMQ, statusMQ,
                 callbackVars, sent, capacity>>

\* Takes the answer and, on an input, the data it announces.
Received(s) ==
  IF s \notin outputs /\ \E st \in statusMQ[s] : st.ok /\ st.replyTo.transfer
    THEN (CHOOSE st \in statusMQ[s] : TRUE).count
    ELSE 0

Collect(s) ==
  /\ client[s] = "waiting" /\ ClientFlag(s) \in efWord[s]
  /\ efWord' = [efWord EXCEPT ![s] = @ \ {ClientFlag(s)}]
  /\ statusMQ' = [statusMQ EXCEPT ![s] = {}]
  /\ dataMQ' = [dataMQ EXCEPT ![s] = @ - Received(s)]
  /\ client' = [client EXCEPT ![s] = "idle"]
  /\ UNCHANGED <<deviceVars, streamVars, closeVars, threadVars, commandMQ, callbackVars, sent,
                 capacity>>

Release(s) ==
  /\ client[s] = "idle" /\ close[s] \in {"no", "done"}
  /\ client' = [client EXCEPT ![s] = "released"]
  /\ UNCHANGED <<deviceVars, streamVars, closeVars, threadVars, queueVars, callbackVars, sent,
                 capacity>>

DropDevice ==
  /\ deviceRef
  /\ deviceRef' = FALSE
  /\ UNCHANGED <<mIsClosed, halDevice, streamVars, closeVars, threadVars, queueVars, callbackVars,
                 clientVars, capacity>>

\* The audio server dies: the binder drops all its references.
ClientDies ==
  /\ deviceRef \/ \E s \in Streams : client[s] \notin {"none", "released", "dead"}
  /\ deviceRef' = FALSE
  /\ client' = [s \in Streams |-> IF client[s] \in {"none", "released"} THEN client[s] ELSE "dead"]
  /\ UNCHANGED <<mIsClosed, halDevice, streamVars, closeVars, threadVars, queueVars, callbackVars,
                 sent, capacity>>

-----------------------------------------------------------------------------
(* The I/O thread: WriteThread and ReadThread *)

CheckStop(s) ==
  /\ io[s] = "check"
  /\ io' = [io EXCEPT ![s] = IF mStop[s] THEN "exited" ELSE "wait"]
  /\ UNCHANGED <<deviceVars, streamVars, closeVars, command, mStatus, queueVars, callbackVars,
                 clientVars, capacity>>

WaitReturns(s) ==
  /\ io[s] = "wait" /\ ThreadFlag(s) \in efWord[s]
  /\ efWord' = [efWord EXCEPT ![s] = @ \ {ThreadFlag(s)}]
  /\ io' = [io EXCEPT ![s] = "read"]
  /\ UNCHANGED <<deviceVars, streamVars, closeVars, command, mStatus, commandMQ, dataMQ, statusMQ,
                 callbackVars, clientVars, capacity>>

\* The wait is interrupted and returns no flag. A flag that is set is found before sleeping.
WaitInterrupted(s) ==
  /\ io[s] = "wait" /\ ThreadFlag(s) \notin efWord[s]
  /\ io' = [io EXCEPT ![s] = "check"]
  /\ UNCHANGED <<deviceVars, streamVars, closeVars, command, mStatus, queueVars, callbackVars,
                 clientVars, capacity>>

\* Mutant: the command stays in the queue.
ReadKeepsCommand(s) ==
  /\ io[s] = "read"
  /\ \/ /\ commandMQ[s] = {}
        /\ io' = [io EXCEPT ![s] = "check"]
        /\ UNCHANGED command
     \/ \E c \in commandMQ[s] :
          /\ command' = [command EXCEPT ![s] = c]
          /\ io' = [io EXCEPT ![s] = "hal"]
  /\ UNCHANGED <<deviceVars, streamVars, closeVars, mStatus, queueVars, callbackVars, clientVars,
                 capacity>>

ReadCommand(s) ==
  /\ io[s] = "read"
  /\ \/ /\ commandMQ[s] = {}
        /\ io' = [io EXCEPT ![s] = "check"]
        /\ UNCHANGED <<command, commandMQ>>
     \/ \E c \in commandMQ[s] :
          /\ command' = [command EXCEPT ![s] = c]
          /\ commandMQ' = [commandMQ EXCEPT ![s] = {}]
          /\ io' = [io EXCEPT ![s] = "hal"]
  /\ UNCHANGED <<deviceVars, streamVars, closeVars, mStatus, efWord, dataMQ, statusMQ,
                 callbackVars, clientVars, capacity>>

Answer(s, ok, count) == [replyTo |-> command[s], ok |-> ok, count |-> count]

\* Mutant: what the legacy HAL did not accept stays in the queue.
WriteKeepsRest(s) ==
  {<<Answer(s, TRUE, n), dataMQ[s] - n>> : n \in 0 .. dataMQ[s]} \cup {<<Answer(s, FALSE, 0), 0>>}

\* What an operation of the legacy HAL may come to: the answer, and the data queue after it.
\* All that the client has put into the queue is taken out; the legacy HAL may accept less.
DoWrite(s) ==
  {<<Answer(s, TRUE, n), 0>> : n \in 0 .. dataMQ[s]} \cup {<<Answer(s, FALSE, 0), 0>>}

\* Mutant: all the space in the queue is filled, whatever the request.
ReadFillsQueue(s) ==
  LET space == capacity[s] - dataMQ[s]
  IN {<<Answer(s, TRUE, n), dataMQ[s] + n>> : n \in 0 .. space}
       \cup {<<Answer(s, FALSE, mStatus[s].count), dataMQ[s]>>}

\* The request is cut to the space in the queue. A failed read leaves the old count in the answer.
DoRead(s) ==
  LET space == capacity[s] - dataMQ[s]
      requestedToRead == IF command[s].read > space THEN space ELSE command[s].read
  IN {<<Answer(s, TRUE, n), dataMQ[s] + n>> : n \in 0 .. requestedToRead}
       \cup {<<Answer(s, FALSE, mStatus[s].count), dataMQ[s]>>}

\* Latency, presentation and capture position, unknown commands.
DoAsk(s) == {<<Answer(s, ok, 0), dataMQ[s]>> : ok \in BOOLEAN}

Outcomes(s) ==
  IF ~command[s].transfer THEN DoAsk(s) ELSE IF s \in outputs THEN DoWrite(s) ELSE DoRead(s)

\* Mutant: a failure is not answered.
FailureUnanswered(s) ==
  /\ io[s] = "hal"
  /\ \E outcome \in Outcomes(s) :
       /\ mStatus' = [mStatus EXCEPT ![s] = outcome[1]]
       /\ dataMQ' = [dataMQ EXCEPT ![s] = outcome[2]]
       /\ io' = [io EXCEPT ![s] = IF outcome[1].ok THEN "reply" ELSE "check"]
  /\ UNCHANGED <<deviceVars, streamVars, closeVars, command, efWord, commandMQ, statusMQ,
                 callbackVars, clientVars, capacity>>

HalReturns(s) ==
  /\ io[s] = "hal"
  /\ \E outcome \in Outcomes(s) :
       /\ mStatus' = [mStatus EXCEPT ![s] = outcome[1]]
       /\ dataMQ' = [dataMQ EXCEPT ![s] = outcome[2]]
  /\ io' = [io EXCEPT ![s] = "reply"]
  /\ UNCHANGED <<deviceVars, streamVars, closeVars, command, efWord, commandMQ, statusMQ,
                 callbackVars, clientVars, capacity>>

\* A full queue refuses the answer.
Reply(s) ==
  /\ io[s] = "reply"
  /\ statusMQ' = [statusMQ EXCEPT ![s] = IF @ = {} THEN {mStatus[s]} ELSE @]
  /\ io' = [io EXCEPT ![s] = "wake"]
  /\ UNCHANGED <<deviceVars, streamVars, closeVars, command, mStatus, efWord, commandMQ, dataMQ,
                 callbackVars, clientVars, capacity>>

WakeClient(s) ==
  /\ io[s] = "wake"
  /\ efWord' = [efWord EXCEPT ![s] = @ \cup {ClientFlag(s)}]
  /\ io' = [io EXCEPT ![s] = "check"]
  /\ UNCHANGED <<deviceVars, streamVars, closeVars, command, mStatus, commandMQ, dataMQ, statusMQ,
                 callbackVars, clientVars, capacity>>

IoThread(s) ==
  CheckStop(s) \/ WaitReturns(s) \/ ReadCommand(s) \/ HalReturns(s) \/ Reply(s) \/ WakeClient(s)

-----------------------------------------------------------------------------
(* Callbacks of an output stream. They run on a thread of the legacy HAL, which the legacy HAL *)
(* stops and joins when it closes the stream. *)

SetCallback(s) ==
  /\ s \in outputs /\ client[s] = "idle" /\ close[s] = "no" /\ ~mCallback[s]
  /\ mCallback' = [mCallback EXCEPT ![s] = TRUE]
  /\ UNCHANGED <<deviceVars, streamVars, closeVars, threadVars, queueVars, callback, clientVars,
                 capacity>>

ClearCallback(s) ==
  /\ client[s] = "idle" /\ close[s] = "no" /\ mCallback[s]
  /\ mCallback' = [mCallback EXCEPT ![s] = FALSE]
  /\ UNCHANGED <<deviceVars, streamVars, closeVars, threadVars, queueVars, callback, clientVars,
                 capacity>>

AsyncCallback(s) ==
  /\ halStream[s] = "open" /\ close[s] # "woken"
  /\ callback[s] = "idle" /\ mCallback[s]
  /\ callback' = [callback EXCEPT ![s] = "calling"]
  /\ UNCHANGED <<deviceVars, streamVars, closeVars, threadVars, queueVars, mCallback, clientVars,
                 capacity>>

CallbackReturns(s) ==
  /\ callback[s] = "calling"
  /\ callback' = [callback EXCEPT ![s] = "idle"]
  /\ UNCHANGED <<deviceVars, streamVars, closeVars, threadVars, queueVars, mCallback, clientVars,
                 capacity>>

-----------------------------------------------------------------------------
(* Closing: called by the client, or else by the destructor. *)

StopThread(s) ==
  /\ mStop' = [mStop EXCEPT ![s] = TRUE]
  /\ close' = [close EXCEPT ![s] = "stopped"]

CloseStream(s) ==
  /\ client[s] = "idle" /\ ~mStop[s]
  /\ StopThread(s)
  /\ UNCHANGED <<deviceVars, streamVars, threadVars, queueVars, callbackVars, clientVars,
                 capacity>>

\* Mutant: the thread is left asleep.
CloseWithoutWake(s) ==
  /\ close[s] = "stopped"
  /\ close' = [close EXCEPT ![s] = "woken"]
  /\ UNCHANGED <<deviceVars, streamVars, mStop, threadVars, queueVars, callbackVars, clientVars,
                 capacity>>

CloseWakes(s) ==
  /\ close[s] = "stopped"
  /\ efWord' = [efWord EXCEPT ![s] = IF capacity[s] = 0 THEN @ ELSE @ \cup {ThreadFlag(s)}]
  /\ close' = [close EXCEPT ![s] = "woken"]
  /\ UNCHANGED <<deviceVars, streamVars, mStop, threadVars, commandMQ, dataMQ, statusMQ,
                 callbackVars, clientVars, capacity>>

\* closeOutputStream and closeInputStream. The legacy HAL waits for its callback thread.
CloseHalStream(s) ==
  /\ close[s] = "woken" /\ callback[s] = "idle"
  /\ halStream' = [halStream EXCEPT ![s] = "closed"]
  /\ mOpenedStreamsCount' = mOpenedStreamsCount - 1
  /\ close' = [close EXCEPT ![s] = "done"]
  /\ UNCHANGED <<deviceVars, object, outputs, mStop, threadVars, queueVars, callbackVars,
                 clientVars, capacity>>

\* The last reference is gone and no call is under way. The destructor begins with close(),
\* which does nothing when the client has called it before.
BeginDestructor(s) ==
  /\ object[s] = "live" /\ client[s] \in {"released", "dead"} /\ close[s] \in {"no", "done"}
  /\ object' = [object EXCEPT ![s] = "dying"]
  /\ IF mStop[s] THEN UNCHANGED <<mStop, close>> ELSE StopThread(s)
  /\ UNCHANGED <<deviceVars, mOpenedStreamsCount, outputs, halStream, threadVars, queueVars,
                 callbackVars, clientVars, capacity>>

\* Mutant: the destructor does not join the thread.
DestructorDoesNotJoin(s) ==
  /\ object[s] = "dying" /\ close[s] = "done"
  /\ object' = [object EXCEPT ![s] = "gone"]
  /\ mCallback' = [mCallback EXCEPT ![s] = FALSE]
  /\ UNCHANGED <<deviceVars, mOpenedStreamsCount, outputs, halStream, closeVars, threadVars,
                 queueVars, callback, clientVars, capacity>>

EndDestructor(s) ==
  /\ object[s] = "dying" /\ close[s] = "done"
  /\ io[s] \in {"none", "exited"}
  /\ object' = [object EXCEPT ![s] = "gone"]
  /\ mCallback' = [mCallback EXCEPT ![s] = FALSE]
  /\ UNCHANGED <<deviceVars, mOpenedStreamsCount, outputs, halStream, closeVars, threadVars,
                 queueVars, callback, clientVars, capacity>>

\* Mutant: open streams do not matter.
DoCloseAnyway ==
  /\ ~mIsClosed
  /\ mIsClosed' = TRUE /\ halDevice' = "closed"
  /\ UNCHANGED <<streamVars, closeVars, threadVars, queueVars, callbackVars, clientVars,
                 capacity>>

DoClose ==
  /\ ~mIsClosed /\ mOpenedStreamsCount = 0
  /\ mIsClosed' = TRUE /\ halDevice' = "closed"
  /\ UNCHANGED <<streamVars, closeVars, threadVars, queueVars, callbackVars, clientVars,
                 capacity>>

CloseDevice == deviceRef /\ DoClose /\ UNCHANGED deviceRef

\* Every stream object holds the device.
DestroyDevice ==
  /\ ~deviceRef /\ \A s \in Streams : object[s] \in {"absent", "gone"}
  /\ DoClose
  /\ UNCHANGED deviceRef

Service(s) ==
  CloseWakes(s) \/ CloseHalStream(s) \/ BeginDestructor(s) \/ EndDestructor(s)

Next ==
  \/ \E s \in Streams :
       \/ \E isOutput \in BOOLEAN : OpenStream(s, isOutput)
       \/ Submit(s) \/ Signal(s) \/ Collect(s) \/ Release(s) \/ CloseStream(s)
       \/ SetCallback(s) \/ ClearCallback(s) \/ AsyncCallback(s)
       \/ IoThread(s) \/ WaitInterrupted(s) \/ CallbackReturns(s) \/ Service(s)
       \/ \E frameSize, framesCount \in 0 .. MaxSize :
            PrepareForWriting(s, frameSize, framesCount) \/ PrepareForReading(s, frameSize, framesCount)
  \/ DropDevice \/ ClientDies \/ CloseDevice \/ DestroyDevice

Spec == Init /\ [][Next]_vars

\* Threads run, the legacy HAL returns from its calls, a client that has begun to send a command
\* goes on, and what has lost its last reference is destroyed.
FairSpec ==
  /\ Spec
  /\ \A s \in Streams :
       /\ WF_vars(IoThread(s)) /\ WF_vars(Signal(s) \/ Collect(s))
       /\ WF_vars(CallbackReturns(s)) /\ WF_vars(Service(s))
  /\ WF_vars(DestroyDevice)

-----------------------------------------------------------------------------
(* Properties *)

\* The I/O thread and the callback thread use the stream object through plain pointers: neither
\* is inside the object when its memory is given back.
NobodyOutlivesStream ==
  \A s \in Streams :
    (io[s] \notin {"none", "exited"} \/ callback[s] = "calling") => object[s] \in {"live", "dying"}

\* close() closes the legacy stream without waiting for the I/O thread. What keeps the thread
\* from using it afterwards is that a client has always got its answer before it closes; only a
\* client that died with a command under way leaves a thread inside a closed stream.
HalUsedWhileOpen ==
  \A s \in Streams : io[s] = "hal" => halStream[s] = "open" \/ client[s] = "dead"

\* Between two commands the queues hold nothing, whatever the last one came to: no stale data,
\* no second answer, and room for the next one. So the data queue never has to hold more than
\* prepareForWriting or prepareForReading made it for, whoever writes to it.
IdleMeansDrained ==
  \A s \in Streams :
    /\ client[s] = "idle" => commandMQ[s] = {} /\ statusMQ[s] = {} /\ dataMQ[s] = 0
    /\ io[s] = "reply" => statusMQ[s] = {}
    /\ dataMQ[s] <= capacity[s]

\* What a stream promises its client (CommandExchange), whatever its thread does. Where the
\* command is tells the phase: in its queue, with the legacy HAL, or answered. The answer is
\* mStatus until it is in its queue. After close(), or after its death, a client asks no more.
Phase(s) ==
  IF client[s] = "none" THEN "new"
  ELSE IF client[s] \in {"released", "dead"} THEN "over"
  ELSE IF client[s] = "idle" THEN IF close[s] = "no" THEN "idle" ELSE "over"
  ELSE IF commandMQ[s] # {} THEN "asked" ELSE IF io[s] = "hal" THEN "working" ELSE "answered"

Kind(s, transfer) == IF ~transfer THEN "ask" ELSE IF s \in outputs THEN "write" ELSE "read"
Doing(s, c) == [kind |-> Kind(s, c.transfer),
                amount |-> IF c.transfer /\ s \in outputs THEN dataMQ[s] ELSE c.read]
Done(s, st) == [kind |-> Kind(s, st.replyTo.transfer),
                amount |-> IF st.ok THEN st.count ELSE 0]

\* The command a client is waiting for, or its result.
Matter(s) ==
  IF Phase(s) = "asked" THEN Doing(s, CHOOSE c \in commandMQ[s] : TRUE)
  ELSE IF Phase(s) = "working" THEN Doing(s, command[s])
  ELSE IF Phase(s) = "answered"
    THEN Done(s, IF statusMQ[s] = {} THEN mStatus[s] ELSE CHOOSE st \in statusMQ[s] : TRUE)
  ELSE [kind |-> "ask", amount |-> 0]

ExchangeOf(s) == [phase |-> Phase(s), kind |-> Matter(s).kind, amount |-> Matter(s).amount]
DataOf(s) == IF Phase(s) \in {"new", "over"} THEN 0 ELSE dataMQ[s]

Commands == INSTANCE CommandExchange WITH
  Amounts <- (0 .. MaxSize) \cup (0 .. MAX_BUFFER_SIZE),
  exchange <- [s \in Streams |-> ExchangeOf(s)],
  data <- [s \in Streams |-> DataOf(s)]
CommandsSpec == Commands!Spec

\* The legacy device is closed after its last stream, and the count that decides on it is the
\* number of open streams, whoever closes them.
DeviceClosedLast ==
  /\ mOpenedStreamsCount = Cardinality({s \in Streams : halStream[s] = "open"})
  /\ halDevice = "closed" => \A s \in Streams : halStream[s] # "open"

\* Every command is answered, failures included, unless its client dies.
CommandAnswered == \A s \in Streams : client[s] = "waiting" ~> client[s] # "waiting"

\* Releasing a stream ends its thread and frees it, and the device is closed in the end, also
\* when the client dies half-way through a command or a call of close().
EverythingReleased ==
  /\ \A s \in Streams : object[s] = "dying" ~> object[s] = "gone"
  /\ (~deviceRef /\ \A s \in Streams : client[s] \in {"none", "released", "dead"})
       ~> halDevice = "closed"

\* The comment on MAX_BUFFER_SIZE says that a client may ask for one GiB at most.
BufferIsAtMost1GiB == \A s \in Streams : capacity[s] <= 1
=============================================================================
