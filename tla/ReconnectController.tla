------------------------- MODULE ReconnectController -------------------------
(***************************************************************************)
(* me.phh.sip.ImsReconnectController: the single worker thread that drops  *)
(* and re-creates the IMS connection, the one-slot mailbox through which   *)
(* every other thread asks it to, the generation counter that makes older  *)
(* requests stale, and the delayed retry thread.                           *)
(*                                                                         *)
(* A thread is a member of one of three pools.  Callers stand for the      *)
(* ConnectivityManager, reader and handler threads that call into the      *)
(* controller; Workers and Retriers for the threads the two `thread { }`   *)
(* blocks start.  pc[t] is the next step of t; each step is one access to  *)
(* shared memory, so every interleaving of the program is a behaviour.     *)
(* Thread.sleep is the arbitrary delay before the step that follows it.    *)
(***************************************************************************)
EXTENDS Integers, FiniteSets

CONSTANTS
  Callers,      \* threads of the rest of the program
  Workers,      \* pool of threads for startReconnectWorkerIfNeeded
  Retriers,     \* pool of threads for scheduleReconnectRetry
  Networks,     \* android.net.Network handles
  NoNetwork,    \* null: currentNetwork() before `network` is initialised, newNetwork = null
  NoRequest,    \* pendingRequest = null
  MaxInputs     \* bound on calls from outside and on failures of connect()

ASSUME PoolsAssumption ==
  /\ Callers \cap Workers = {}
  /\ Callers \cap Retriers = {}
  /\ Workers \cap Retriers = {}
ASSUME NetworkAssumption == NoNetwork \notin Networks
ASSUME InputsAssumption == MaxInputs \in Nat

Threads == Callers \cup Workers \cup Retriers

\* PendingReconnectRequest; a retry thread keeps (retryNetwork, retryGeneration)
\* in the same shape.  reason and delayMs carry no control.
Request == [network : Networks \cup {NoNetwork}, generation : Nat]

ASSUME RequestAssumption == NoRequest \notin Request

VARIABLES
  reconnecting,             \* AtomicBoolean: a worker runs
  reconnectRetryScheduled,  \* AtomicBoolean: a retry thread sleeps
  failureCount,             \* AtomicInteger
  generation,               \* AtomicInteger
  pendingRequest,           \* the mailbox, under pendingLock
  network,                  \* SipHandler.network, behind currentNetwork/setCurrentNetwork
  pc,                       \* next step of every thread
  local,                    \* the request or the retry a thread holds
  attempted,                \* history: generation of the last connect() the worker began
  inputs                    \* inputs used so far

shared == <<reconnecting, reconnectRetryScheduled, failureCount, generation,
            pendingRequest, network>>
vars == <<shared, pc, local, attempted, inputs>>

Steps ==
  {"idle",
   "store", "startWorker",                                  \* reconnectIms
   "scheduleNetwork", "scheduleGeneration", "scheduleFlag", \* scheduleReconnectRetry
   "retrySleep", "retryNetwork", "retryGeneration", "retryReconnect", "retryFinally",
   "take", "drop", "setNetwork", "checkGeneration", "checkNetwork", "connect",
   "release", "recheck"}

\* Steps of the worker's while loop and of the failConnectAndRetry it calls.
LoopSteps ==
  {"take", "drop", "setNetwork", "checkGeneration", "checkNetwork", "connect",
   "release", "scheduleNetwork", "scheduleGeneration", "scheduleFlag"}

TypeOK ==
  /\ reconnecting \in BOOLEAN
  /\ reconnectRetryScheduled \in BOOLEAN
  /\ failureCount \in Nat
  /\ generation \in Nat
  /\ pendingRequest \in Request \cup {NoRequest}
  /\ network \in Networks \cup {NoNetwork}
  /\ pc \in [Threads -> Steps]
  /\ local \in [Threads -> Request]
  /\ attempted \in Nat
  /\ inputs \in Nat

Init ==
  /\ reconnecting = FALSE
  /\ reconnectRetryScheduled = FALSE
  /\ failureCount = 0
  /\ generation = 0
  /\ pendingRequest = NoRequest
  /\ network = NoNetwork
  /\ pc = [t \in Threads |-> "idle"]
  /\ local = [t \in Threads |-> [network |-> NoNetwork, generation |-> 0]]
  /\ attempted = 0
  /\ inputs = 0

Goto(t, step) == pc' = [pc EXCEPT ![t] = step]

\* Where control returns to when a call made by t is over: out of the program,
\* to the top of the worker's loop, or to the finally of the retry thread.
AfterCall(t) ==
  IF t \in Workers THEN "take" ELSE IF t \in Retriers THEN "retryFinally" ELSE "idle"

Input == inputs < MaxInputs /\ inputs' = inputs + 1

-----------------------------------------------------------------------------
(* reconnectIms *)

\* The request is built with generation.incrementAndGet() ...
NewRequest(t, n) ==
  /\ generation' = generation + 1
  /\ local' = [local EXCEPT ![t] = [network |-> n, generation |-> generation + 1]]
  /\ Goto(t, "store")
  /\ UNCHANGED <<reconnecting, reconnectRetryScheduled, failureCount, pendingRequest,
                 network, attempted>>

\* ... and put into the mailbox afterwards, under pendingLock.
StoreRequest(t) ==
  /\ pc[t] = "store"
  /\ pendingRequest' = local[t]
  /\ Goto(t, "startWorker")
  /\ UNCHANGED <<reconnecting, reconnectRetryScheduled, failureCount, generation, network,
                 local, attempted, inputs>>

\* startReconnectWorkerIfNeeded, called by reconnectIms or by the finally of a worker.
LoseWorkerFlag(t) ==
  /\ pc[t] = "startWorker"
  /\ reconnecting
  /\ Goto(t, IF t \in Workers THEN "idle" ELSE AfterCall(t))
  /\ UNCHANGED <<shared, local, attempted, inputs>>

\* Mutant: reconnecting is set without the compare of compareAndSet.
StartWorkerUnguarded(t, w) ==
  /\ pc[t] = "startWorker"
  /\ pc[w] = "idle"
  /\ reconnecting' = TRUE
  /\ pc' = [pc EXCEPT ![t] = IF t \in Workers THEN "idle" ELSE AfterCall(t), ![w] = "take"]
  /\ UNCHANGED <<reconnectRetryScheduled, failureCount, generation, pendingRequest, network,
                 local, attempted, inputs>>

StartWorker(t, w) ==
  /\ pc[t] = "startWorker"
  /\ ~reconnecting
  /\ pc[w] = "idle"
  /\ reconnecting' = TRUE
  /\ pc' = [pc EXCEPT ![t] = IF t \in Workers THEN "idle" ELSE AfterCall(t), ![w] = "take"]
  /\ UNCHANGED <<reconnectRetryScheduled, failureCount, generation, pendingRequest, network,
                 local, attempted, inputs>>

(* scheduleReconnectRetry *)

ScheduleReadNetwork(t) ==
  /\ pc[t] = "scheduleNetwork"
  /\ Goto(t, IF network = NoNetwork THEN AfterCall(t) ELSE "scheduleGeneration")
  /\ local' = [local EXCEPT ![t] = [network |-> network, generation |-> @.generation]]
  /\ UNCHANGED <<shared, attempted, inputs>>

ScheduleReadGeneration(t) ==
  /\ pc[t] = "scheduleGeneration"
  /\ local' = [local EXCEPT ![t] = [network |-> @.network, generation |-> generation]]
  /\ Goto(t, "scheduleFlag")
  /\ UNCHANGED <<shared, attempted, inputs>>

\* "IMS reconnect retry already scheduled, ignore".
RetryAlreadyScheduled(t) ==
  /\ pc[t] = "scheduleFlag"
  /\ reconnectRetryScheduled
  /\ Goto(t, AfterCall(t))
  /\ UNCHANGED <<shared, local, attempted, inputs>>

StartRetry(t, r) ==
  /\ pc[t] = "scheduleFlag"
  /\ ~reconnectRetryScheduled
  /\ pc[r] = "idle"
  /\ reconnectRetryScheduled' = TRUE
  /\ local' = [local EXCEPT ![r] = local[t]]
  /\ pc' = [pc EXCEPT ![t] = AfterCall(t), ![r] = "retrySleep"]
  /\ UNCHANGED <<reconnecting, failureCount, generation, pendingRequest, network,
                 attempted, inputs>>

(* the retry thread *)

RetryWakes(r) ==
  /\ pc[r] = "retrySleep"
  /\ reconnectRetryScheduled' = FALSE
  /\ Goto(r, "retryNetwork")
  /\ UNCHANGED <<reconnecting, failureCount, generation, pendingRequest, network, local,
                 attempted, inputs>>

\* activeNetwork is read before the generation is compared.
RetryReadNetwork(r) ==
  /\ pc[r] = "retryNetwork"
  /\ Goto(r, IF network = local[r].network THEN "retryGeneration" ELSE "retryFinally")
  /\ UNCHANGED <<shared, local, attempted, inputs>>

\* Mutant: the retry is skipped when the generations agree.
RetryReadGenerationInverted(r) ==
  /\ pc[r] = "retryGeneration"
  /\ Goto(r, IF generation # local[r].generation THEN "retryReconnect" ELSE "retryFinally")
  /\ UNCHANGED <<shared, local, attempted, inputs>>

RetryReadGeneration(r) ==
  /\ pc[r] = "retryGeneration"
  /\ Goto(r, IF generation = local[r].generation THEN "retryReconnect" ELSE "retryFinally")
  /\ UNCHANGED <<shared, local, attempted, inputs>>

RetryReconnects(r) ==
  /\ pc[r] = "retryReconnect"
  /\ NewRequest(r, local[r].network)
  /\ UNCHANGED inputs

\* The finally clears the flag a second time, whoever set it since.
RetryFinally(r) ==
  /\ pc[r] = "retryFinally"
  /\ reconnectRetryScheduled' = FALSE
  /\ Goto(r, "idle")
  /\ UNCHANGED <<reconnecting, failureCount, generation, pendingRequest, network, local,
                 attempted, inputs>>

-----------------------------------------------------------------------------
(* the worker thread *)

TakeRequest(w) ==
  /\ pc[w] = "take"
  /\ pendingRequest # NoRequest
  /\ local' = [local EXCEPT ![w] = pendingRequest]
  /\ pendingRequest' = NoRequest
  /\ Goto(w, "drop")
  /\ UNCHANGED <<reconnecting, reconnectRetryScheduled, failureCount, generation, network,
                 attempted, inputs>>

NothingToTake(w) ==
  /\ pc[w] = "take"
  /\ pendingRequest = NoRequest
  /\ Goto(w, "release")
  /\ UNCHANGED <<shared, local, attempted, inputs>>

\* dropConnection(reason, !keep) closes the transports whatever happens next.
DropConnection(w) ==
  /\ pc[w] = "drop"
  /\ Goto(w, IF local[w].network = NoNetwork THEN "checkGeneration" ELSE "setNetwork")
  /\ UNCHANGED <<shared, local, attempted, inputs>>

SetCurrentNetwork(w) ==
  /\ pc[w] = "setNetwork"
  /\ network' = local[w].network
  /\ Goto(w, "checkGeneration")
  /\ UNCHANGED <<reconnecting, reconnectRetryScheduled, failureCount, generation,
                 pendingRequest, local, attempted, inputs>>

\* Mutant: no generation check.
CheckGenerationDropped(w) ==
  /\ pc[w] = "checkGeneration"
  /\ Goto(w, "checkNetwork")
  /\ UNCHANGED <<shared, local, attempted, inputs>>

\* "Skipping stale IMS reconnect".
CheckGeneration(w) ==
  /\ pc[w] = "checkGeneration"
  /\ Goto(w, IF generation = local[w].generation THEN "checkNetwork" ELSE "take")
  /\ UNCHANGED <<shared, local, attempted, inputs>>

\* "Cannot reconnect IMS without a Network": reportFailure, next request.
CheckNetwork(w) ==
  /\ pc[w] = "checkNetwork"
  /\ \/ network = NoNetwork /\ Goto(w, "take") /\ UNCHANGED attempted
     \/ network # NoNetwork /\ Goto(w, "connect") /\ attempted' = local[w].generation
  /\ UNCHANGED <<shared, local, inputs>>

ConnectReturns(w) ==
  /\ pc[w] = "connect"
  /\ Goto(w, "take")
  /\ UNCHANGED <<shared, local, attempted, inputs>>

\* connect() throws, or gives up inside with the same failConnectAndRetry.
ConnectFails(w) ==
  /\ pc[w] = "connect"
  /\ Input
  /\ failureCount' = failureCount + 1
  /\ Goto(w, "scheduleNetwork")
  /\ UNCHANGED <<reconnecting, reconnectRetryScheduled, generation, pendingRequest, network,
                 local, attempted>>

\* finally: reconnecting.set(false) ...
ReleaseWorker(w) ==
  /\ pc[w] = "release"
  /\ reconnecting' = FALSE
  /\ Goto(w, "recheck")
  /\ UNCHANGED <<reconnectRetryScheduled, failureCount, generation, pendingRequest, network,
                 local, attempted, inputs>>

\* Mutant: the finally does not look at the mailbox again.
RecheckMailboxDropped(w) ==
  /\ pc[w] = "recheck"
  /\ Goto(w, "idle")
  /\ UNCHANGED <<shared, local, attempted, inputs>>

\* ... then "close the small race": hasPendingReconnectRequest.
RecheckMailbox(w) ==
  /\ pc[w] = "recheck"
  /\ Goto(w, IF pendingRequest = NoRequest THEN "idle" ELSE "startWorker")
  /\ UNCHANGED <<shared, local, attempted, inputs>>

-----------------------------------------------------------------------------
(* calls from the rest of the program *)

CallReconnectIms(c, n) ==
  /\ pc[c] = "idle" /\ Input
  /\ NewRequest(c, n)

\* Deferred reconnect after a call, via SipHandler.scheduleReconnectRetry.
CallScheduleRetry(c) ==
  /\ pc[c] = "idle" /\ Input
  /\ Goto(c, "scheduleNetwork")
  /\ UNCHANGED <<shared, local, attempted>>

CallFailConnectAndRetry(c) ==
  /\ pc[c] = "idle" /\ Input
  /\ failureCount' = failureCount + 1
  /\ Goto(c, "scheduleNetwork")
  /\ UNCHANGED <<reconnecting, reconnectRetryScheduled, generation, pendingRequest, network,
                 local, attempted>>

InvalidatePendingReconnects(c) ==
  /\ pc[c] = "idle" /\ Input
  /\ generation' = generation + 1
  /\ UNCHANGED <<reconnecting, reconnectRetryScheduled, failureCount, pendingRequest,
                 network, pc, local, attempted>>

MarkConnected(c) ==
  /\ pc[c] = "idle" /\ failureCount > 0
  /\ failureCount' = 0
  /\ UNCHANGED <<reconnecting, reconnectRetryScheduled, generation, pendingRequest, network,
                 pc, local, attempted, inputs>>

\* handleImsNetworkAvailable, first network: stored by the callback, which connects
\* on a thread of its own outside the controller.
FirstNetwork(c, n) ==
  /\ pc[c] = "idle" /\ network = NoNetwork
  /\ network' = n
  /\ UNCHANGED <<reconnecting, reconnectRetryScheduled, failureCount, generation,
                 pendingRequest, pc, local, attempted, inputs>>

-----------------------------------------------------------------------------
CallerStep(c) ==
  \/ \E n \in Networks \cup {NoNetwork} : CallReconnectIms(c, n)
  \/ CallScheduleRetry(c)
  \/ CallFailConnectAndRetry(c)
  \/ InvalidatePendingReconnects(c)
  \/ MarkConnected(c)
  \/ \E n \in Networks : FirstNetwork(c, n)

ReconnectStep(t) ==
  \/ StoreRequest(t)
  \/ LoseWorkerFlag(t)
  \/ \E w \in Workers : StartWorker(t, w)

ScheduleStep(t) ==
  \/ ScheduleReadNetwork(t)
  \/ ScheduleReadGeneration(t)
  \/ RetryAlreadyScheduled(t)
  \/ \E r \in Retriers : StartRetry(t, r)

RetryStep(r) ==
  \/ RetryWakes(r)
  \/ RetryReadNetwork(r)
  \/ RetryReadGeneration(r)
  \/ RetryReconnects(r)
  \/ RetryFinally(r)

WorkerStep(w) ==
  \/ TakeRequest(w) \/ NothingToTake(w)
  \/ DropConnection(w) \/ SetCurrentNetwork(w)
  \/ CheckGeneration(w) \/ CheckNetwork(w)
  \/ ConnectReturns(w) \/ ConnectFails(w)
  \/ ReleaseWorker(w) \/ RecheckMailbox(w)

Next ==
  \/ \E c \in Callers : CallerStep(c)
  \/ \E t \in Threads : ReconnectStep(t) \/ ScheduleStep(t)
  \/ \E r \in Retriers : RetryStep(r)
  \/ \E w \in Workers : WorkerStep(w)

Spec == Init /\ [][Next]_vars

\* The runtime eventually runs every started thread.  Calls from outside and the
\* choice of connect() to fail are owed to nobody.
Fairness ==
  /\ \A t \in Threads : WF_vars(ReconnectStep(t)) /\ WF_vars(ScheduleStep(t))
  /\ \A r \in Retriers : WF_vars(RetryStep(r))
  /\ \A w \in Workers : WF_vars(WorkerStep(w))

FairSpec == Spec /\ Fairness

-----------------------------------------------------------------------------
InLoop(w) == pc[w] \in LoopSteps

\* At most one worker thread is between its start and reconnecting.set(false), and
\* the flag says so exactly: dropConnection and connect() of two requests never
\* overlap (startReconnectWorkerIfNeeded).
SingleWorker ==
  /\ \A v, w \in Workers : InLoop(v) /\ InLoop(w) => v = w
  /\ reconnecting <=> \E w \in Workers : InLoop(w)

\* A request in the mailbox is never stranded: a worker runs, or a thread that is
\* about to start one, or a finishing worker that has still to look at the mailbox
\* ("Close the small race where a reconnect request is queued after the worker
\* drained the queue but before reconnecting was cleared").
NoStrandedRequest ==
  pendingRequest # NoRequest =>
    \/ reconnecting
    \/ \E t \in Threads : pc[t] \in {"startWorker", "recheck"}

\* The generation check makes connection attempts move forward only: connect() is
\* never begun twice for one request, nor for an older request after a newer one.
AttemptsIncrease == [][attempted' # attempted => attempted' > attempted]_vars

\* What the controller promises its callers, whatever its threads do.
SingleFlight == INSTANCE ReconnectSingleFlight
                  WITH latest <- generation, busy <- reconnecting, attempted <- attempted
SingleFlightSpec == SingleFlight!Spec

\* The newest request, once it is in the mailbox, is attempted, unless a newer one is
\* made, an older one is put over it, or there is no network to attempt it on.
Stored(g) == pendingRequest # NoRequest /\ pendingRequest.generation = g
StoredRequestAttempted ==
  \A g \in 1..MaxInputs :
    (Stored(g) /\ generation = g) ~>
      \/ attempted = g
      \/ generation # g
      \/ network = NoNetwork
      \/ \E h \in 1..(g - 1) : Stored(h)

\* A retry thread that sleeps on the current generation and network ends in a new
\* reconnect request, its own or one that overtook it.
ValidRetryReconnects ==
  \A r \in Retriers, g \in 0..MaxInputs :
    (pc[r] = "retrySleep" /\ local[r] = [network |-> network, generation |-> g]
       /\ generation = g) ~>
      (generation # g \/ network # local[r].network)

-----------------------------------------------------------------------------
(* What the log lines of the class say, and its threads do not keep. *)

SleepingRetries == {r \in Retriers : pc[r] = "retrySleep"}

\* "IMS reconnect retry already scheduled, ignore" (line 53): one retry at a time.
\* The finally of an old retry thread clears the flag of the next one.
AtMostOneRetry == Cardinality(SleepingRetries) <= 1

\* "IMS reconnect already running, queued" (line 108): the newest request is
\* eventually attempted.  Two callers may store in the opposite order of their
\* generations; the worker then skips the survivor as stale after dropping the
\* connection.
NewestRequestAttempted ==
  \A t \in Callers \cup Retriers, g \in 1..MaxInputs :
    (pc[t] = "store" /\ local[t].generation = g /\ generation = g) ~>
      (attempted = g \/ generation # g \/ network = NoNetwork)

\* "$reason; reporting deregistered and retrying IMS registration" (line 90): a failed
\* attempt is followed by a new request.  A retry that sleeps since an older generation
\* holds the flag, so the new retry is ignored, and the old one skips itself as stale.
FailureIsRetried ==
  \A t \in Threads, g \in 0..MaxInputs :
    (pc[t] = "scheduleFlag" /\ local[t] = [network |-> network, generation |-> g]
       /\ generation = g) ~>
      (generation # g \/ network # local[t].network)
=============================================================================
