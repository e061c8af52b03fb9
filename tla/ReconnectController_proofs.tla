---------------------- MODULE ReconnectController_proofs ----------------------
(* Theorems about ReconnectController, for any number of threads and networks, and, at its
   end, about RequestRestarter, for any number of threads. *)
EXTENDS ReconnectController, RequestRestarter, TLAPS

USE DEF Threads

LEMMA TypeOKStep == TypeOK /\ [Next]_vars => TypeOK'
<1> SUFFICES ASSUME TypeOK, [Next]_vars PROVE TypeOK'
  OBVIOUS
<1> USE NetworkAssumption, RequestAssumption
<1>1. ASSUME NEW c \in Callers, CallerStep(c) PROVE TypeOK'
  <2>1. ASSUME NEW n \in Networks \cup {NoNetwork}, CallReconnectIms(c, n) PROVE TypeOK'
    BY <2>1 DEF CallReconnectIms, NewRequest, Input, TypeOK, Steps, Request, Goto, shared
  <2>2. ASSUME CallScheduleRetry(c) PROVE TypeOK'
    BY <2>2 DEF CallScheduleRetry, Input, TypeOK, Steps, Request, Goto, shared
  <2>3. ASSUME CallFailConnectAndRetry(c) PROVE TypeOK'
    BY <2>3 DEF CallFailConnectAndRetry, Input, TypeOK, Steps, Request, Goto, shared
  <2>4. ASSUME InvalidatePendingReconnects(c) PROVE TypeOK'
    BY <2>4 DEF InvalidatePendingReconnects, Input, TypeOK, Steps, Request, Goto, shared
  <2>5. ASSUME MarkConnected(c) PROVE TypeOK'
    BY <2>5 DEF MarkConnected, TypeOK, Steps, Request, Goto, shared
  <2>6. ASSUME NEW n \in Networks, FirstNetwork(c, n) PROVE TypeOK'
    BY <2>6 DEF FirstNetwork, TypeOK, Steps, Request, Goto, shared
  <2> QED BY <1>1, <2>1, <2>2, <2>3, <2>4, <2>5, <2>6 DEF CallerStep
<1>2. ASSUME NEW t \in Threads, ReconnectStep(t) PROVE TypeOK'
  <2>1. ASSUME StoreRequest(t) PROVE TypeOK'
    BY <2>1 DEF StoreRequest, TypeOK, Steps, Request, Goto, shared
  <2>2. ASSUME LoseWorkerFlag(t) PROVE TypeOK'
    BY <2>2 DEF LoseWorkerFlag, AfterCall, TypeOK, Steps, Request, Goto, shared
  <2>3. ASSUME NEW w \in Workers, StartWorker(t, w) PROVE TypeOK'
    BY <2>3 DEF StartWorker, AfterCall, TypeOK, Steps, Request, Goto, shared
  <2> QED BY <1>2, <2>1, <2>2, <2>3 DEF ReconnectStep
<1>3. ASSUME NEW t \in Threads, ScheduleStep(t) PROVE TypeOK'
  <2>1. ASSUME ScheduleReadNetwork(t) PROVE TypeOK'
    BY <2>1 DEF ScheduleReadNetwork, AfterCall, TypeOK, Steps, Request, Goto, shared
  <2>2. ASSUME ScheduleReadGeneration(t) PROVE TypeOK'
    BY <2>2 DEF ScheduleReadGeneration, TypeOK, Steps, Request, Goto, shared
  <2>3. ASSUME RetryAlreadyScheduled(t) PROVE TypeOK'
    BY <2>3 DEF RetryAlreadyScheduled, AfterCall, TypeOK, Steps, Request, Goto, shared
  <2>4. ASSUME NEW r \in Retriers, StartRetry(t, r) PROVE TypeOK'
    BY <2>4 DEF StartRetry, AfterCall, TypeOK, Steps, Request, Goto, shared
  <2> QED BY <1>3, <2>1, <2>2, <2>3, <2>4 DEF ScheduleStep
<1>4. ASSUME NEW r \in Retriers, RetryStep(r) PROVE TypeOK'
  <2>1. ASSUME RetryWakes(r) PROVE TypeOK'
    BY <2>1 DEF RetryWakes, TypeOK, Steps, Request, Goto, shared
  <2>2. ASSUME RetryReadNetwork(r) PROVE TypeOK'
    BY <2>2 DEF RetryReadNetwork, TypeOK, Steps, Request, Goto, shared
  <2>3. ASSUME RetryReadGeneration(r) PROVE TypeOK'
    BY <2>3 DEF RetryReadGeneration, TypeOK, Steps, Request, Goto, shared
  <2>4. ASSUME RetryReconnects(r) PROVE TypeOK'
    BY <2>4 DEF RetryReconnects, NewRequest, TypeOK, Steps, Request, Goto, shared
  <2>5. ASSUME RetryFinally(r) PROVE TypeOK'
    BY <2>5 DEF RetryFinally, TypeOK, Steps, Request, Goto, shared
  <2> QED BY <1>4, <2>1, <2>2, <2>3, <2>4, <2>5 DEF RetryStep
<1>5. ASSUME NEW w \in Workers, WorkerStep(w) PROVE TypeOK'
  <2>1. ASSUME TakeRequest(w) PROVE TypeOK'
    BY <2>1 DEF TakeRequest, TypeOK, Steps, Request, Goto, shared
  <2>2. ASSUME NothingToTake(w) PROVE TypeOK'
    BY <2>2 DEF NothingToTake, TypeOK, Steps, Request, Goto, shared
  <2>3. ASSUME DropConnection(w) PROVE TypeOK'
    BY <2>3 DEF DropConnection, TypeOK, Steps, Request, Goto, shared
  <2>4. ASSUME SetCurrentNetwork(w) PROVE TypeOK'
    BY <2>4 DEF SetCurrentNetwork, TypeOK, Steps, Request, Goto, shared
  <2>5. ASSUME CheckGeneration(w) PROVE TypeOK'
    BY <2>5 DEF CheckGeneration, TypeOK, Steps, Request, Goto, shared
  <2>6. ASSUME CheckNetwork(w) PROVE TypeOK'
    BY <2>6 DEF CheckNetwork, TypeOK, Steps, Request, Goto, shared
  <2>7. ASSUME ConnectReturns(w) PROVE TypeOK'
    BY <2>7 DEF ConnectReturns, TypeOK, Steps, Request, Goto, shared
  <2>8. ASSUME ConnectFails(w) PROVE TypeOK'
    BY <2>8 DEF ConnectFails, Input, TypeOK, Steps, Request, Goto, shared
  <2>9. ASSUME ReleaseWorker(w) PROVE TypeOK'
    BY <2>9 DEF ReleaseWorker, TypeOK, Steps, Request, Goto, shared
  <2>10. ASSUME RecheckMailbox(w) PROVE TypeOK'
    BY <2>10 DEF RecheckMailbox, TypeOK, Steps, Request, Goto, shared
  <2> QED BY <1>5, <2>1, <2>2, <2>3, <2>4, <2>5, <2>6, <2>7, <2>8, <2>9, <2>10 DEF WorkerStep
<1>6. CASE UNCHANGED vars
  BY <1>6 DEF vars, shared, TypeOK, Steps, Request, Goto, shared
<1> QED BY <1>1, <1>2, <1>3, <1>4, <1>5, <1>6 DEF Next

LEMMA SingleWorkerStep == TypeOK /\ SingleWorker /\ [Next]_vars => SingleWorker'
<1> SUFFICES ASSUME TypeOK, SingleWorker, [Next]_vars PROVE SingleWorker'
  OBVIOUS
<1> USE PoolsAssumption
<1>1. ASSUME NEW c \in Callers, CallerStep(c) PROVE SingleWorker'
  <2>1. ASSUME NEW n \in Networks \cup {NoNetwork}, CallReconnectIms(c, n) PROVE SingleWorker'
    BY <2>1 DEF CallReconnectIms, NewRequest, Input, SingleWorker, InLoop, LoopSteps, TypeOK, Steps, Goto, shared
  <2>2. ASSUME CallScheduleRetry(c) PROVE SingleWorker'
    BY <2>2 DEF CallScheduleRetry, Input, SingleWorker, InLoop, LoopSteps, TypeOK, Steps, Goto, shared
  <2>3. ASSUME CallFailConnectAndRetry(c) PROVE SingleWorker'
    BY <2>3 DEF CallFailConnectAndRetry, Input, SingleWorker, InLoop, LoopSteps, TypeOK, Steps, Goto, shared
  <2>4. ASSUME InvalidatePendingReconnects(c) PROVE SingleWorker'
    BY <2>4 DEF InvalidatePendingReconnects, Input, SingleWorker, InLoop, LoopSteps, TypeOK, Steps, Goto, shared
  <2>5. ASSUME MarkConnected(c) PROVE SingleWorker'
    BY <2>5 DEF MarkConnected, SingleWorker, InLoop, LoopSteps, TypeOK, Steps, Goto, shared
  <2>6. ASSUME NEW n \in Networks, FirstNetwork(c, n) PROVE SingleWorker'
    BY <2>6 DEF FirstNetwork, SingleWorker, InLoop, LoopSteps, TypeOK, Steps, Goto, shared
  <2> QED BY <1>1, <2>1, <2>2, <2>3, <2>4, <2>5, <2>6 DEF CallerStep
<1>2. ASSUME NEW t \in Threads, ReconnectStep(t) PROVE SingleWorker'
  <2>1. ASSUME StoreRequest(t) PROVE SingleWorker'
    BY <2>1 DEF StoreRequest, SingleWorker, InLoop, LoopSteps, TypeOK, Steps, Goto, shared
  <2>2. ASSUME LoseWorkerFlag(t) PROVE SingleWorker'
    BY <2>2 DEF LoseWorkerFlag, AfterCall, SingleWorker, InLoop, LoopSteps, TypeOK, Steps, Goto, shared
  <2>3. ASSUME NEW w \in Workers, StartWorker(t, w) PROVE SingleWorker'
    BY <2>3 DEF StartWorker, AfterCall, SingleWorker, InLoop, LoopSteps, TypeOK, Steps, Goto, shared
  <2> QED BY <1>2, <2>1, <2>2, <2>3 DEF ReconnectStep
<1>3. ASSUME NEW t \in Threads, ScheduleStep(t) PROVE SingleWorker'
  <2>1. ASSUME ScheduleReadNetwork(t) PROVE SingleWorker'
    BY <2>1 DEF ScheduleReadNetwork, AfterCall, SingleWorker, InLoop, LoopSteps, TypeOK, Steps, Goto, shared
  <2>2. ASSUME ScheduleReadGeneration(t) PROVE SingleWorker'
    BY <2>2 DEF ScheduleReadGeneration, SingleWorker, InLoop, LoopSteps, TypeOK, Steps, Goto, shared
  <2>3. ASSUME RetryAlreadyScheduled(t) PROVE SingleWorker'
    BY <2>3 DEF RetryAlreadyScheduled, AfterCall, SingleWorker, InLoop, LoopSteps, TypeOK, Steps, Goto, shared
  <2>4. ASSUME NEW r \in Retriers, StartRetry(t, r) PROVE SingleWorker'
    BY <2>4 DEF StartRetry, AfterCall, SingleWorker, InLoop, LoopSteps, TypeOK, Steps, Goto, shared
  <2> QED BY <1>3, <2>1, <2>2, <2>3, <2>4 DEF ScheduleStep
<1>4. ASSUME NEW r \in Retriers, RetryStep(r) PROVE SingleWorker'
  <2>1. ASSUME RetryWakes(r) PROVE SingleWorker'
    BY <2>1 DEF RetryWakes, SingleWorker, InLoop, LoopSteps, TypeOK, Steps, Goto, shared
  <2>2. ASSUME RetryReadNetwork(r) PROVE SingleWorker'
    BY <2>2 DEF RetryReadNetwork, SingleWorker, InLoop, LoopSteps, TypeOK, Steps, Goto, shared
  <2>3. ASSUME RetryReadGeneration(r) PROVE SingleWorker'
    BY <2>3 DEF RetryReadGeneration, SingleWorker, InLoop, LoopSteps, TypeOK, Steps, Goto, shared
  <2>4. ASSUME RetryReconnects(r) PROVE SingleWorker'
    BY <2>4 DEF RetryReconnects, NewRequest, SingleWorker, InLoop, LoopSteps, TypeOK, Steps, Goto, shared
  <2>5. ASSUME RetryFinally(r) PROVE SingleWorker'
    BY <2>5 DEF RetryFinally, SingleWorker, InLoop, LoopSteps, TypeOK, Steps, Goto, shared
  <2> QED BY <1>4, <2>1, <2>2, <2>3, <2>4, <2>5 DEF RetryStep
<1>5. ASSUME NEW w \in Workers, WorkerStep(w) PROVE SingleWorker'
  <2>1. ASSUME TakeRequest(w) PROVE SingleWorker'
    BY <2>1 DEF TakeRequest, SingleWorker, InLoop, LoopSteps, TypeOK, Steps, Goto, shared
  <2>2. ASSUME NothingToTake(w) PROVE SingleWorker'
    BY <2>2 DEF NothingToTake, SingleWorker, InLoop, LoopSteps, TypeOK, Steps, Goto, shared
  <2>3. ASSUME DropConnection(w) PROVE SingleWorker'
    BY <2>3 DEF DropConnection, SingleWorker, InLoop, LoopSteps, TypeOK, Steps, Goto, shared
  <2>4. ASSUME SetCurrentNetwork(w) PROVE SingleWorker'
    BY <2>4 DEF SetCurrentNetwork, SingleWorker, InLoop, LoopSteps, TypeOK, Steps, Goto, shared
  <2>5. ASSUME CheckGeneration(w) PROVE SingleWorker'
    BY <2>5 DEF CheckGeneration, SingleWorker, InLoop, LoopSteps, TypeOK, Steps, Goto, shared
  <2>6. ASSUME CheckNetwork(w) PROVE SingleWorker'
    BY <2>6 DEF CheckNetwork, SingleWorker, InLoop, LoopSteps, TypeOK, Steps, Goto, shared
  <2>7. ASSUME ConnectReturns(w) PROVE SingleWorker'
    BY <2>7 DEF ConnectReturns, SingleWorker, InLoop, LoopSteps, TypeOK, Steps, Goto, shared
  <2>8. ASSUME ConnectFails(w) PROVE SingleWorker'
    BY <2>8 DEF ConnectFails, Input, SingleWorker, InLoop, LoopSteps, TypeOK, Steps, Goto, shared
  <2>9. ASSUME ReleaseWorker(w) PROVE SingleWorker'
    BY <2>9 DEF ReleaseWorker, SingleWorker, InLoop, LoopSteps, TypeOK, Steps, Goto, shared
  <2>10. ASSUME RecheckMailbox(w) PROVE SingleWorker'
    BY <2>10 DEF RecheckMailbox, SingleWorker, InLoop, LoopSteps, TypeOK, Steps, Goto, shared
  <2> QED BY <1>5, <2>1, <2>2, <2>3, <2>4, <2>5, <2>6, <2>7, <2>8, <2>9, <2>10 DEF WorkerStep
<1>6. CASE UNCHANGED vars
  BY <1>6 DEF vars, shared, SingleWorker, InLoop, LoopSteps, TypeOK, Steps, Goto, shared
<1> QED BY <1>1, <1>2, <1>3, <1>4, <1>5, <1>6 DEF Next
-----------------------------------------------------------------------------
(* Type correctness and mutual exclusion of the workers. *)

\* Every variable keeps its type (the state of ImsReconnectController).
THEOREM TypeCorrect == Spec => []TypeOK
<1>1. ASSUME Init PROVE TypeOK
  <2>1. pc \in [Threads -> Steps]
    BY <1>1 DEF Init, Steps
  <2>2. local \in [Threads -> Request]
    BY <1>1 DEF Init, Request
  <2> QED BY <1>1, <2>1, <2>2 DEF Init, TypeOK
<1> QED BY <1>1, TypeOKStep, PTL DEF Spec

\* The flag `reconnecting` is set exactly while one worker thread runs its loop
\* (startReconnectWorkerIfNeeded).
THEOREM WorkerIsSingle == Spec => []SingleWorker
<1>1. Init => SingleWorker
  BY PoolsAssumption DEF Init, SingleWorker, InLoop, LoopSteps
<1> QED BY <1>1, SingleWorkerStep, TypeCorrect, PTL DEF Spec

-----------------------------------------------------------------------------
(* No stranded request. *)

LEMMA NoStrandedStep ==
  TypeOK /\ SingleWorker /\ NoStrandedRequest /\ [Next]_vars => NoStrandedRequest'
<1> SUFFICES ASSUME TypeOK, SingleWorker, NoStrandedRequest, [Next]_vars PROVE NoStrandedRequest'
  OBVIOUS
<1> USE PoolsAssumption
<1>1. ASSUME NEW c \in Callers, CallerStep(c) PROVE NoStrandedRequest'
  <2>1. ASSUME NEW n \in Networks \cup {NoNetwork}, CallReconnectIms(c, n) PROVE NoStrandedRequest'
    BY <2>1 DEF CallReconnectIms, NewRequest, Input, NoStrandedRequest, SingleWorker, InLoop, LoopSteps, TypeOK, Steps, Goto, shared
  <2>2. ASSUME CallScheduleRetry(c) PROVE NoStrandedRequest'
    BY <2>2 DEF CallScheduleRetry, Input, NoStrandedRequest, SingleWorker, InLoop, LoopSteps, TypeOK, Steps, Goto, shared
  <2>3. ASSUME CallFailConnectAndRetry(c) PROVE NoStrandedRequest'
    BY <2>3 DEF CallFailConnectAndRetry, Input, NoStrandedRequest, SingleWorker, InLoop, LoopSteps, TypeOK, Steps, Goto, shared
  <2>4. ASSUME InvalidatePendingReconnects(c) PROVE NoStrandedRequest'
    BY <2>4 DEF InvalidatePendingReconnects, Input, NoStrandedRequest, SingleWorker, InLoop, LoopSteps, TypeOK, Steps, Goto, shared
  <2>5. ASSUME MarkConnected(c) PROVE NoStrandedRequest'
    BY <2>5 DEF MarkConnected, NoStrandedRequest, SingleWorker, InLoop, LoopSteps, TypeOK, Steps, Goto, shared
  <2>6. ASSUME NEW n \in Networks, FirstNetwork(c, n) PROVE NoStrandedRequest'
    BY <2>6 DEF FirstNetwork, NoStrandedRequest, SingleWorker, InLoop, LoopSteps, TypeOK, Steps, Goto, shared
  <2> QED BY <1>1, <2>1, <2>2, <2>3, <2>4, <2>5, <2>6 DEF CallerStep
<1>2. ASSUME NEW t \in Threads, ReconnectStep(t) PROVE NoStrandedRequest'
  <2>1. ASSUME StoreRequest(t) PROVE NoStrandedRequest'
    BY <2>1 DEF StoreRequest, NoStrandedRequest, SingleWorker, InLoop, LoopSteps, TypeOK, Steps, Goto, shared
  <2>2. ASSUME LoseWorkerFlag(t) PROVE NoStrandedRequest'
    BY <2>2 DEF LoseWorkerFlag, AfterCall, NoStrandedRequest, SingleWorker, InLoop, LoopSteps, TypeOK, Steps, Goto, shared
  <2>3. ASSUME NEW w \in Workers, StartWorker(t, w) PROVE NoStrandedRequest'
    BY <2>3 DEF StartWorker, AfterCall, NoStrandedRequest, SingleWorker, InLoop, LoopSteps, TypeOK, Steps, Goto, shared
  <2> QED BY <1>2, <2>1, <2>2, <2>3 DEF ReconnectStep
<1>3. ASSUME NEW t \in Threads, ScheduleStep(t) PROVE NoStrandedRequest'
  <2>1. ASSUME ScheduleReadNetwork(t) PROVE NoStrandedRequest'
    BY <2>1 DEF ScheduleReadNetwork, AfterCall, NoStrandedRequest, SingleWorker, InLoop, LoopSteps, TypeOK, Steps, Goto, shared
  <2>2. ASSUME ScheduleReadGeneration(t) PROVE NoStrandedRequest'
    BY <2>2 DEF ScheduleReadGeneration, NoStrandedRequest, SingleWorker, InLoop, LoopSteps, TypeOK, Steps, Goto, shared
  <2>3. ASSUME RetryAlreadyScheduled(t) PROVE NoStrandedRequest'
    BY <2>3 DEF RetryAlreadyScheduled, AfterCall, NoStrandedRequest, SingleWorker, InLoop, LoopSteps, TypeOK, Steps, Goto, shared
  <2>4. ASSUME NEW r \in Retriers, StartRetry(t, r) PROVE NoStrandedRequest'
    BY <2>4 DEF StartRetry, AfterCall, NoStrandedRequest, SingleWorker, InLoop, LoopSteps, TypeOK, Steps, Goto, shared
  <2> QED BY <1>3, <2>1, <2>2, <2>3, <2>4 DEF ScheduleStep
<1>4. ASSUME NEW r \in Retriers, RetryStep(r) PROVE NoStrandedRequest'
  <2>1. ASSUME RetryWakes(r) PROVE NoStrandedRequest'
    BY <2>1 DEF RetryWakes, NoStrandedRequest, SingleWorker, InLoop, LoopSteps, TypeOK, Steps, Goto, shared
  <2>2. ASSUME RetryReadNetwork(r) PROVE NoStrandedRequest'
    BY <2>2 DEF RetryReadNetwork, NoStrandedRequest, SingleWorker, InLoop, LoopSteps, TypeOK, Steps, Goto, shared
  <2>3. ASSUME RetryReadGeneration(r) PROVE NoStrandedRequest'
    BY <2>3 DEF RetryReadGeneration, NoStrandedRequest, SingleWorker, InLoop, LoopSteps, TypeOK, Steps, Goto, shared
  <2>4. ASSUME RetryReconnects(r) PROVE NoStrandedRequest'
    BY <2>4 DEF RetryReconnects, NewRequest, NoStrandedRequest, SingleWorker, InLoop, LoopSteps, TypeOK, Steps, Goto, shared
  <2>5. ASSUME RetryFinally(r) PROVE NoStrandedRequest'
    BY <2>5 DEF RetryFinally, NoStrandedRequest, SingleWorker, InLoop, LoopSteps, TypeOK, Steps, Goto, shared
  <2> QED BY <1>4, <2>1, <2>2, <2>3, <2>4, <2>5 DEF RetryStep
<1>5. ASSUME NEW w \in Workers, WorkerStep(w) PROVE NoStrandedRequest'
  <2>1. ASSUME TakeRequest(w) PROVE NoStrandedRequest'
    BY <2>1 DEF TakeRequest, NoStrandedRequest, SingleWorker, InLoop, LoopSteps, TypeOK, Steps, Goto, shared
  <2>2. ASSUME NothingToTake(w) PROVE NoStrandedRequest'
    BY <2>2 DEF NothingToTake, NoStrandedRequest, SingleWorker, InLoop, LoopSteps, TypeOK, Steps, Goto, shared
  <2>3. ASSUME DropConnection(w) PROVE NoStrandedRequest'
    BY <2>3 DEF DropConnection, NoStrandedRequest, SingleWorker, InLoop, LoopSteps, TypeOK, Steps, Goto, shared
  <2>4. ASSUME SetCurrentNetwork(w) PROVE NoStrandedRequest'
    BY <2>4 DEF SetCurrentNetwork, NoStrandedRequest, SingleWorker, InLoop, LoopSteps, TypeOK, Steps, Goto, shared
  <2>5. ASSUME CheckGeneration(w) PROVE NoStrandedRequest'
    BY <2>5 DEF CheckGeneration, NoStrandedRequest, SingleWorker, InLoop, LoopSteps, TypeOK, Steps, Goto, shared
  <2>6. ASSUME CheckNetwork(w) PROVE NoStrandedRequest'
    BY <2>6 DEF CheckNetwork, NoStrandedRequest, SingleWorker, InLoop, LoopSteps, TypeOK, Steps, Goto, shared
  <2>7. ASSUME ConnectReturns(w) PROVE NoStrandedRequest'
    BY <2>7 DEF ConnectReturns, NoStrandedRequest, SingleWorker, InLoop, LoopSteps, TypeOK, Steps, Goto, shared
  <2>8. ASSUME ConnectFails(w) PROVE NoStrandedRequest'
    BY <2>8 DEF ConnectFails, Input, NoStrandedRequest, SingleWorker, InLoop, LoopSteps, TypeOK, Steps, Goto, shared
  <2>9. ASSUME ReleaseWorker(w) PROVE NoStrandedRequest'
    BY <2>9 DEF ReleaseWorker, NoStrandedRequest, SingleWorker, InLoop, LoopSteps, TypeOK, Steps, Goto, shared
  <2>10. ASSUME RecheckMailbox(w) PROVE NoStrandedRequest'
    BY <2>10 DEF RecheckMailbox, NoStrandedRequest, SingleWorker, InLoop, LoopSteps, TypeOK, Steps, Goto, shared
  <2> QED BY <1>5, <2>1, <2>2, <2>3, <2>4, <2>5, <2>6, <2>7, <2>8, <2>9, <2>10 DEF WorkerStep
<1>6. CASE UNCHANGED vars
  BY <1>6 DEF vars, shared, NoStrandedRequest, SingleWorker, InLoop, LoopSteps, TypeOK, Steps, Goto, shared
<1> QED BY <1>1, <1>2, <1>3, <1>4, <1>5, <1>6 DEF Next

\* A request in the mailbox always has a thread that will look at it (the finally of
\* the worker, "Close the small race").
THEOREM RequestNotStranded == Spec => []NoStrandedRequest
<1>1. Init => NoStrandedRequest
  BY DEF Init, NoStrandedRequest
<1> QED BY <1>1, NoStrandedStep, TypeCorrect, WorkerIsSingle, PTL DEF Spec

-----------------------------------------------------------------------------
(* Attempts move forward.  A thread holds a live request from the increment of the   *)
(* generation to the store, and a worker from the take to connect(): live requests,  *)
(* the mailbox included, carry different generations, none of them attempted before. *)

Holds(t) ==
  \/ pc[t] = "store"
  \/ t \in Workers /\ pc[t] \in {"drop", "setNetwork", "checkGeneration", "checkNetwork"}

LiveRequests ==
  /\ attempted <= generation
  /\ \A t \in Threads : Holds(t) =>
       local[t].generation <= generation /\ local[t].generation # attempted
  /\ \A t, u \in Threads : Holds(t) /\ Holds(u) /\ t # u =>
       local[t].generation # local[u].generation
  /\ pendingRequest # NoRequest =>
       /\ pendingRequest.generation <= generation
       /\ pendingRequest.generation # attempted
       /\ \A t \in Threads : Holds(t) => local[t].generation # pendingRequest.generation
  /\ \A w \in Workers : pc[w] = "checkNetwork" => local[w].generation > attempted

LEMMA LiveRequestsStep ==
  TypeOK /\ SingleWorker /\ LiveRequests /\ [Next]_vars => LiveRequests'
<1> SUFFICES ASSUME TypeOK, SingleWorker, LiveRequests, [Next]_vars PROVE LiveRequests'
  OBVIOUS
<1> USE PoolsAssumption, NetworkAssumption, RequestAssumption
<1>1. ASSUME NEW c \in Callers, CallerStep(c) PROVE LiveRequests'
  <2>1. ASSUME NEW n \in Networks \cup {NoNetwork}, CallReconnectIms(c, n) PROVE LiveRequests'
    BY <2>1 DEF CallReconnectIms, NewRequest, Input, LiveRequests, Holds, SingleWorker, InLoop, LoopSteps, TypeOK, Steps, Request, Goto, shared
  <2>2. ASSUME CallScheduleRetry(c) PROVE LiveRequests'
    BY <2>2 DEF CallScheduleRetry, Input, LiveRequests, Holds, SingleWorker, InLoop, LoopSteps, TypeOK, Steps, Request, Goto, shared
  <2>3. ASSUME CallFailConnectAndRetry(c) PROVE LiveRequests'
    BY <2>3 DEF CallFailConnectAndRetry, Input, LiveRequests, Holds, SingleWorker, InLoop, LoopSteps, TypeOK, Steps, Request, Goto, shared
  <2>4. ASSUME InvalidatePendingReconnects(c) PROVE LiveRequests'
    BY <2>4 DEF InvalidatePendingReconnects, Input, LiveRequests, Holds, SingleWorker, InLoop, LoopSteps, TypeOK, Steps, Request, Goto, shared
  <2>5. ASSUME MarkConnected(c) PROVE LiveRequests'
    BY <2>5 DEF MarkConnected, LiveRequests, Holds, SingleWorker, InLoop, LoopSteps, TypeOK, Steps, Request, Goto, shared
  <2>6. ASSUME NEW n \in Networks, FirstNetwork(c, n) PROVE LiveRequests'
    BY <2>6 DEF FirstNetwork, LiveRequests, Holds, SingleWorker, InLoop, LoopSteps, TypeOK, Steps, Request, Goto, shared
  <2> QED BY <1>1, <2>1, <2>2, <2>3, <2>4, <2>5, <2>6 DEF CallerStep
<1>2. ASSUME NEW t \in Threads, ReconnectStep(t) PROVE LiveRequests'
  <2>1. ASSUME StoreRequest(t) PROVE LiveRequests'
    BY <2>1 DEF StoreRequest, LiveRequests, Holds, SingleWorker, InLoop, LoopSteps, TypeOK, Steps, Request, Goto, shared
  <2>2. ASSUME LoseWorkerFlag(t) PROVE LiveRequests'
    BY <2>2 DEF LoseWorkerFlag, AfterCall, LiveRequests, Holds, SingleWorker, InLoop, LoopSteps, TypeOK, Steps, Request, Goto, shared
  <2>3. ASSUME NEW w \in Workers, StartWorker(t, w) PROVE LiveRequests'
    BY <2>3 DEF StartWorker, AfterCall, LiveRequests, Holds, SingleWorker, InLoop, LoopSteps, TypeOK, Steps, Request, Goto, shared
  <2> QED BY <1>2, <2>1, <2>2, <2>3 DEF ReconnectStep
<1>3. ASSUME NEW t \in Threads, ScheduleStep(t) PROVE LiveRequests'
  <2>1. ASSUME ScheduleReadNetwork(t) PROVE LiveRequests'
    BY <2>1 DEF ScheduleReadNetwork, AfterCall, LiveRequests, Holds, SingleWorker, InLoop, LoopSteps, TypeOK, Steps, Request, Goto, shared
  <2>2. ASSUME ScheduleReadGeneration(t) PROVE LiveRequests'
    BY <2>2 DEF ScheduleReadGeneration, LiveRequests, Holds, SingleWorker, InLoop, LoopSteps, TypeOK, Steps, Request, Goto, shared
  <2>3. ASSUME RetryAlreadyScheduled(t) PROVE LiveRequests'
    BY <2>3 DEF RetryAlreadyScheduled, AfterCall, LiveRequests, Holds, SingleWorker, InLoop, LoopSteps, TypeOK, Steps, Request, Goto, shared
  <2>4. ASSUME NEW r \in Retriers, StartRetry(t, r) PROVE LiveRequests'
    BY <2>4 DEF StartRetry, AfterCall, LiveRequests, Holds, SingleWorker, InLoop, LoopSteps, TypeOK, Steps, Request, Goto, shared
  <2> QED BY <1>3, <2>1, <2>2, <2>3, <2>4 DEF ScheduleStep
<1>4. ASSUME NEW r \in Retriers, RetryStep(r) PROVE LiveRequests'
  <2>1. ASSUME RetryWakes(r) PROVE LiveRequests'
    BY <2>1 DEF RetryWakes, LiveRequests, Holds, SingleWorker, InLoop, LoopSteps, TypeOK, Steps, Request, Goto, shared
  <2>2. ASSUME RetryReadNetwork(r) PROVE LiveRequests'
    BY <2>2 DEF RetryReadNetwork, LiveRequests, Holds, SingleWorker, InLoop, LoopSteps, TypeOK, Steps, Request, Goto, shared
  <2>3. ASSUME RetryReadGeneration(r) PROVE LiveRequests'
    BY <2>3 DEF RetryReadGeneration, LiveRequests, Holds, SingleWorker, InLoop, LoopSteps, TypeOK, Steps, Request, Goto, shared
  <2>4. ASSUME RetryReconnects(r) PROVE LiveRequests'
    BY <2>4 DEF RetryReconnects, NewRequest, LiveRequests, Holds, SingleWorker, InLoop, LoopSteps, TypeOK, Steps, Request, Goto, shared
  <2>5. ASSUME RetryFinally(r) PROVE LiveRequests'
    BY <2>5 DEF RetryFinally, LiveRequests, Holds, SingleWorker, InLoop, LoopSteps, TypeOK, Steps, Request, Goto, shared
  <2> QED BY <1>4, <2>1, <2>2, <2>3, <2>4, <2>5 DEF RetryStep
<1>5. ASSUME NEW w \in Workers, WorkerStep(w) PROVE LiveRequests'
  <2>1. ASSUME TakeRequest(w) PROVE LiveRequests'
    BY <2>1 DEF TakeRequest, LiveRequests, Holds, SingleWorker, InLoop, LoopSteps, TypeOK, Steps, Request, Goto, shared
  <2>2. ASSUME NothingToTake(w) PROVE LiveRequests'
    BY <2>2 DEF NothingToTake, LiveRequests, Holds, SingleWorker, InLoop, LoopSteps, TypeOK, Steps, Request, Goto, shared
  <2>3. ASSUME DropConnection(w) PROVE LiveRequests'
    BY <2>3 DEF DropConnection, LiveRequests, Holds, SingleWorker, InLoop, LoopSteps, TypeOK, Steps, Request, Goto, shared
  <2>4. ASSUME SetCurrentNetwork(w) PROVE LiveRequests'
    BY <2>4 DEF SetCurrentNetwork, LiveRequests, Holds, SingleWorker, InLoop, LoopSteps, TypeOK, Steps, Request, Goto, shared
  <2>5. ASSUME CheckGeneration(w) PROVE LiveRequests'
    BY <2>5 DEF CheckGeneration, LiveRequests, Holds, SingleWorker, InLoop, LoopSteps, TypeOK, Steps, Request, Goto, shared
  <2>6. ASSUME CheckNetwork(w) PROVE LiveRequests'
    BY <2>6 DEF CheckNetwork, LiveRequests, Holds, SingleWorker, InLoop, LoopSteps, TypeOK, Steps, Request, Goto, shared
  <2>7. ASSUME ConnectReturns(w) PROVE LiveRequests'
    BY <2>7 DEF ConnectReturns, LiveRequests, Holds, SingleWorker, InLoop, LoopSteps, TypeOK, Steps, Request, Goto, shared
  <2>8. ASSUME ConnectFails(w) PROVE LiveRequests'
    BY <2>8 DEF ConnectFails, Input, LiveRequests, Holds, SingleWorker, InLoop, LoopSteps, TypeOK, Steps, Request, Goto, shared
  <2>9. ASSUME ReleaseWorker(w) PROVE LiveRequests'
    BY <2>9 DEF ReleaseWorker, LiveRequests, Holds, SingleWorker, InLoop, LoopSteps, TypeOK, Steps, Request, Goto, shared
  <2>10. ASSUME RecheckMailbox(w) PROVE LiveRequests'
    BY <2>10 DEF RecheckMailbox, LiveRequests, Holds, SingleWorker, InLoop, LoopSteps, TypeOK, Steps, Request, Goto, shared
  <2> QED BY <1>5, <2>1, <2>2, <2>3, <2>4, <2>5, <2>6, <2>7, <2>8, <2>9, <2>10 DEF WorkerStep
<1>6. CASE UNCHANGED vars
  BY <1>6 DEF vars, shared, LiveRequests, Holds, SingleWorker, InLoop, LoopSteps, TypeOK, Steps, Request, Goto, shared
<1> QED BY <1>1, <1>2, <1>3, <1>4, <1>5, <1>6 DEF Next
THEOREM RequestsLive == Spec => []LiveRequests
<1>1. Init => LiveRequests
  BY PoolsAssumption DEF Init, LiveRequests, Holds
<1> QED BY <1>1, LiveRequestsStep, TypeCorrect, WorkerIsSingle, PTL DEF Spec

-----------------------------------------------------------------------------
(* The controller implements ReconnectSingleFlight. *)

\* Only CheckNetwork changes `attempted`, and it does so in the loop of the single
\* worker, with a generation above the last attempted one.
LEMMA AttemptStep ==
  TypeOK /\ LiveRequests /\ SingleWorker /\ [Next]_vars =>
    \/ attempted' = attempted
    \/ /\ attempted' \in (attempted + 1)..generation
       /\ reconnecting
       /\ UNCHANGED <<generation, reconnecting>>
<1> DEFINE Goal ==
      \/ attempted' = attempted
      \/ /\ attempted' \in (attempted + 1)..generation
         /\ reconnecting
         /\ UNCHANGED <<generation, reconnecting>>
<1> SUFFICES ASSUME TypeOK, LiveRequests, SingleWorker, [Next]_vars PROVE Goal
  OBVIOUS
<1>1. ASSUME NEW c \in Callers, CallerStep(c) PROVE attempted' = attempted
  <2>1. ASSUME NEW n \in Networks \cup {NoNetwork}, CallReconnectIms(c, n) PROVE attempted' = attempted
    BY <2>1 DEF CallReconnectIms, NewRequest, Input, shared
  <2>2. ASSUME CallScheduleRetry(c) PROVE attempted' = attempted
    BY <2>2 DEF CallScheduleRetry, Input, shared
  <2>3. ASSUME CallFailConnectAndRetry(c) PROVE attempted' = attempted
    BY <2>3 DEF CallFailConnectAndRetry, Input, shared
  <2>4. ASSUME InvalidatePendingReconnects(c) PROVE attempted' = attempted
    BY <2>4 DEF InvalidatePendingReconnects, Input, shared
  <2>5. ASSUME MarkConnected(c) PROVE attempted' = attempted
    BY <2>5 DEF MarkConnected, shared
  <2>6. ASSUME NEW n \in Networks, FirstNetwork(c, n) PROVE attempted' = attempted
    BY <2>6 DEF FirstNetwork, shared
  <2> QED BY <1>1, <2>1, <2>2, <2>3, <2>4, <2>5, <2>6 DEF CallerStep
<1>2. ASSUME NEW t \in Threads, ReconnectStep(t) PROVE attempted' = attempted
  <2>1. ASSUME StoreRequest(t) PROVE attempted' = attempted
    BY <2>1 DEF StoreRequest, shared
  <2>2. ASSUME LoseWorkerFlag(t) PROVE attempted' = attempted
    BY <2>2 DEF LoseWorkerFlag, AfterCall, shared
  <2>3. ASSUME NEW w \in Workers, StartWorker(t, w) PROVE attempted' = attempted
    BY <2>3 DEF StartWorker, AfterCall, shared
  <2> QED BY <1>2, <2>1, <2>2, <2>3 DEF ReconnectStep
<1>3. ASSUME NEW t \in Threads, ScheduleStep(t) PROVE attempted' = attempted
  <2>1. ASSUME ScheduleReadNetwork(t) PROVE attempted' = attempted
    BY <2>1 DEF ScheduleReadNetwork, AfterCall, shared
  <2>2. ASSUME ScheduleReadGeneration(t) PROVE attempted' = attempted
    BY <2>2 DEF ScheduleReadGeneration, shared
  <2>3. ASSUME RetryAlreadyScheduled(t) PROVE attempted' = attempted
    BY <2>3 DEF RetryAlreadyScheduled, AfterCall, shared
  <2>4. ASSUME NEW r \in Retriers, StartRetry(t, r) PROVE attempted' = attempted
    BY <2>4 DEF StartRetry, AfterCall, shared
  <2> QED BY <1>3, <2>1, <2>2, <2>3, <2>4 DEF ScheduleStep
<1>4. ASSUME NEW r \in Retriers, RetryStep(r) PROVE attempted' = attempted
  <2>1. ASSUME RetryWakes(r) PROVE attempted' = attempted
    BY <2>1 DEF RetryWakes, shared
  <2>2. ASSUME RetryReadNetwork(r) PROVE attempted' = attempted
    BY <2>2 DEF RetryReadNetwork, shared
  <2>3. ASSUME RetryReadGeneration(r) PROVE attempted' = attempted
    BY <2>3 DEF RetryReadGeneration, shared
  <2>4. ASSUME RetryReconnects(r) PROVE attempted' = attempted
    BY <2>4 DEF RetryReconnects, NewRequest, shared
  <2>5. ASSUME RetryFinally(r) PROVE attempted' = attempted
    BY <2>5 DEF RetryFinally, shared
  <2> QED BY <1>4, <2>1, <2>2, <2>3, <2>4, <2>5 DEF RetryStep
<1>5. ASSUME NEW w \in Workers, WorkerStep(w) PROVE Goal
  <2>1. ASSUME TakeRequest(w) PROVE attempted' = attempted
    BY <2>1 DEF TakeRequest, shared
  <2>2. ASSUME NothingToTake(w) PROVE attempted' = attempted
    BY <2>2 DEF NothingToTake, shared
  <2>3. ASSUME DropConnection(w) PROVE attempted' = attempted
    BY <2>3 DEF DropConnection, shared
  <2>4. ASSUME SetCurrentNetwork(w) PROVE attempted' = attempted
    BY <2>4 DEF SetCurrentNetwork, shared
  <2>5. ASSUME CheckGeneration(w) PROVE attempted' = attempted
    BY <2>5 DEF CheckGeneration, shared
  <2>6. ASSUME CheckNetwork(w) PROVE Goal
    BY <2>6, PoolsAssumption DEF CheckNetwork, shared, Goto, TypeOK, Request, LiveRequests, Holds,
         SingleWorker, InLoop, LoopSteps
  <2>7. ASSUME ConnectReturns(w) PROVE attempted' = attempted
    BY <2>7 DEF ConnectReturns, shared
  <2>8. ASSUME ConnectFails(w) PROVE attempted' = attempted
    BY <2>8 DEF ConnectFails, Input, shared
  <2>9. ASSUME ReleaseWorker(w) PROVE attempted' = attempted
    BY <2>9 DEF ReleaseWorker, shared
  <2>10. ASSUME RecheckMailbox(w) PROVE attempted' = attempted
    BY <2>10 DEF RecheckMailbox, shared
  <2> QED BY <1>5, <2>1, <2>2, <2>3, <2>4, <2>5, <2>6, <2>7, <2>8, <2>9, <2>10 DEF WorkerStep
<1>6. CASE UNCHANGED vars
  BY <1>6 DEF vars, shared, shared
<1> QED BY <1>1, <1>2, <1>3, <1>4, <1>5, <1>6 DEF Next

\* connect() is begun for ever newer requests (the generation check of the worker).
THEOREM AttemptsGoForward == Spec => AttemptsIncrease
<1>1. TypeOK /\ LiveRequests /\ SingleWorker /\ [Next]_vars =>
        [attempted' # attempted => attempted' > attempted]_vars
  BY AttemptStep DEF TypeOK
<1> QED BY <1>1, TypeCorrect, WorkerIsSingle, RequestsLive, PTL DEF Spec, AttemptsIncrease

\* What a step of the controller is in ReconnectSingleFlight.
AbstractStep ==
  \/ SingleFlight!Announce \/ SingleFlight!Open \/ SingleFlight!Attempt \/ SingleFlight!Close
  \/ UNCHANGED <<generation, reconnecting, attempted>>

LEMMA RefinementStep ==
  TypeOK /\ LiveRequests /\ SingleWorker /\ [Next]_vars => AbstractStep
<1> SUFFICES ASSUME TypeOK, LiveRequests, SingleWorker, [Next]_vars PROVE AbstractStep
  OBVIOUS
<1>1. ASSUME NEW c \in Callers, CallerStep(c) PROVE AbstractStep
  <2>1. ASSUME NEW n \in Networks \cup {NoNetwork}, CallReconnectIms(c, n) PROVE AbstractStep
    BY <2>1 DEF CallReconnectIms, NewRequest, Input, AbstractStep, shared, SingleFlight!Announce, SingleFlight!Open, SingleFlight!Close,
         SingleFlight!Attempt
  <2>2. ASSUME CallScheduleRetry(c) PROVE AbstractStep
    BY <2>2 DEF CallScheduleRetry, Input, AbstractStep, shared, SingleFlight!Announce, SingleFlight!Open, SingleFlight!Close,
         SingleFlight!Attempt
  <2>3. ASSUME CallFailConnectAndRetry(c) PROVE AbstractStep
    BY <2>3 DEF CallFailConnectAndRetry, Input, AbstractStep, shared, SingleFlight!Announce, SingleFlight!Open, SingleFlight!Close,
         SingleFlight!Attempt
  <2>4. ASSUME InvalidatePendingReconnects(c) PROVE AbstractStep
    BY <2>4 DEF InvalidatePendingReconnects, Input, AbstractStep, shared, SingleFlight!Announce, SingleFlight!Open, SingleFlight!Close,
         SingleFlight!Attempt
  <2>5. ASSUME MarkConnected(c) PROVE AbstractStep
    BY <2>5 DEF MarkConnected, AbstractStep, shared, SingleFlight!Announce, SingleFlight!Open, SingleFlight!Close,
         SingleFlight!Attempt
  <2>6. ASSUME NEW n \in Networks, FirstNetwork(c, n) PROVE AbstractStep
    BY <2>6 DEF FirstNetwork, AbstractStep, shared, SingleFlight!Announce, SingleFlight!Open, SingleFlight!Close,
         SingleFlight!Attempt
  <2> QED BY <1>1, <2>1, <2>2, <2>3, <2>4, <2>5, <2>6 DEF CallerStep
<1>2. ASSUME NEW t \in Threads, ReconnectStep(t) PROVE AbstractStep
  <2>1. ASSUME StoreRequest(t) PROVE AbstractStep
    BY <2>1 DEF StoreRequest, AbstractStep, shared, SingleFlight!Announce, SingleFlight!Open, SingleFlight!Close,
         SingleFlight!Attempt
  <2>2. ASSUME LoseWorkerFlag(t) PROVE AbstractStep
    BY <2>2 DEF LoseWorkerFlag, AfterCall, AbstractStep, shared, SingleFlight!Announce, SingleFlight!Open, SingleFlight!Close,
         SingleFlight!Attempt
  <2>3. ASSUME NEW w \in Workers, StartWorker(t, w) PROVE AbstractStep
    BY <2>3 DEF StartWorker, AfterCall, AbstractStep, shared, SingleFlight!Announce, SingleFlight!Open, SingleFlight!Close,
         SingleFlight!Attempt
  <2> QED BY <1>2, <2>1, <2>2, <2>3 DEF ReconnectStep
<1>3. ASSUME NEW t \in Threads, ScheduleStep(t) PROVE AbstractStep
  <2>1. ASSUME ScheduleReadNetwork(t) PROVE AbstractStep
    BY <2>1 DEF ScheduleReadNetwork, AfterCall, AbstractStep, shared, SingleFlight!Announce, SingleFlight!Open, SingleFlight!Close,
         SingleFlight!Attempt
  <2>2. ASSUME ScheduleReadGeneration(t) PROVE AbstractStep
    BY <2>2 DEF ScheduleReadGeneration, AbstractStep, shared, SingleFlight!Announce, SingleFlight!Open, SingleFlight!Close,
         SingleFlight!Attempt
  <2>3. ASSUME RetryAlreadyScheduled(t) PROVE AbstractStep
    BY <2>3 DEF RetryAlreadyScheduled, AfterCall, AbstractStep, shared, SingleFlight!Announce, SingleFlight!Open, SingleFlight!Close,
         SingleFlight!Attempt
  <2>4. ASSUME NEW r \in Retriers, StartRetry(t, r) PROVE AbstractStep
    BY <2>4 DEF StartRetry, AfterCall, AbstractStep, shared, SingleFlight!Announce, SingleFlight!Open, SingleFlight!Close,
         SingleFlight!Attempt
  <2> QED BY <1>3, <2>1, <2>2, <2>3, <2>4 DEF ScheduleStep
<1>4. ASSUME NEW r \in Retriers, RetryStep(r) PROVE AbstractStep
  <2>1. ASSUME RetryWakes(r) PROVE AbstractStep
    BY <2>1 DEF RetryWakes, AbstractStep, shared, SingleFlight!Announce, SingleFlight!Open, SingleFlight!Close,
         SingleFlight!Attempt
  <2>2. ASSUME RetryReadNetwork(r) PROVE AbstractStep
    BY <2>2 DEF RetryReadNetwork, AbstractStep, shared, SingleFlight!Announce, SingleFlight!Open, SingleFlight!Close,
         SingleFlight!Attempt
  <2>3. ASSUME RetryReadGeneration(r) PROVE AbstractStep
    BY <2>3 DEF RetryReadGeneration, AbstractStep, shared, SingleFlight!Announce, SingleFlight!Open, SingleFlight!Close,
         SingleFlight!Attempt
  <2>4. ASSUME RetryReconnects(r) PROVE AbstractStep
    BY <2>4 DEF RetryReconnects, NewRequest, AbstractStep, shared, SingleFlight!Announce, SingleFlight!Open, SingleFlight!Close,
         SingleFlight!Attempt
  <2>5. ASSUME RetryFinally(r) PROVE AbstractStep
    BY <2>5 DEF RetryFinally, AbstractStep, shared, SingleFlight!Announce, SingleFlight!Open, SingleFlight!Close,
         SingleFlight!Attempt
  <2> QED BY <1>4, <2>1, <2>2, <2>3, <2>4, <2>5 DEF RetryStep
<1>5. ASSUME NEW w \in Workers, WorkerStep(w) PROVE AbstractStep
  <2>1. ASSUME TakeRequest(w) PROVE AbstractStep
    BY <2>1 DEF TakeRequest, AbstractStep, shared, SingleFlight!Announce, SingleFlight!Open, SingleFlight!Close,
         SingleFlight!Attempt
  <2>2. ASSUME NothingToTake(w) PROVE AbstractStep
    BY <2>2 DEF NothingToTake, AbstractStep, shared, SingleFlight!Announce, SingleFlight!Open, SingleFlight!Close,
         SingleFlight!Attempt
  <2>3. ASSUME DropConnection(w) PROVE AbstractStep
    BY <2>3 DEF DropConnection, AbstractStep, shared, SingleFlight!Announce, SingleFlight!Open, SingleFlight!Close,
         SingleFlight!Attempt
  <2>4. ASSUME SetCurrentNetwork(w) PROVE AbstractStep
    BY <2>4 DEF SetCurrentNetwork, AbstractStep, shared, SingleFlight!Announce, SingleFlight!Open, SingleFlight!Close,
         SingleFlight!Attempt
  <2>5. ASSUME CheckGeneration(w) PROVE AbstractStep
    BY <2>5 DEF CheckGeneration, AbstractStep, shared, SingleFlight!Announce, SingleFlight!Open, SingleFlight!Close,
         SingleFlight!Attempt
  <2>6. ASSUME CheckNetwork(w) PROVE AbstractStep
    BY <2>6, PoolsAssumption DEF CheckNetwork, AbstractStep, shared, Goto, TypeOK, Request, LiveRequests, Holds, SingleWorker, InLoop, LoopSteps, SingleFlight!Announce, SingleFlight!Open, SingleFlight!Close,
         SingleFlight!Attempt
  <2>7. ASSUME ConnectReturns(w) PROVE AbstractStep
    BY <2>7 DEF ConnectReturns, AbstractStep, shared, SingleFlight!Announce, SingleFlight!Open, SingleFlight!Close,
         SingleFlight!Attempt
  <2>8. ASSUME ConnectFails(w) PROVE AbstractStep
    BY <2>8 DEF ConnectFails, Input, AbstractStep, shared, SingleFlight!Announce, SingleFlight!Open, SingleFlight!Close,
         SingleFlight!Attempt
  <2>9. ASSUME ReleaseWorker(w) PROVE AbstractStep
    BY <2>9, PoolsAssumption DEF ReleaseWorker, AbstractStep, shared, Goto, TypeOK, Request, LiveRequests, Holds, SingleWorker, InLoop, LoopSteps, SingleFlight!Announce, SingleFlight!Open, SingleFlight!Close,
         SingleFlight!Attempt
  <2>10. ASSUME RecheckMailbox(w) PROVE AbstractStep
    BY <2>10 DEF RecheckMailbox, AbstractStep, shared, SingleFlight!Announce, SingleFlight!Open, SingleFlight!Close,
         SingleFlight!Attempt
  <2> QED BY <1>5, <2>1, <2>2, <2>3, <2>4, <2>5, <2>6, <2>7, <2>8, <2>9, <2>10 DEF WorkerStep
<1>6. CASE UNCHANGED vars
  BY <1>6 DEF vars, AbstractStep, shared, SingleFlight!Announce, SingleFlight!Open, SingleFlight!Close,
         SingleFlight!Attempt, AbstractStep, shared, SingleFlight!Announce, SingleFlight!Open, SingleFlight!Close,
         SingleFlight!Attempt
<1> QED BY <1>1, <1>2, <1>3, <1>4, <1>5, <1>6 DEF Next

\* Every behaviour of the controller is one of ReconnectSingleFlight: drawing a
\* generation announces, the compareAndSet of the worker flag opens a flight, its
\* clearing closes it, and connect() is an attempt inside a flight.
THEOREM ImplementsSingleFlight == Spec => SingleFlightSpec
<1>1. Init => SingleFlight!Init
  BY DEF Init, SingleFlight!Init
<1>2. TypeOK /\ LiveRequests /\ SingleWorker /\ [Next]_vars =>
        [SingleFlight!Next]_(SingleFlight!vars)
  BY RefinementStep DEF AbstractStep, SingleFlight!Next, SingleFlight!vars
<1> QED BY <1>1, <1>2, TypeCorrect, WorkerIsSingle, RequestsLive, PTL
        DEF Spec, SingleFlightSpec, SingleFlight!Spec

-----------------------------------------------------------------------------
(* The restarter of the IMS network request, RequestRestarter: the other shared flag of
   SipHandler that must never stay set, with threads and variables of its own. *)

\* The flag invariant needs only that at and requestGeneration are functions over the threads, and
\* that a thread that ends invalidate() is not a restart thread.
LEMMA RestarterStarts == RestarterInit => RestarterTypeOK /\ FlagHasOwner
<1> SUFFICES ASSUME RestarterInit PROVE RestarterTypeOK /\ FlagHasOwner
  OBVIOUS
<1>1. at \in [RestarterThreads -> RestarterSteps]
  BY DEF RestarterInit, RestarterSteps
<1>2. requestGeneration \in [RestarterThreads -> Nat]
  BY DEF RestarterInit
<1> QED BY <1>1, <1>2 DEF RestarterInit, RestarterTypeOK, FlagHasOwner

LEMMA RestarterMoves ==
  RestarterTypeOK /\ FlagHasOwner /\ [RestarterNext]_restarterVars
    => RestarterTypeOK' /\ FlagHasOwner'
<1> DEFINE Inv == RestarterTypeOK /\ FlagHasOwner
<1> SUFFICES ASSUME Inv, [RestarterNext]_restarterVars PROVE Inv'
  OBVIOUS
<1> USE RestarterPools DEF RestarterThreads
<1>1. ASSUME NEW c \in Requesters, RequesterStep(c) PROVE Inv'
  <2>1. ASSUME CallGetVolteNetwork(c) PROVE Inv'
    BY <2>1 DEF CallGetVolteNetwork, Event, MoveTo, RestarterTypeOK, RestarterSteps,
      FlagHasOwner, Live
  <2>2. ASSUME NetworkLost(c) PROVE Inv'
    <3>1. RestarterTypeOK'
      <4>1. events' \in Nat
        BY <2>2 DEF NetworkLost, Event, RestarterTypeOK
      <4>2. at' \in [RestarterThreads -> RestarterSteps]
        BY <2>2 DEF NetworkLost, MoveTo, RestarterTypeOK, RestarterSteps
      <4>3. /\ callback' \in BOOLEAN
            /\ UNCHANGED <<scheduled, currentGeneration, ratReady, stopped, requestGeneration>>
        BY <2>2 DEF NetworkLost
      <4> QED BY <4>1, <4>2, <4>3 DEF RestarterTypeOK
    <3>2. FlagHasOwner'
      BY <2>2 DEF NetworkLost, Event, MoveTo, RestarterTypeOK, FlagHasOwner, Live
    <3> QED BY <3>1, <3>2
  <2>3. ASSUME CallSchedule(c) PROVE Inv'
    BY <2>3 DEF CallSchedule, Event, MoveTo, RestarterTypeOK, RestarterSteps, FlagHasOwner, Live
  <2>4. ASSUME Shutdown(c) PROVE Inv'
    BY <2>4 DEF Shutdown, Event, MoveTo, RestarterTypeOK, RestarterSteps, FlagHasOwner, Live
  <2> QED BY <1>1, <2>1, <2>2, <2>3, <2>4 DEF RequesterStep
<1>2. ASSUME NEW c \in Requesters, ShutdownStep(c) PROVE Inv'
  <2>1. ASSUME InvalidateClearsFlag(c) PROVE Inv'
    BY <2>1 DEF InvalidateClearsFlag, MoveTo, RestarterTypeOK, RestarterSteps, FlagHasOwner, Live
  <2>2. ASSUME UnregisterCallback(c) PROVE Inv'
    BY <2>2 DEF UnregisterCallback, MoveTo, RestarterTypeOK, RestarterSteps, FlagHasOwner, Live
  <2> QED BY <1>2, <2>1, <2>2 DEF ShutdownStep
<1>3. ASSUME NEW t \in RestarterThreads, RequestStep(t) PROVE Inv'
  <2>1. ASSUME AlreadyScheduled(t) PROVE Inv'
    BY <2>1 DEF AlreadyScheduled, AfterSchedule, MoveTo, RestarterTypeOK, RestarterSteps,
      FlagHasOwner, Live
  <2>2. ASSUME WinSchedule(t) PROVE Inv'
    BY <2>2 DEF WinSchedule, MoveTo, RestarterTypeOK, RestarterSteps, FlagHasOwner, Live
  <2>3. ASSUME NEW r \in Restarters, StartRestart(t, r) PROVE Inv'
    BY <2>3 DEF StartRestart, AfterSchedule, MoveTo, RestarterTypeOK, RestarterSteps,
      FlagHasOwner, Live
  <2>4. ASSUME VolteCheckRat(t) PROVE Inv'
    BY <2>4 DEF VolteCheckRat, MoveTo, RestarterTypeOK, RestarterSteps, FlagHasOwner, Live
  <2>5. ASSUME VolteRequest(t) PROVE Inv'
    BY <2>5 DEF VolteRequest, AfterSchedule, MoveTo, RestarterTypeOK, RestarterSteps,
      FlagHasOwner, Live
  <2> QED BY <1>3, <2>1, <2>2, <2>3, <2>4, <2>5 DEF RequestStep
<1>4. ASSUME NEW r \in Restarters, RestartStep(r) PROVE Inv'
  <2>1. ASSUME WakeAndCheckGeneration(r) PROVE Inv'
    BY <2>1 DEF WakeAndCheckGeneration, MoveTo, RestarterTypeOK, RestarterSteps, FlagHasOwner,
      Live
  <2>2. ASSUME CheckRat(r) PROVE Inv'
    BY <2>2 DEF CheckRat, MoveTo, RestarterTypeOK, RestarterSteps, FlagHasOwner, Live
  <2>3. ASSUME FinallyCompare(r) PROVE Inv'
    BY <2>3 DEF FinallyCompare, MoveTo, RestarterTypeOK, RestarterSteps, FlagHasOwner, Live
  <2>4. ASSUME FinallyClear(r) PROVE Inv'
    BY <2>4 DEF FinallyClear, MoveTo, RestarterTypeOK, RestarterSteps, FlagHasOwner, Live
  <2> QED BY <1>4, <2>1, <2>2, <2>3, <2>4 DEF RestartStep
<1>5. CASE RatChanges
  BY <1>5 DEF RatChanges, Event, RestarterTypeOK, RestarterSteps, FlagHasOwner, Live
<1>6. CASE UNCHANGED restarterVars
  BY <1>6 DEF restarterVars, RestarterTypeOK, RestarterSteps, FlagHasOwner, Live
<1> QED BY <1>1, <1>2, <1>3, <1>4, <1>5, <1>6 DEF RestarterNext

LEMMA RestarterInvariant == RestarterSpec => [](RestarterTypeOK /\ FlagHasOwner)
  BY RestarterStarts, RestarterMoves, PTL DEF RestarterSpec

\* Every reachable state of the restarter, its callers and its threads is well typed.
THEOREM RestarterTypeCorrect == RestarterSpec => []RestarterTypeOK
  BY RestarterInvariant, PTL

\* The scheduled flag is never set without a thread that will clear it, so no restart
\* of the IMS network request is ignored for good (schedule, its finally, invalidate).
THEOREM FlagIsOwned == RestarterSpec => []FlagHasOwner
  BY RestarterInvariant, PTL
=============================================================================
