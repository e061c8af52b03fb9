--------------------------- MODULE RequestRestarter ---------------------------
(***************************************************************************)
(* me.phh.sip.ImsNetworkRequestRestarter with SipHandler.getVolteNetwork,  *)
(* its requestImsNetwork callback: after the IMS bearer is gone, wait for  *)
(* an IMS-capable RAT and register a fresh NetworkCallback.                *)
(*                                                                         *)
(* Requesters are the threads of SipHandler (connectivity callbacks, the   *)
(* handler thread that runs shutdown); Restarters the threads schedule     *)
(* starts.  Each step is one access to shared memory.                      *)
(***************************************************************************)
EXTENDS Integers, FiniteSets

CONSTANTS
  Requesters,   \* threads of the rest of the program
  Restarters,   \* pool of threads for schedule()
  MaxEvents     \* bound on calls from outside and on changes of the RAT

ASSUME RestarterPools == Requesters \cap Restarters = {}
ASSUME EventsAssumption == MaxEvents \in Nat

RestarterThreads == Requesters \cup Restarters

VARIABLES
  scheduled,          \* AtomicBoolean: a restart is under way
  currentGeneration,  \* generation, an AtomicInteger that invalidate() increments
  callback,           \* SipHandler.imsNetworkCallback # null: the IMS network is requested
  ratReady,           \* isRatReadyForImsNetworkRequest of the telephony state
  stopped,            \* shutdown has run
  at,                 \* next step of every thread
  requestGeneration,  \* the generation a restart thread was started with
  events

restarterVars == <<scheduled, currentGeneration, callback, ratReady, stopped, at,
                   requestGeneration, events>>

RestarterSteps ==
  {"idle",
   "scheduleFlag", "scheduleGeneration",                 \* schedule
   "sleep", "checkRat", "finallyRead", "finallyClear",   \* the restart thread
   "volteRat", "volteRequest",                           \* getVolteNetwork
   "invalidateFlag", "unregister"}                       \* invalidate, rest of shutdown

RestarterTypeOK ==
  /\ scheduled \in BOOLEAN
  /\ currentGeneration \in Nat
  /\ callback \in BOOLEAN
  /\ ratReady \in BOOLEAN
  /\ stopped \in BOOLEAN
  /\ at \in [RestarterThreads -> RestarterSteps]
  /\ requestGeneration \in [RestarterThreads -> Nat]
  /\ events \in Nat

RestarterInit ==
  /\ scheduled = FALSE
  /\ currentGeneration = 0
  /\ callback = FALSE
  /\ ratReady \in BOOLEAN
  /\ stopped = FALSE
  /\ at = [t \in RestarterThreads |-> "idle"]
  /\ requestGeneration = [t \in RestarterThreads |-> 0]
  /\ events = 0

MoveTo(t, step) == at' = [at EXCEPT ![t] = step]

\* schedule() and getVolteNetwork() return out of the program or, in a restart
\* thread, to its finally.
AfterSchedule(t) == IF t \in Restarters THEN "finallyRead" ELSE "idle"

Event == events < MaxEvents /\ events' = events + 1

-----------------------------------------------------------------------------
(* schedule *)

\* "IMS network request restart already scheduled, ignore".
AlreadyScheduled(t) ==
  /\ at[t] = "scheduleFlag"
  /\ scheduled
  /\ MoveTo(t, AfterSchedule(t))
  /\ UNCHANGED <<scheduled, currentGeneration, callback, ratReady, stopped,
                 requestGeneration, events>>

WinSchedule(t) ==
  /\ at[t] = "scheduleFlag"
  /\ ~scheduled
  /\ scheduled' = TRUE
  /\ MoveTo(t, "scheduleGeneration")
  /\ UNCHANGED <<currentGeneration, callback, ratReady, stopped, requestGeneration, events>>

\* The generation is read after the flag is won; then the thread starts.
StartRestart(t, r) ==
  /\ at[t] = "scheduleGeneration"
  /\ at[r] = "idle"
  /\ requestGeneration' = [requestGeneration EXCEPT ![r] = currentGeneration]
  /\ at' = [at EXCEPT ![t] = AfterSchedule(t), ![r] = "sleep"]
  /\ UNCHANGED <<scheduled, currentGeneration, callback, ratReady, stopped, events>>

(* the restart thread *)

\* "Skipping stale IMS network request restart".
WakeAndCheckGeneration(r) ==
  /\ at[r] = "sleep"
  /\ MoveTo(r, IF requestGeneration[r] = currentGeneration THEN "checkRat" ELSE "finallyRead")
  /\ UNCHANGED <<scheduled, currentGeneration, callback, ratReady, stopped,
                 requestGeneration, events>>

CheckRat(r) ==
  /\ at[r] = "checkRat"
  /\ MoveTo(r, IF ratReady THEN "volteRat" ELSE "sleep")
  /\ UNCHANGED <<scheduled, currentGeneration, callback, ratReady, stopped,
                 requestGeneration, events>>

FinallyCompare(r) ==
  /\ at[r] = "finallyRead"
  /\ MoveTo(r, IF requestGeneration[r] = currentGeneration THEN "finallyClear" ELSE "idle")
  /\ UNCHANGED <<scheduled, currentGeneration, callback, ratReady, stopped,
                 requestGeneration, events>>

FinallyClear(r) ==
  /\ at[r] = "finallyClear"
  /\ scheduled' = FALSE
  /\ MoveTo(r, "idle")
  /\ UNCHANGED <<currentGeneration, callback, ratReady, stopped, requestGeneration, events>>

(* getVolteNetwork *)

\* It checks the RAT again and schedules a restart of its own if it is not ready.
VolteCheckRat(t) ==
  /\ at[t] = "volteRat"
  /\ MoveTo(t, IF ratReady THEN "volteRequest" ELSE "scheduleFlag")
  /\ UNCHANGED <<scheduled, currentGeneration, callback, ratReady, stopped,
                 requestGeneration, events>>

\* Unregister the old callback, register the new one.
VolteRequest(t) ==
  /\ at[t] = "volteRequest"
  /\ callback' = TRUE
  /\ MoveTo(t, AfterSchedule(t))
  /\ UNCHANGED <<scheduled, currentGeneration, ratReady, stopped, requestGeneration, events>>

-----------------------------------------------------------------------------
(* calls from the rest of the program *)

\* PhhMmTelFeature starts the handler.
CallGetVolteNetwork(c) ==
  /\ at[c] = "idle" /\ ~stopped /\ Event
  /\ MoveTo(c, "volteRat")
  /\ UNCHANGED <<scheduled, currentGeneration, callback, ratReady, stopped, requestGeneration>>

\* handleImsNetworkLost: the callback that reported the loss is unregistered first.
NetworkLost(c) ==
  /\ at[c] = "idle" /\ callback /\ Event
  /\ callback' = FALSE
  /\ MoveTo(c, "scheduleFlag")
  /\ UNCHANGED <<scheduled, currentGeneration, ratReady, stopped, requestGeneration>>

\* The other callers of scheduleImsNetworkRequestRestart keep the callback.
CallSchedule(c) ==
  /\ at[c] = "idle" /\ ~stopped /\ Event
  /\ MoveTo(c, "scheduleFlag")
  /\ UNCHANGED <<scheduled, currentGeneration, callback, ratReady, stopped, requestGeneration>>

\* shutdown: invalidate() bumps the generation, then clears the flag; the callback
\* goes last.
Shutdown(c) ==
  /\ at[c] = "idle" /\ ~stopped /\ Event
  /\ stopped' = TRUE
  /\ currentGeneration' = currentGeneration + 1
  /\ MoveTo(c, "invalidateFlag")
  /\ UNCHANGED <<scheduled, callback, ratReady, requestGeneration>>

\* Mutant: invalidate() leaves the flag to the threads it has made stale.
InvalidateKeepsFlag(c) ==
  /\ at[c] = "invalidateFlag"
  /\ MoveTo(c, "unregister")
  /\ UNCHANGED <<scheduled, currentGeneration, callback, ratReady, stopped,
                 requestGeneration, events>>

InvalidateClearsFlag(c) ==
  /\ at[c] = "invalidateFlag"
  /\ scheduled' = FALSE
  /\ MoveTo(c, "unregister")
  /\ UNCHANGED <<currentGeneration, callback, ratReady, stopped, requestGeneration, events>>

UnregisterCallback(c) ==
  /\ at[c] = "unregister"
  /\ callback' = FALSE
  /\ MoveTo(c, "idle")
  /\ UNCHANGED <<scheduled, currentGeneration, ratReady, stopped, requestGeneration, events>>

RatChanges ==
  /\ Event
  /\ ratReady' = ~ratReady
  /\ UNCHANGED <<scheduled, currentGeneration, callback, stopped, at, requestGeneration>>

-----------------------------------------------------------------------------
RequesterStep(c) ==
  \/ CallGetVolteNetwork(c) \/ NetworkLost(c) \/ CallSchedule(c) \/ Shutdown(c)

ShutdownStep(c) == InvalidateClearsFlag(c) \/ UnregisterCallback(c)

RequestStep(t) ==
  \/ AlreadyScheduled(t) \/ WinSchedule(t)
  \/ \E r \in Restarters : StartRestart(t, r)
  \/ VolteCheckRat(t) \/ VolteRequest(t)

RestartStep(r) ==
  \/ WakeAndCheckGeneration(r) \/ CheckRat(r) \/ FinallyCompare(r) \/ FinallyClear(r)

RestarterNext ==
  \/ \E c \in Requesters : RequesterStep(c) \/ ShutdownStep(c)
  \/ \E t \in RestarterThreads : RequestStep(t)
  \/ \E r \in Restarters : RestartStep(r)
  \/ RatChanges

RestarterSpec == RestarterInit /\ [][RestarterNext]_restarterVars

\* Started threads and calls run on; inputs and the RAT owe nothing.
RestarterFairness ==
  /\ \A t \in RestarterThreads : WF_restarterVars(RequestStep(t))
  /\ \A c \in Requesters : WF_restarterVars(ShutdownStep(c))
  /\ \A r \in Restarters : WF_restarterVars(RestartStep(r))

RestarterFairSpec == RestarterSpec /\ RestarterFairness

-----------------------------------------------------------------------------
Live(r) == at[r] # "idle" /\ requestGeneration[r] = currentGeneration

\* A set flag always has a thread that will clear it: the winner of the flag on its way
\* to start the restart thread, a restart thread of the current generation, or the
\* invalidate() that made its owner stale.  A flag without one would silence every later
\* restart (schedule, finally and invalidate).
FlagHasOwner ==
  scheduled =>
    \/ \E t \in RestarterThreads : at[t] \in {"scheduleGeneration", "invalidateFlag"}
    \/ \E r \in Restarters : Live(r)

\* With an IMS-capable RAT in the end, the flag is free again and again.
FlagReleased == <>[]ratReady => []<>(~scheduled)

-----------------------------------------------------------------------------
(* What the log lines say, and the threads do not keep. *)

\* "Deferring IMS network request until LTE/NR/IWLAN is back" (SipHandler.kt:2694): a
\* request deferred because the RAT is not ready is made once it stays ready.  Inside
\* the restart thread the flag is still its own, so the deferral is ignored.
DeferredRequestMade ==
  <>[]ratReady =>
    \A t \in RestarterThreads : (at[t] = "volteRat" /\ ~ratReady) ~> (callback \/ stopped)

\* "Invalidated pending IMS network request restarts" (ImsNetworkRequestRestarter.kt:23):
\* after shutdown no restart thread requests the network.  The generation is compared
\* before the RAT is, and a restart may even draw the new generation.
NoRestartAfterShutdown ==
  [][stopped => \A r \in Restarters : at[r] = "volteRequest" => at'[r] = at[r]]_restarterVars
=============================================================================
