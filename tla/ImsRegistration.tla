---------------------------- MODULE ImsRegistration ----------------------------
(***************************************************************************)
(* IMS registration and its recovery in me.phh.sip.SipHandler: the bearer  *)
(* callbacks, the REGISTER flow, the drop and reconnect policy around it   *)
(* and what the framework is told.                                         *)
(*                                                                         *)
(* A handler is one step; a REGISTER flow is several, because connect()    *)
(* blocks on sleeps and replies while callbacks, readers and timers run.   *)
(* ReconnectController and RequestRestarter have the thread-level detail   *)
(* of the two helpers: here a generation is the flag `cur' of a request    *)
(* and a restart is one Boolean.                                           *)
(***************************************************************************)
EXTENDS Integers, FiniteSets

CONSTANTS
  Networks,    \* Network objects ConnectivityManager may report
  NoNetwork,
  NoRequest,   \* no pending request, no retry
  Kinds,       \* the events from outside that this instance allows
  MaxInputs    \* bound on those events

ASSUME NetworkAssumption == NoNetwork \notin Networks
ASSUME InputsAssumption == MaxInputs \in Nat

VARIABLES
  link,             \* what LinkProperties of a network say
  suspended,        \* networks without NET_CAPABILITY_NOT_SUSPENDED
  inputs,
  network,          \* SipHandler.network
  callback,         \* imsNetworkCallback is registered
  seen,             \* network the callback has reported as available
  seenLink,         \* and its last reported link
  abandoned,        \* abandonnedBecauseOfNoPcscf
  restart,          \* an IMS network request restart is scheduled
  imsReady,
  tech,             \* imsRegistrationTech
  framework,        \* what telephony was told last
  transport,        \* protected SIP sockets: open, dead at the other end, or closed here
  reader,           \* reader loops of the current sipReaderGeneration run
  gate,             \* imsReconnectSingleFlight, within its hold time
  deferred,         \* pendingImsReconnectAfterActiveCallReason
  waitingCellular,  \* pendingCellularReconnectAfterWfcDisable
  grace,            \* network with an armed suspension check
  call,             \* hasActiveOrPendingCallForImsReconnectDeferral
  pending,          \* mailbox of the reconnect controller
  conn,             \* phase of the two flows that call connect()
  req,              \* request the reconnect worker handles
  retry,            \* sleeping retry of the reconnect controller
  lost,             \* history: a retry or restart suppressed by one that comes to nothing
  crashed           \* history: the process has died

environment  == <<link, suspended>>
bearer       == <<network, callback, seen, seenLink, abandoned, restart>>
registration == <<imsReady, tech, framework, transport, reader>>
policy       == <<gate, deferred, waitingCellular, grace, call>>
control      == <<pending, conn, req, retry, lost>>
vars == <<environment, inputs, bearer, registration, policy, control, crashed>>

Links == {"off", "gone", "noPcscf", "lte", "iwlan"}
Alive(n) == n \in Networks /\ link[n] \in {"noPcscf", "lte", "iwlan"}
HasPcscf(l) == l \in {"lte", "iwlan"}
TechOf(l) == IF l = "iwlan" THEN "iwlan" ELSE "lte"

\* What a reconnect reason tells apart: a transient loss of the SIP transport, a
\* tech-only handover, the same one deferred by a call, anything else.
Reasons == {"transport", "tech", "deferredTech", "other"}
Requests == [net : Networks \cup {NoNetwork}, reason : Reasons, cur : BOOLEAN]
NewRequest(n, why) == [net |-> n, reason |-> why, cur |-> TRUE]
Stale(r) == IF r = NoRequest THEN r ELSE [r EXCEPT !.cur = FALSE]

\* The reconnect worker and the thread of the first onAvailable.
Flows == {"worker", "first"}
Phases == {"idle", "sleep", "registering", "answered", "returning"}

BearerTypeOK ==
  /\ network \in Networks \cup {NoNetwork} /\ seen \in Networks \cup {NoNetwork}
  /\ callback \in BOOLEAN /\ abandoned \in BOOLEAN /\ restart \in BOOLEAN
  /\ seenLink \in Links

RegistrationTypeOK ==
  /\ imsReady \in BOOLEAN /\ reader \in BOOLEAN
  /\ tech \in {"lte", "iwlan"}
  /\ framework \in {"deregistered", "registering", "registered"}
  /\ transport \in {"none", "open", "dead", "closed"}

PolicyTypeOK ==
  /\ gate \in BOOLEAN /\ waitingCellular \in BOOLEAN /\ call \in BOOLEAN
  /\ deferred \in {"no", "tech", "other"}
  /\ grace \in Networks \cup {NoNetwork}

ControlTypeOK ==
  /\ {pending, retry, req} \subseteq Requests \cup {NoRequest}
  /\ conn \in [Flows -> Phases]
  /\ lost \in SUBSET {"retry", "restart"}

EnvironmentTypeOK ==
  /\ link \in [Networks -> Links] /\ suspended \in SUBSET Networks
  /\ inputs \in Nat /\ crashed \in BOOLEAN

TypeOK ==
  /\ EnvironmentTypeOK
  /\ BearerTypeOK /\ RegistrationTypeOK /\ PolicyTypeOK /\ ControlTypeOK

\* PhhMmTelFeature has called getVolteNetwork(), which waits for a RAT if there is none.
ProcessStart ==
  /\ network = NoNetwork /\ seen = NoNetwork /\ seenLink = "off"
  /\ callback \in BOOLEAN /\ restart = ~callback
  /\ abandoned = FALSE
  /\ imsReady = FALSE /\ tech = "lte" /\ framework = "deregistered"
  /\ transport = "none" /\ reader = FALSE
  /\ gate = FALSE /\ deferred = "no" /\ waitingCellular = FALSE
  /\ grace = NoNetwork /\ call = FALSE
  /\ pending = NoRequest /\ conn = [f \in Flows |-> "idle"]
  /\ req = NoRequest /\ retry = NoRequest /\ lost = {}

Init ==
  /\ link = [n \in Networks |-> "off"] /\ suspended = {} /\ inputs = 0
  /\ ProcessStart
  /\ crashed = FALSE

Input(kind) == kind \in Kinds /\ inputs < MaxInputs /\ inputs' = inputs + 1

-----------------------------------------------------------------------------
(* Parts of handlers *)

\* dropImsConnection: calls, IMS state, reader generation and sockets go; the framework
\* hears of it only if IMS was ready.
Drop(notify) ==
  /\ call' = FALSE
  /\ imsReady' = FALSE
  /\ framework' = IF imsReady /\ notify THEN "deregistered" ELSE framework
  /\ transport' = IF transport = "none" THEN "none" ELSE "closed"
  /\ reader' = FALSE
  /\ UNCHANGED tech

\* reconnectController.reconnectIms: a new generation.
Enqueue(n, why) ==
  /\ pending' = NewRequest(n, why)
  /\ req' = Stale(req)
  /\ retry' = Stale(retry)
  /\ UNCHANGED <<conn, lost>>

\* SipHandler.reconnectIms: the same behind the time-limited gate.
Submit(n, why) ==
  IF gate THEN UNCHANGED <<gate, control>>
  ELSE gate' = TRUE /\ Enqueue(n, why)

InvalidatePendingReconnects ==
  /\ pending' = Stale(pending)
  /\ req' = Stale(req)
  /\ retry' = Stale(retry)
  /\ UNCHANGED <<conn, lost>>

\* scheduleReconnectRetry: one at a time, for the current network and generation.
ScheduledRetry(why) ==
  IF retry # NoRequest \/ network = NoNetwork THEN retry ELSE NewRequest(network, why)

\* The sleeping retry it yields to may be one that will find itself stale.
LostToRetry ==
  IF retry # NoRequest /\ (retry.cur => retry.net # network)
  THEN lost \cup {"retry"} ELSE lost

Reconnecting == conn["worker"] # "idle" \/ pending # NoRequest

\* shouldReconnectAfterSipTransportLoss, then reconnectIms.
OnTransportLoss(why) ==
  IF waitingCellular THEN UNCHANGED <<restart, deferred, gate, control>>
  ELSE IF call THEN deferred' = "other" /\ UNCHANGED <<restart, gate, control>>
  ELSE IF Reconnecting \/ network = NoNetwork
    THEN UNCHANGED <<restart, deferred, gate, control>>
  ELSE IF ~Alive(network) THEN restart' = TRUE /\ UNCHANGED <<deferred, gate, control>>
  ELSE Submit(NoNetwork, why) /\ UNCHANGED <<restart, deferred>>

\* Mutant: the reason no longer matters.
KeepsForAnyReason(r) == imsReady /\ r.net \in {NoNetwork, network} /\ Alive(network)

\* shouldKeepFrameworkRegistrationDuringReconnect, with the default carrier policy.
KeepsFrameworkRegistration(r) ==
  /\ imsReady
  /\ r.net \in {NoNetwork, network}
  /\ r.reason \in {"transport", "tech"}
  /\ Alive(network)

-----------------------------------------------------------------------------
(* The world outside: bearers come, change and go. *)

Unreferenced(n) ==
  /\ n \notin {network, seen, grace}
  /\ \A r \in {pending, req, retry} \ {NoRequest} : r.net # n

\* A Network object names one bearer: a lost one is not seen again while the program
\* still refers to it.
NetworkUp(n) ==
  /\ ~Alive(n) /\ Unreferenced(n) /\ Input("network")
  /\ \E l \in Links \ {"off", "gone"} : link' = [link EXCEPT ![n] = l]
  /\ suspended' = suspended \ {n}
  /\ UNCHANGED <<bearer, registration, policy, control, crashed>>

LinkChanges(n) ==
  /\ Alive(n) /\ Input("link")
  /\ \E l \in Links \ {"off", "gone", link[n]} : link' = [link EXCEPT ![n] = l]
  /\ seenLink' = IF seen = n THEN "off" ELSE seenLink   \* a callback is owed
  /\ UNCHANGED <<suspended, network, callback, seen, abandoned, restart, registration,
                 policy, control, crashed>>

NetworkDown(n) ==
  /\ Alive(n) /\ Input("network")
  /\ link' = [link EXCEPT ![n] = "gone"]
  /\ UNCHANGED <<suspended, bearer, registration, policy, control, crashed>>

-----------------------------------------------------------------------------
(* Bearer callbacks *)

\* onAvailable for the first network a callback gets, or for a better one; the link of a
\* network is reported before the next network is.
Reported(n) ==
  /\ callback /\ Alive(n) /\ seen # n
  /\ (seen = NoNetwork /\ UNCHANGED inputs) \/ (Alive(seen) /\ seenLink # "off" /\ Input("network"))
  /\ seen' = n /\ seenLink' = "off"

\* handleImsNetworkAvailable, first network: a thread of its own connects 4 s later.
FirstNetworkAvailable(n) ==
  /\ Reported(n) /\ network = NoNetwork
  /\ network' = n
  /\ conn' = [conn EXCEPT !["first"] = "sleep"]
  /\ UNCHANGED <<environment, callback, abandoned, restart, registration,
                 policy, pending, req, retry, lost, crashed>>

NextNetworkAvailable(n) ==
  /\ Reported(n) /\ network # NoNetwork
  /\ IF abandoned \/ network # n THEN Submit(n, "other") ELSE UNCHANGED <<gate, control>>
  /\ UNCHANGED <<environment, network, callback, abandoned, restart, registration,
                 deferred, waitingCellular, grace, call, crashed>>

\* handleImsNetworkLost: the gate opens for any network, the rest is for the current one.
ImsNetworkLost(n) ==
  /\ callback /\ seen = n /\ ~Alive(n)
  /\ seen' = NoNetwork /\ seenLink' = "off"
  /\ gate' = FALSE
  /\ IF network = n
     THEN /\ callback' = FALSE /\ abandoned' = TRUE /\ restart' = TRUE
          /\ InvalidatePendingReconnects /\ Drop(TRUE)
     ELSE UNCHANGED <<callback, abandoned, restart, control, registration, call>>
  /\ UNCHANGED <<environment, inputs, network, deferred, waitingCellular, grace, crashed>>

\* LinkProperties that differ, or an update that leaves link alone (moved addresses, say).
LinkReported(n) ==
  /\ callback /\ seen = n /\ Alive(n)
  /\ (seenLink # link[n] /\ UNCHANGED inputs) \/ (seenLink = link[n] /\ Input("link"))
  /\ seenLink' = link[n]

\* handleImsNetworkLinkPropertiesChanged, case by case in the order of its returns.
PcscfAppeared(n) ==
  /\ LinkReported(n)
  /\ HasPcscf(link[n]) /\ abandoned
  /\ Submit(n, "other")
  /\ UNCHANGED <<environment, network, callback, seen, abandoned, restart,
                 registration, deferred, waitingCellular, grace, call, crashed>>

WaitsForCellularLink(n) ==
  /\ LinkReported(n)
  /\ ~(HasPcscf(link[n]) /\ abandoned)
  /\ waitingCellular /\ link[n] # "lte"
  /\ UNCHANGED <<environment, network, callback, seen, abandoned, restart,
                 registration, policy, control, crashed>>

CellularLinkAppeared(n) ==
  /\ LinkReported(n)
  /\ ~(HasPcscf(link[n]) /\ abandoned)
  /\ waitingCellular /\ link[n] = "lte"
  /\ waitingCellular' = FALSE
  /\ Submit(n, "other")
  /\ UNCHANGED <<environment, network, callback, seen, abandoned, restart,
                 registration, deferred, grace, call, crashed>>

\* Local address or P-CSCF may differ from the ones of the last connect.
LinkPropertiesChanged(n, moved) ==
  LET techChanged == imsReady /\ tech # TechOf(link[n])
      techOnly    == techChanged /\ network = n /\ ~moved
  IN  /\ LinkReported(n)
      /\ ~(HasPcscf(link[n]) /\ abandoned)
      /\ ~waitingCellular
      /\ moved => seenLink = link[n] /\ transport # "none" /\ HasPcscf(link[n])
      /\ IF techOnly /\ call
         THEN deferred' = "tech" /\ UNCHANGED <<gate, control>>
         ELSE /\ UNCHANGED deferred
              /\ IF network # n \/ moved \/ techChanged
                 THEN Submit(n, IF techOnly THEN "tech" ELSE "other")
                 ELSE UNCHANGED <<gate, control>>
      /\ UNCHANGED <<environment, network, callback, seen, abandoned, restart,
                     registration, waitingCellular, grace, call, crashed>>

-----------------------------------------------------------------------------
(* ImsTransportGuard: a suspended network gets 8 s of grace. *)

Suspended(n) ==
  /\ Alive(n) /\ n = network /\ n = seen /\ callback
  /\ n \notin suspended /\ Input("suspend")
  /\ suspended' = suspended \cup {n}
  /\ IF call THEN deferred' = "other" /\ grace' = NoNetwork   \* older checks are superseded
             ELSE grace' = n /\ UNCHANGED deferred
  /\ UNCHANGED <<link, bearer, registration, gate, waitingCellular, call, control, crashed>>

NotSuspended(n) ==
  /\ n \in suspended /\ n = network /\ n = seen /\ callback /\ Input("suspend")
  /\ suspended' = suspended \ {n}
  /\ grace' = NoNetwork
  /\ UNCHANGED <<link, bearer, registration, gate, deferred, waitingCellular, call,
                 control, crashed>>

\* Mutant: the check no longer compares its network with the current one.
GraceIgnoresNetwork ==
  /\ grace # NoNetwork
  /\ grace' = NoNetwork
  /\ IF Alive(grace) /\ grace \notin suspended
     THEN UNCHANGED <<registration, call, control, abandoned, restart>>
     ELSE Drop(TRUE) /\ InvalidatePendingReconnects /\ abandoned' = TRUE /\ restart' = TRUE
  /\ UNCHANGED <<environment, inputs, network, callback, seen, seenLink, gate, deferred,
                 waitingCellular, crashed>>

\* The posted check: only the newest one is armed; a call that began meanwhile is not
\* asked for.
GraceExpires ==
  /\ grace # NoNetwork
  /\ grace' = NoNetwork
  /\ IF grace # network \/ (Alive(grace) /\ grace \notin suspended)
     THEN UNCHANGED <<registration, call, control, abandoned, restart>>
     ELSE Drop(TRUE) /\ InvalidatePendingReconnects /\ abandoned' = TRUE /\ restart' = TRUE
  /\ UNCHANGED <<environment, inputs, network, callback, seen, seenLink, gate, deferred,
                 waitingCellular, crashed>>

-----------------------------------------------------------------------------
(* Wi-Fi calling settings *)

\* Mutant: the old callback goes, nothing asks for a new one.
AccessPreferenceWithoutRestart ==
  /\ Input("wfc")
  /\ IF call
     THEN deferred' = "other" /\ UNCHANGED <<bearer, registration, call, control>>
     ELSE /\ InvalidatePendingReconnects /\ Drop(TRUE) /\ UNCHANGED deferred
          /\ callback' = FALSE /\ seen' = NoNetwork /\ seenLink' = "off"
          /\ abandoned' = TRUE
          /\ UNCHANGED <<network, restart>>
  /\ UNCHANGED <<environment, gate, waitingCellular, grace, crashed>>

\* restartImsNetworkRequestAfterAccessPreferenceChange, also reached from
\* onAirplaneModeDisabled.
AccessPreferenceChanged ==
  /\ Input("wfc")
  /\ IF call
     THEN deferred' = "other" /\ UNCHANGED <<bearer, registration, call, control>>
     ELSE /\ InvalidatePendingReconnects /\ Drop(TRUE) /\ UNCHANGED deferred
          /\ callback' = FALSE /\ seen' = NoNetwork /\ seenLink' = "off"
          /\ abandoned' = TRUE /\ restart' = TRUE
          /\ UNCHANGED network
  /\ UNCHANGED <<environment, gate, waitingCellular, grace, crashed>>

\* onWfcDisabled: drop the IWLAN registration and wait for a cellular link.
WfcDisabled ==
  /\ Input("wfc") /\ imsReady /\ tech = "iwlan"
  /\ waitingCellular' = TRUE
  /\ InvalidatePendingReconnects /\ Drop(TRUE)
  /\ abandoned' = FALSE
  /\ UNCHANGED <<environment, network, callback, seen, seenLink, restart, gate, deferred,
                 grace, crashed>>

-----------------------------------------------------------------------------
(* The reconnect worker, its retry and the REGISTER flow *)

WorkerTakes ==
  /\ conn["worker"] = "idle" /\ pending # NoRequest
  /\ req' = pending /\ pending' = NoRequest
  /\ Drop(~KeepsFrameworkRegistration(pending))
  /\ network' = IF pending.net = NoNetwork THEN network ELSE pending.net
  /\ conn' = [conn EXCEPT !["worker"] = "sleep"]
  /\ UNCHANGED <<environment, inputs, callback, seen, seenLink, abandoned, restart, gate,
                 deferred, waitingCellular, grace, retry, lost, crashed>>

FlowEnds(f) ==
  /\ conn' = [conn EXCEPT ![f] = IF f = "worker" THEN "returning" ELSE "idle"]
  /\ UNCHANGED <<pending, req>>

\* "Skipping stale IMS reconnect".
WorkerSkipsStale ==
  /\ conn["worker"] = "sleep" /\ ~req.cur
  /\ FlowEnds("worker")
  /\ UNCHANGED <<environment, inputs, bearer, registration, policy, retry, lost, crashed>>

\* connect() may begin: the worker still holds the current generation, the first
\* network's thread never looks.
MayConnect(f) == conn[f] = "sleep" /\ (f = "worker" => req.cur)

\* prepareImsEndpointForConnect, by its four outcomes; all reset imsReady silently.
ConnectWithoutLink(f) ==
  /\ MayConnect(f) /\ ~Alive(network)
  /\ imsReady' = FALSE /\ abandoned' = FALSE
  /\ framework' = "deregistered" /\ restart' = TRUE
  /\ FlowEnds(f)
  /\ UNCHANGED <<environment, inputs, network, callback, seen, seenLink, tech, transport,
                 reader, policy, retry, lost, crashed>>

ConnectWaitsForPcscf(f) ==
  /\ MayConnect(f) /\ Alive(network) /\ link[network] = "noPcscf"
  /\ imsReady' = FALSE /\ abandoned' = TRUE
  /\ framework' = "registering" /\ tech' = TechOf(link[network])
  /\ FlowEnds(f)
  /\ UNCHANGED <<environment, inputs, network, callback, seen, seenLink, restart, transport,
                 reader, policy, retry, lost, crashed>>

ConnectWithoutLocalAddress(f) ==
  /\ MayConnect(f) /\ Alive(network) /\ HasPcscf(link[network]) /\ Input("register")
  /\ imsReady' = FALSE /\ abandoned' = FALSE
  /\ framework' = "deregistered" /\ tech' = TechOf(link[network])
  /\ retry' = ScheduledRetry("other") /\ lost' = LostToRetry
  /\ FlowEnds(f)
  /\ UNCHANGED <<environment, network, callback, seen, seenLink, restart, transport,
                 reader, policy, crashed>>

ConnectRegisters(f) ==
  /\ MayConnect(f) /\ Alive(network) /\ HasPcscf(link[network])
  /\ imsReady' = FALSE /\ abandoned' = FALSE
  /\ framework' = "registering" /\ tech' = TechOf(link[network])
  /\ transport' = "open"
  /\ conn' = [conn EXCEPT ![f] = "registering"]
  /\ UNCHANGED <<environment, inputs, network, callback, seen, seenLink, restart, reader,
                 policy, pending, req, retry, lost, crashed>>

\* The 200 OK to the authenticated REGISTER is read; until it is handled other threads
\* may still drop the connection.
RegisterAnswered(f) ==
  /\ conn[f] = "registering" /\ transport = "open"
  /\ conn' = [conn EXCEPT ![f] = "answered"]
  /\ UNCHANGED <<environment, inputs, bearer, registration, policy, pending, req, retry, lost,
                 crashed>>

\* handleAuthenticatedRegisterSuccess: gate, markImsReady, reader loops.
RegisterSucceeds(f) ==
  /\ conn[f] = "answered"
  /\ gate' = FALSE
  /\ imsReady' = TRUE
  /\ framework' = IF imsReady THEN framework ELSE "registered"
  /\ tech' = IF Alive(network) THEN TechOf(link[network]) ELSE tech
  /\ reader' = TRUE
  /\ lost' = lost \ {"retry"}
  /\ FlowEnds(f)
  /\ UNCHANGED <<environment, inputs, bearer, transport, deferred, waitingCellular, grace,
                 call, retry, crashed>>

\* The network may refuse or not answer; without sockets or bearer it never does.
Fails(f, phases) ==
  /\ conn[f] \in phases
  /\ Input("register") \/ ((transport # "open" \/ ~Alive(network)) /\ UNCHANGED inputs)

\* Mutant: the failure is reported and not retried.
RegisterFailsQuietly(f) ==
  /\ Fails(f, {"registering"})
  /\ transport' \in {transport, "closed"}
  /\ framework' = "deregistered"
  /\ FlowEnds(f)
  /\ UNCHANGED <<environment, bearer, imsReady, tech, reader, policy, retry, lost, crashed>>

\* readRegisterReplyOrRetry and the final statuses: failConnectAndRetry.
RegisterFails(f) ==
  /\ Fails(f, {"registering"})
  /\ transport' \in {transport, "closed"}
  /\ framework' = "deregistered"
  /\ retry' = ScheduledRetry("other") /\ lost' = LostToRetry
  /\ FlowEnds(f)
  /\ UNCHANGED <<environment, bearer, imsReady, tech, reader, policy, crashed>>

\* connect() catches an exception: drop, report, ask for a new bearer.
RegisterThrows(f) ==
  /\ Fails(f, {"registering", "answered"})
  /\ call' = FALSE /\ imsReady' = FALSE /\ reader' = FALSE
  /\ transport' = "closed" /\ framework' = "deregistered"
  /\ abandoned' = TRUE /\ restart' = TRUE
  /\ FlowEnds(f)
  /\ UNCHANGED <<environment, network, callback, seen, seenLink, tech, gate, deferred,
                 waitingCellular, grace, retry, lost, crashed>>

\* The worker finds its mailbox empty, or goes round its loop.
WorkerReturns ==
  /\ conn["worker"] = "returning"
  /\ conn' = [conn EXCEPT !["worker"] = "idle"]
  /\ req' = NoRequest
  /\ UNCHANGED <<environment, inputs, bearer, registration, policy, pending, retry, lost, crashed>>

\* The retry thread wakes: stale ones end, the others reconnect, without the gate.
RetryFires ==
  /\ retry # NoRequest
  /\ IF retry.cur /\ retry.net = network
     THEN /\ pending' = [retry EXCEPT !.cur = TRUE]
          /\ req' = Stale(req)
     ELSE UNCHANGED <<pending, req>>
  /\ retry' = NoRequest
  /\ UNCHANGED <<environment, inputs, bearer, registration, policy, conn, lost, crashed>>

\* The restarter's delays start at 250 ms: a loss the old callback still has to report
\* comes first.  Waiting for a RAT is waiting in this state.
RestartDue ==
  /\ restart
  /\ callback /\ seen # NoNetwork => Alive(seen)
  /\ restart' = FALSE

\* getVolteNetwork finds a RAT: a new request and callback.
RestartFires ==
  /\ RestartDue
  /\ callback' = TRUE /\ seen' = NoNetwork /\ seenLink' = "off"
  /\ lost' = lost \ {"restart"}
  /\ UNCHANGED <<environment, inputs, network, abandoned, registration, policy, pending, conn,
                 req, retry, crashed>>

\* It finds none, the RAT having dropped since the restarter looked: the deferral it asks
\* for is suppressed, because the restart that runs it still counts as scheduled.
RestartFindsNoRat ==
  /\ RestartDue /\ Input("rat")
  /\ lost' = lost \cup {"restart"}
  /\ UNCHANGED <<environment, network, callback, seen, seenLink, abandoned, registration,
                 policy, pending, conn, req, retry, crashed>>

GateExpires ==
  /\ gate /\ gate' = FALSE
  /\ UNCHANGED <<environment, inputs, bearer, registration, deferred, waitingCellular, grace,
                 call, control, crashed>>

-----------------------------------------------------------------------------
(* Readers, the REGISTER alarm, calls *)

\* A reader loop sees EOF or an exception and its generation is the current one.
ReaderDies ==
  /\ reader
  /\ Input("transport") \/ ((transport # "open" \/ ~Alive(network)) /\ UNCHANGED inputs)
  /\ reader' = FALSE
  /\ transport' = IF transport = "closed" THEN "closed" ELSE "dead"
  /\ OnTransportLoss("transport")
  /\ UNCHANGED <<environment, network, callback, seen, seenLink, abandoned, imsReady, tech,
                 framework, waitingCellular, grace, call, crashed>>

\* Its period is 50 minutes: it comes once everything else has settled, or, as an event
\* from outside, at any moment.
Settled ==
  /\ ~Reconnecting /\ conn["first"] = "idle"
  /\ retry = NoRequest /\ ~restart /\ grace = NoNetwork
  /\ callback => IF seen = NoNetwork THEN \A n \in Networks : ~Alive(n)
                 ELSE Alive(seen) /\ seenLink = link[seen]

AlarmDue == Input("alarm") \/ (Settled /\ UNCHANGED inputs)

\* register() asks the TCP connection for its writer: closed here, an IOException ...
PeriodicRegisterThrows ==
  /\ transport = "closed" /\ AlarmDue
  /\ OnTransportLoss("other")
  /\ UNCHANGED <<environment, network, callback, seen, seenLink, abandoned,
                 registration, waitingCellular, grace, call, crashed>>

\* Mutant: the failed write is only logged.
RegisterWriteFailsQuietly ==
  /\ transport = "dead" \/ (transport = "open" /\ ~Alive(network))
  /\ AlarmDue
  /\ UNCHANGED <<environment, bearer, registration, policy, control, crashed>>

\* ... dead, a failed write, which asks for a reconnect without looking at calls.
RegisterWriteFails ==
  /\ transport = "dead" \/ (transport = "open" /\ ~Alive(network))
  /\ AlarmDue
  /\ Submit(NoNetwork, "other")
  /\ UNCHANGED <<environment, bearer, registration, deferred, waitingCellular, grace,
                 call, crashed>>

\* Before the first connect `socket' is uninitialised: not an IOException, so the
\* coroutine takes the process down; telephony binds to a new one, which starts afresh.
PeriodicRegisterCrashes ==
  /\ transport = "none" /\ AlarmDue
  /\ network' = NoNetwork /\ seen' = NoNetwork /\ seenLink' = "off"
  /\ callback' \in BOOLEAN /\ restart' = ~callback'
  /\ abandoned' = FALSE
  /\ imsReady' = FALSE /\ tech' = "lte" /\ framework' = "deregistered"
  /\ transport' = "none" /\ reader' = FALSE
  /\ gate' = FALSE /\ deferred' = "no" /\ waitingCellular' = FALSE
  /\ grace' = NoNetwork /\ call' = FALSE
  /\ pending' = NoRequest /\ conn' = [f \in Flows |-> "idle"]
  /\ req' = NoRequest /\ retry' = NoRequest /\ lost' = {}
  /\ crashed' = TRUE
  /\ UNCHANGED environment

\* An INVITE comes in, or isReadyForOutgoingCall lets one go out.
CallStarts ==
  /\ imsReady /\ ~call /\ Input("call")
  /\ \/ transport = "open" /\ reader
     \/ transport # "none" /\ ~Reconnecting /\ Alive(network) /\ network \notin suspended
  /\ call' = TRUE
  /\ UNCHANGED <<environment, bearer, registration, gate, deferred, waitingCellular, grace,
                 control, crashed>>

\* isReadyForOutgoingCall refuses a call: the bearer is gone or suspended, or its addresses
\* have moved (isUsableForOutgoingCall), so it reconnects, whatever other call there is.
CallFindsStaleTransport ==
  /\ imsReady /\ transport # "none" /\ ~Reconnecting /\ network # NoNetwork
  /\ Input("call")
  /\ Submit(NoNetwork, "other")
  /\ UNCHANGED <<environment, bearer, registration, deferred, waitingCellular, grace, call,
                 crashed>>

\* stopCallRuntime: a deferred reconnect becomes a retry in one second.
CallEnds ==
  /\ call
  /\ call' = FALSE
  /\ deferred' = "no"
  /\ IF deferred = "no" THEN UNCHANGED <<retry, lost>>
     ELSE /\ retry' = ScheduledRetry(IF deferred = "tech" THEN "deferredTech" ELSE "other")
          /\ lost' = LostToRetry
  /\ UNCHANGED <<environment, inputs, bearer, registration, gate, waitingCellular, grace,
                 pending, conn, req, crashed>>

\* recoverAfterLocalTerminateWriteFailure: the call is over before the loss is looked at.
TerminateWriteFails ==
  /\ call /\ transport = "dead"
  /\ call' = FALSE
  /\ IF waitingCellular \/ Reconnecting \/ network = NoNetwork
     THEN UNCHANGED <<restart, gate, control>>
     ELSE IF ~Alive(network) THEN restart' = TRUE /\ UNCHANGED <<gate, control>>
     ELSE Submit(NoNetwork, "transport") /\ UNCHANGED restart
  /\ UNCHANGED <<environment, inputs, network, callback, seen, seenLink, abandoned,
                 registration, deferred, waitingCellular, grace, crashed>>

-----------------------------------------------------------------------------
Outside == \E n \in Networks : NetworkUp(n) \/ LinkChanges(n) \/ NetworkDown(n)

CallbackStep(n) ==
  \/ FirstNetworkAvailable(n) \/ NextNetworkAvailable(n) \/ ImsNetworkLost(n)
  \/ PcscfAppeared(n) \/ WaitsForCellularLink(n) \/ CellularLinkAppeared(n)
  \/ \E moved \in BOOLEAN : LinkPropertiesChanged(n, moved)

FlowStep(f) ==
  \/ ConnectWithoutLink(f) \/ ConnectWaitsForPcscf(f) \/ ConnectWithoutLocalAddress(f)
  \/ ConnectRegisters(f) \/ RegisterAnswered(f) \/ RegisterSucceeds(f)
  \/ RegisterFails(f) \/ RegisterThrows(f)

WorkerStep == WorkerTakes \/ WorkerSkipsStale \/ WorkerReturns

AlarmStep == PeriodicRegisterThrows \/ RegisterWriteFails \/ PeriodicRegisterCrashes

GuardStep(n) == Suspended(n) \/ NotSuspended(n)
TimerStep == RetryFires \/ RestartFires \/ RestartFindsNoRat \/ GateExpires \/ GraceExpires
SettingStep == AccessPreferenceChanged \/ WfcDisabled
TransportStep == ReaderDies \/ AlarmStep
CallStep == CallStarts \/ CallFindsStaleTransport \/ CallEnds \/ TerminateWriteFails

Next ==
  \/ Outside
  \/ \E n \in Networks : CallbackStep(n) \/ GuardStep(n)
  \/ \E f \in Flows : FlowStep(f)
  \/ WorkerStep \/ TimerStep \/ SettingStep \/ TransportStep \/ CallStep

Spec == Init /\ [][Next]_vars

\* Callbacks, threads, timers and the self-re-arming alarm run on; calls end; nothing
\* else outside is owed.
Fairness ==
  /\ \A n \in Networks : WF_vars(CallbackStep(n))
  /\ \A f \in Flows : WF_vars(FlowStep(f))
  /\ WF_vars(WorkerStep) /\ WF_vars(RetryFires) /\ WF_vars(RestartFires)
  /\ WF_vars(GateExpires) /\ WF_vars(GraceExpires) /\ WF_vars(ReaderDies)
  /\ WF_vars(AlarmStep) /\ WF_vars(CallEnds)

FairSpec == Spec /\ Fairness

-----------------------------------------------------------------------------
(* Safety *)

\* Whatever was dropped, abandoned or unregistered, a network callback is registered or a
\* thread is about to register one (registerImsNetworkCallback, restartImsNetworkRequest),
\* unless the RAT dropped between the two checks of the last restart (getVolteNetwork).
BearerRequested == callback \/ restart \/ "restart" \in lost

\* IMS goes down behind the framework's back only for a same-bearer reconnect: a transient
\* transport loss or a tech-only handover (shouldKeepFrameworkRegistrationDuringReconnect).
DropIsReported ==
  [][imsReady /\ ~imsReady' /\ framework' = "registered"
       => req' # req /\ req'.reason \in {"transport", "tech"}]_vars

\* A suspension check ends the registration only while the bearer in use is suspended or
\* gone, however the bearers changed in its 8 s (ImsTransportGuard.scheduleSuspensionCheck).
SuspensionSparesBearer ==
  [][grace # NoNetwork /\ grace' = NoNetwork /\ imsReady /\ ~imsReady'
       => network \in suspended \/ ~Alive(network)]_vars

(* Liveness *)

\* Every bearer there is has a P-CSCF and is not suspended.
Usable ==
  /\ \E n \in Networks : Alive(n)
  /\ \A n \in Networks : Alive(n) => HasPcscf(link[n]) /\ n \notin suspended

\* Once the bearers stay usable and no Wi-Fi calling drop waits for a cellular one, IMS is
\* registered again and again, whatever losses, refusals, suspensions, switches and calls
\* came before ("IMS registration must survive", README), at the latest by the REGISTER alarm,
\* unless a retry was ignored in favour of a sleeping stale one (scheduleReconnectRetry).
Recovers == <>[](Usable /\ ~waitingCellular) => []<>(imsReady \/ "retry" \in lost)

\* A registration none of whose readers runs does not pass for ready forever, unless it waits
\* for a cellular bearer: at the latest the REGISTER alarm notices the dead transport
\* (register, scheduleSipReconnect).
DeadTransportNoticed ==
  <>[](Usable /\ ~waitingCellular) => ((imsReady /\ ~reader) ~> (~imsReady \/ reader))

(* What comments, log texts and the README claim *)

\* "Keep SIP reconnect single-flight": connect() of the first network's thread and
\* connect() of the reconnect worker never run two REGISTER flows at once.
SingleFlow ==
  ~ \A f \in Flows : conn[f] \in {"registering", "answered"}

\* The REGISTER alarm's receiver: a periodic REGISTER that fails asks for a reconnect; it
\* does not take the process down.
NeverCrashes == ~crashed

\* An attempt to register is under way or queued.
Attempting ==
  \/ \E r \in {pending, retry} \ {NoRequest} : r.cur
  \/ conn["worker"] \in {"registering", "answered"}
  \/ conn["worker"] = "sleep" /\ req.cur
  \/ conn["first"] # "idle"

\* "Suppressing duplicate IMS reconnect": when the gate suppresses the reconnect for a
\* P-CSCF that has appeared, another attempt is under way.
SuppressedIsDuplicate ==
  [][\A n \in Networks : PcscfAppeared(n) => Attempting']_vars

\* Tech-only handovers do not tear down calls: the reconnect they deferred does not do so
\* either (runDeferredImsReconnectAfterActiveCallIfNeeded).
DeferralSparesCalls ==
  [][call /\ ~call' /\ req' # req /\ req' # NoRequest => req'.reason # "deferredTech"]_vars

\* The loss of the bearer in use leaves no stale registration with the framework
\* (handleImsNetworkLost).
LossIsReported ==
  [][\A n \in Networks : ImsNetworkLost(n) /\ n = network => framework' # "registered"]_vars

\* "WFC-disabled IWLAN pre-drop is waiting for cellular IMS": not while IMS is registered
\* over cellular and nothing is going on.
WaitingForCellular == Settled /\ waitingCellular => ~(imsReady /\ tech = "lte")

\* "controlled IMS reconnect is already running": a transport loss ignored for that reason
\* is covered by an attempt that will replace the transport.
SuppressedLossIsCovered ==
  [][ReaderDies /\ Alive(network) /\ ~call /\ ~waitingCellular => Attempting']_vars
=============================================================================
