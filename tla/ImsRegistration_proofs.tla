------------------------ MODULE ImsRegistration_proofs ------------------------
(***************************************************************************)
(* Theorems about ImsRegistration, for any networks, event kinds and       *)
(* number of events.  The inductive invariant Inv is the type invariant    *)
(* and what the two action properties rest on: IMS is ready, or registers, *)
(* only over sockets that exist, and an idle worker holds no request.      *)
(***************************************************************************)
EXTENDS ImsRegistration, TLAPS

Support ==
  /\ imsReady => transport # "none"
  /\ \A f \in Flows : conn[f] \in {"registering", "answered"} => transport # "none"
  /\ conn["worker"] = "idle" => req = NoRequest

Inv == TypeOK /\ Support

-----------------------------------------------------------------------------
(* Requests *)

LEMMA StaleTyped ==
  ASSUME NEW r \in Requests \cup {NoRequest}
  PROVE  Stale(r) \in Requests \cup {NoRequest}
  BY DEF Stale, Requests

LEMMA RenewedTyped ==
  ASSUME NEW r \in Requests
  PROVE  [r EXCEPT !.cur = TRUE] \in Requests
  BY DEF Requests

LEMMA RequestNetwork ==
  ASSUME NEW r \in Requests
  PROVE  r.net \in Networks \cup {NoNetwork}
  BY DEF Requests

LEMMA NewTyped ==
  ASSUME NEW n \in Networks \cup {NoNetwork}, NEW why \in Reasons
  PROVE  NewRequest(n, why) \in Requests
  BY DEF NewRequest, Requests

LEMMA ReasonsTyped == {"transport", "tech", "deferredTech", "other"} = Reasons
  BY DEF Reasons

LEMMA ScheduledRetryTyped ==
  ASSUME TypeOK, NEW why \in {"transport", "tech", "deferredTech", "other"}
  PROVE  ScheduledRetry(why) \in Requests \cup {NoRequest}
  BY NewTyped, ReasonsTyped DEF TypeOK, ControlTypeOK, BearerTypeOK, ScheduledRetry

(* What an action leaves alone keeps its part of the invariant. *)

LEMMA bearerFrame == ASSUME BearerTypeOK, UNCHANGED bearer PROVE BearerTypeOK'
  BY DEF BearerTypeOK, bearer

LEMMA registrationFrame ==
  ASSUME RegistrationTypeOK, UNCHANGED registration PROVE RegistrationTypeOK'
  BY DEF RegistrationTypeOK, registration

LEMMA policyFrame == ASSUME PolicyTypeOK, UNCHANGED policy PROVE PolicyTypeOK'
  BY DEF PolicyTypeOK, policy

LEMMA controlFrame == ASSUME ControlTypeOK, UNCHANGED control PROVE ControlTypeOK'
  BY DEF ControlTypeOK, control

LEMMA SupportFrame ==
  ASSUME Support, UNCHANGED registration, UNCHANGED control PROVE Support'
  BY DEF Support, registration, control

-----------------------------------------------------------------------------
LEMMA InitInvariant == Init => Inv
<1> SUFFICES ASSUME Init PROVE Inv
  OBVIOUS
<1> USE NetworkAssumption, InputsAssumption DEF Init, ProcessStart
<1>1. EnvironmentTypeOK
  BY DEF EnvironmentTypeOK, Links
<1>2. BearerTypeOK /\ RegistrationTypeOK /\ PolicyTypeOK
  BY DEF BearerTypeOK, RegistrationTypeOK, PolicyTypeOK, Links
<1>3. ControlTypeOK
  BY DEF ControlTypeOK, Phases
<1>4. Support
  BY DEF Support
<1> QED BY <1>1, <1>2, <1>3, <1>4 DEF Inv, TypeOK

LEMMA NextInvariant == Inv /\ [Next]_vars => Inv'
<1> SUFFICES ASSUME Inv, [Next]_vars PROVE Inv'
  OBVIOUS
<1> USE NetworkAssumption, InputsAssumption, ReasonsTyped DEF Inv
<1>1. ASSUME Outside PROVE Inv'
  <2>1. ASSUME NEW n \in Networks, NetworkUp(n) PROVE Inv'
    <3>1. UNCHANGED <<bearer, registration, policy, control>>
      BY <2>1 DEF NetworkUp
    <3>2. EnvironmentTypeOK'
      BY <2>1 DEF NetworkUp, Input, TypeOK, EnvironmentTypeOK, Links, environment
    <3> QED BY <3>1, <3>2, bearerFrame, registrationFrame, policyFrame, controlFrame, SupportFrame DEF TypeOK
  <2>2. ASSUME NEW n \in Networks, LinkChanges(n) PROVE Inv'
    <3>1. UNCHANGED <<registration, policy, control>>
      BY <2>2 DEF LinkChanges
    <3>2. EnvironmentTypeOK'
      BY <2>2 DEF LinkChanges, Input, TypeOK, EnvironmentTypeOK, Links, environment
    <3>3. BearerTypeOK'
      BY <2>2 DEF LinkChanges, Input, TypeOK, BearerTypeOK, Links
    <3> QED BY <3>1, <3>2, <3>3, registrationFrame, policyFrame, controlFrame, SupportFrame DEF TypeOK
  <2>3. ASSUME NEW n \in Networks, NetworkDown(n) PROVE Inv'
    <3>1. UNCHANGED <<bearer, registration, policy, control>>
      BY <2>3 DEF NetworkDown
    <3>2. EnvironmentTypeOK'
      BY <2>3 DEF NetworkDown, Input, TypeOK, EnvironmentTypeOK, Links, environment
    <3> QED BY <3>1, <3>2, bearerFrame, registrationFrame, policyFrame, controlFrame, SupportFrame DEF TypeOK
  <2> QED BY <1>1, <2>1, <2>2, <2>3 DEF Outside
<1>2. ASSUME NEW n \in Networks, CallbackStep(n) PROVE Inv'
  <2>1. ASSUME FirstNetworkAvailable(n) PROVE Inv'
    <3>1. UNCHANGED <<registration, policy>>
      BY <2>1 DEF FirstNetworkAvailable
    <3>2. EnvironmentTypeOK'
      BY <2>1 DEF FirstNetworkAvailable, Reported, Input, TypeOK, EnvironmentTypeOK, Links,
         environment
    <3>3. BearerTypeOK'
      BY <2>1 DEF FirstNetworkAvailable, Reported, Input, TypeOK, BearerTypeOK, Links
    <3>4. ControlTypeOK'
      BY <2>1 DEF FirstNetworkAvailable, Reported, Input, TypeOK, ControlTypeOK, Flows, Phases,
         BearerTypeOK
    <3>5. Support'
      BY <2>1 DEF FirstNetworkAvailable, Reported, Input, TypeOK, ControlTypeOK, Support, Flows,
         registration
    <3> QED BY <3>1, <3>2, <3>3, <3>4, <3>5, registrationFrame, policyFrame DEF TypeOK
  <2>2. ASSUME NextNetworkAvailable(n) PROVE Inv'
    <3>1. UNCHANGED registration
      BY <2>2 DEF NextNetworkAvailable
    <3>2. EnvironmentTypeOK'
      BY <2>2 DEF NextNetworkAvailable, Reported, Input, Submit, control, TypeOK,
         EnvironmentTypeOK, Links, environment
    <3>3. BearerTypeOK'
      BY <2>2 DEF NextNetworkAvailable, Reported, Input, Submit, control, TypeOK, BearerTypeOK,
         Links
    <3>4. PolicyTypeOK'
      BY <2>2 DEF NextNetworkAvailable, Reported, Input, Submit, control, TypeOK, PolicyTypeOK
    <3>5. ControlTypeOK'
      BY <2>2, StaleTyped, NewTyped DEF NextNetworkAvailable, Reported, Input, Submit, control,
         TypeOK, ControlTypeOK, Flows, Phases, Enqueue
    <3>6. Support'
      BY <2>2 DEF NextNetworkAvailable, Reported, Input, Submit, control, TypeOK, ControlTypeOK,
         Support, Flows, registration, Enqueue, Stale
    <3> QED BY <3>1, <3>2, <3>3, <3>4, <3>5, <3>6, registrationFrame DEF TypeOK
  <2>3. ASSUME ImsNetworkLost(n) PROVE Inv'
    <3>1. EnvironmentTypeOK'
      BY <2>3 DEF ImsNetworkLost, Drop, InvalidatePendingReconnects, registration, control,
         TypeOK, EnvironmentTypeOK, Links, environment
    <3>2. BearerTypeOK'
      BY <2>3 DEF ImsNetworkLost, Drop, InvalidatePendingReconnects, registration, control,
         TypeOK, BearerTypeOK, Links
    <3>3. RegistrationTypeOK'
      BY <2>3 DEF ImsNetworkLost, Drop, InvalidatePendingReconnects, registration, control,
         TypeOK, RegistrationTypeOK, TechOf
    <3>4. PolicyTypeOK'
      BY <2>3 DEF ImsNetworkLost, Drop, InvalidatePendingReconnects, registration, control,
         TypeOK, PolicyTypeOK
    <3>5. ControlTypeOK'
      BY <2>3, StaleTyped DEF ImsNetworkLost, Drop, InvalidatePendingReconnects, registration,
         control, TypeOK, ControlTypeOK, Flows, Phases
    <3>6. Support'
      BY <2>3 DEF ImsNetworkLost, Drop, InvalidatePendingReconnects, registration, control,
         TypeOK, ControlTypeOK, Support, Flows, Stale
    <3> QED BY <3>1, <3>2, <3>3, <3>4, <3>5, <3>6 DEF TypeOK
  <2>4. ASSUME PcscfAppeared(n) PROVE Inv'
    <3>1. UNCHANGED registration
      BY <2>4 DEF PcscfAppeared
    <3>2. EnvironmentTypeOK'
      BY <2>4 DEF PcscfAppeared, LinkReported, Input, Submit, control, TypeOK,
         EnvironmentTypeOK, Links, environment
    <3>3. BearerTypeOK'
      BY <2>4 DEF PcscfAppeared, LinkReported, Input, Submit, control, TypeOK, BearerTypeOK,
         Links, EnvironmentTypeOK
    <3>4. PolicyTypeOK'
      BY <2>4 DEF PcscfAppeared, LinkReported, Input, Submit, control, TypeOK, PolicyTypeOK
    <3>5. ControlTypeOK'
      BY <2>4, StaleTyped, NewTyped DEF PcscfAppeared, LinkReported, Input, Submit, control,
         TypeOK, ControlTypeOK, Flows, Phases, Enqueue
    <3>6. Support'
      BY <2>4 DEF PcscfAppeared, LinkReported, Input, Submit, control, TypeOK, ControlTypeOK,
         Support, Flows, registration, Enqueue, Stale
    <3> QED BY <3>1, <3>2, <3>3, <3>4, <3>5, <3>6, registrationFrame DEF TypeOK
  <2>5. ASSUME WaitsForCellularLink(n) PROVE Inv'
    <3>1. UNCHANGED <<registration, policy, control>>
      BY <2>5 DEF WaitsForCellularLink
    <3>2. EnvironmentTypeOK'
      BY <2>5 DEF WaitsForCellularLink, LinkReported, Input, control, TypeOK, EnvironmentTypeOK,
         Links, environment
    <3>3. BearerTypeOK'
      BY <2>5 DEF WaitsForCellularLink, LinkReported, Input, control, TypeOK, BearerTypeOK,
         Links, EnvironmentTypeOK
    <3> QED BY <3>1, <3>2, <3>3, registrationFrame, policyFrame, controlFrame, SupportFrame DEF TypeOK
  <2>6. ASSUME CellularLinkAppeared(n) PROVE Inv'
    <3>1. UNCHANGED registration
      BY <2>6 DEF CellularLinkAppeared
    <3>2. EnvironmentTypeOK'
      BY <2>6 DEF CellularLinkAppeared, LinkReported, Input, Submit, control, TypeOK,
         EnvironmentTypeOK, Links, environment
    <3>3. BearerTypeOK'
      BY <2>6 DEF CellularLinkAppeared, LinkReported, Input, Submit, control, TypeOK,
         BearerTypeOK, Links, EnvironmentTypeOK
    <3>4. PolicyTypeOK'
      BY <2>6 DEF CellularLinkAppeared, LinkReported, Input, Submit, control, TypeOK, PolicyTypeOK
    <3>5. ControlTypeOK'
      BY <2>6, StaleTyped, NewTyped DEF CellularLinkAppeared, LinkReported, Input, Submit,
         control, TypeOK, ControlTypeOK, Flows, Phases, Enqueue
    <3>6. Support'
      BY <2>6 DEF CellularLinkAppeared, LinkReported, Input, Submit, control, TypeOK,
         ControlTypeOK, Support, Flows, registration, Enqueue, Stale
    <3> QED BY <3>1, <3>2, <3>3, <3>4, <3>5, <3>6, registrationFrame DEF TypeOK
  <2>7. ASSUME NEW moved \in BOOLEAN, LinkPropertiesChanged(n, moved) PROVE Inv'
    <3>1. UNCHANGED registration
      BY <2>7 DEF LinkPropertiesChanged
    <3>2. EnvironmentTypeOK'
      BY <2>7 DEF LinkPropertiesChanged, LinkReported, Input, Submit, control, TypeOK,
         EnvironmentTypeOK, Links, environment
    <3>3. BearerTypeOK'
      BY <2>7 DEF LinkPropertiesChanged, LinkReported, Input, Submit, control, TypeOK,
         BearerTypeOK, Links, EnvironmentTypeOK
    <3>4. PolicyTypeOK'
      BY <2>7 DEF LinkPropertiesChanged, LinkReported, Input, Submit, control, TypeOK, PolicyTypeOK
    <3>5. ControlTypeOK'
      BY <2>7, StaleTyped, NewTyped DEF LinkPropertiesChanged, LinkReported, Input, Submit,
         control, TypeOK, ControlTypeOK, Flows, Phases, Enqueue
    <3>6. Support'
      BY <2>7 DEF LinkPropertiesChanged, LinkReported, Input, Submit, control, TypeOK,
         ControlTypeOK, Support, Flows, registration, Enqueue, Stale
    <3> QED BY <3>1, <3>2, <3>3, <3>4, <3>5, <3>6, registrationFrame DEF TypeOK
  <2> QED BY <1>2, <2>1, <2>2, <2>3, <2>4, <2>5, <2>6, <2>7 DEF CallbackStep
<1>3. ASSUME NEW n \in Networks, GuardStep(n) PROVE Inv'
  <2>1. ASSUME Suspended(n) PROVE Inv'
    <3>1. UNCHANGED <<bearer, registration, control>>
      BY <2>1 DEF Suspended
    <3>2. EnvironmentTypeOK'
      BY <2>1 DEF Suspended, Input, TypeOK, EnvironmentTypeOK, Links, environment
    <3>3. PolicyTypeOK'
      BY <2>1 DEF Suspended, Input, TypeOK, PolicyTypeOK
    <3> QED BY <3>1, <3>2, <3>3, bearerFrame, registrationFrame, controlFrame, SupportFrame DEF TypeOK
  <2>2. ASSUME NotSuspended(n) PROVE Inv'
    <3>1. UNCHANGED <<bearer, registration, control>>
      BY <2>2 DEF NotSuspended
    <3>2. EnvironmentTypeOK'
      BY <2>2 DEF NotSuspended, Input, TypeOK, EnvironmentTypeOK, Links, environment
    <3>3. PolicyTypeOK'
      BY <2>2 DEF NotSuspended, Input, TypeOK, PolicyTypeOK
    <3> QED BY <3>1, <3>2, <3>3, bearerFrame, registrationFrame, controlFrame, SupportFrame DEF TypeOK
  <2> QED BY <1>3, <2>1, <2>2 DEF GuardStep
<1>4. ASSUME NEW f \in Flows, FlowStep(f) PROVE Inv'
  <2>1. ASSUME ConnectWithoutLink(f) PROVE Inv'
    <3>1. UNCHANGED policy
      BY <2>1 DEF ConnectWithoutLink
    <3>2. EnvironmentTypeOK'
      BY <2>1 DEF ConnectWithoutLink, MayConnect, FlowEnds, TypeOK, EnvironmentTypeOK, Links,
         environment
    <3>3. BearerTypeOK'
      BY <2>1 DEF ConnectWithoutLink, MayConnect, FlowEnds, TypeOK, BearerTypeOK, Links
    <3>4. RegistrationTypeOK'
      BY <2>1 DEF ConnectWithoutLink, MayConnect, FlowEnds, TypeOK, RegistrationTypeOK, TechOf
    <3>5. ControlTypeOK'
      BY <2>1 DEF ConnectWithoutLink, MayConnect, FlowEnds, TypeOK, ControlTypeOK, Flows, Phases
    <3>6. Support'
      BY <2>1 DEF ConnectWithoutLink, MayConnect, FlowEnds, TypeOK, ControlTypeOK, Support, Flows
    <3> QED BY <3>1, <3>2, <3>3, <3>4, <3>5, <3>6, policyFrame DEF TypeOK
  <2>2. ASSUME ConnectWaitsForPcscf(f) PROVE Inv'
    <3>1. UNCHANGED policy
      BY <2>2 DEF ConnectWaitsForPcscf
    <3>2. EnvironmentTypeOK'
      BY <2>2 DEF ConnectWaitsForPcscf, MayConnect, FlowEnds, TypeOK, EnvironmentTypeOK, Links,
         environment
    <3>3. BearerTypeOK'
      BY <2>2 DEF ConnectWaitsForPcscf, MayConnect, FlowEnds, TypeOK, BearerTypeOK, Links
    <3>4. RegistrationTypeOK'
      BY <2>2 DEF ConnectWaitsForPcscf, MayConnect, FlowEnds, TypeOK, RegistrationTypeOK, TechOf
    <3>5. ControlTypeOK'
      BY <2>2 DEF ConnectWaitsForPcscf, MayConnect, FlowEnds, TypeOK, ControlTypeOK, Flows, Phases
    <3>6. Support'
      BY <2>2 DEF ConnectWaitsForPcscf, MayConnect, FlowEnds, TypeOK, ControlTypeOK, Support, Flows
    <3> QED BY <3>1, <3>2, <3>3, <3>4, <3>5, <3>6, policyFrame DEF TypeOK
  <2>3. ASSUME ConnectWithoutLocalAddress(f) PROVE Inv'
    <3>1. UNCHANGED policy
      BY <2>3 DEF ConnectWithoutLocalAddress
    <3>2. EnvironmentTypeOK'
      BY <2>3 DEF ConnectWithoutLocalAddress, MayConnect, FlowEnds, Input, TypeOK,
         EnvironmentTypeOK, Links, environment
    <3>3. BearerTypeOK'
      BY <2>3 DEF ConnectWithoutLocalAddress, MayConnect, FlowEnds, Input, TypeOK, BearerTypeOK,
         Links
    <3>4. RegistrationTypeOK'
      BY <2>3 DEF ConnectWithoutLocalAddress, MayConnect, FlowEnds, Input, TypeOK,
         RegistrationTypeOK, TechOf
    <3>5. ControlTypeOK'
      BY <2>3, ScheduledRetryTyped DEF ConnectWithoutLocalAddress, MayConnect, FlowEnds, Input,
         TypeOK, ControlTypeOK, Flows, Phases, LostToRetry
    <3>6. Support'
      BY <2>3 DEF ConnectWithoutLocalAddress, MayConnect, FlowEnds, Input, TypeOK,
         ControlTypeOK, Support, Flows
    <3> QED BY <3>1, <3>2, <3>3, <3>4, <3>5, <3>6, policyFrame DEF TypeOK
  <2>4. ASSUME ConnectRegisters(f) PROVE Inv'
    <3>1. UNCHANGED policy
      BY <2>4 DEF ConnectRegisters
    <3>2. EnvironmentTypeOK'
      BY <2>4 DEF ConnectRegisters, MayConnect, TypeOK, EnvironmentTypeOK, Links, environment
    <3>3. BearerTypeOK'
      BY <2>4 DEF ConnectRegisters, MayConnect, TypeOK, BearerTypeOK, Links
    <3>4. RegistrationTypeOK'
      BY <2>4 DEF ConnectRegisters, MayConnect, TypeOK, RegistrationTypeOK, TechOf
    <3>5. ControlTypeOK'
      BY <2>4 DEF ConnectRegisters, MayConnect, TypeOK, ControlTypeOK, Flows, Phases
    <3>6. Support'
      BY <2>4 DEF ConnectRegisters, MayConnect, TypeOK, ControlTypeOK, Support, Flows
    <3> QED BY <3>1, <3>2, <3>3, <3>4, <3>5, <3>6, policyFrame DEF TypeOK
  <2>5. ASSUME RegisterAnswered(f) PROVE Inv'
    <3>1. UNCHANGED <<bearer, registration, policy>>
      BY <2>5 DEF RegisterAnswered
    <3>2. EnvironmentTypeOK'
      BY <2>5 DEF RegisterAnswered, TypeOK, EnvironmentTypeOK, Links, environment
    <3>3. ControlTypeOK'
      BY <2>5 DEF RegisterAnswered, TypeOK, ControlTypeOK, Flows, Phases
    <3>4. Support'
      BY <2>5 DEF RegisterAnswered, TypeOK, ControlTypeOK, Support, Flows, registration
    <3> QED BY <3>1, <3>2, <3>3, <3>4, bearerFrame, registrationFrame, policyFrame DEF TypeOK
  <2>6. ASSUME RegisterSucceeds(f) PROVE Inv'
    <3>1. UNCHANGED bearer
      BY <2>6 DEF RegisterSucceeds
    <3>2. EnvironmentTypeOK'
      BY <2>6 DEF RegisterSucceeds, FlowEnds, TypeOK, EnvironmentTypeOK, Links, environment
    <3>3. RegistrationTypeOK'
      BY <2>6 DEF RegisterSucceeds, FlowEnds, TypeOK, RegistrationTypeOK, TechOf
    <3>4. PolicyTypeOK'
      BY <2>6 DEF RegisterSucceeds, FlowEnds, TypeOK, PolicyTypeOK
    <3>5. ControlTypeOK'
      BY <2>6 DEF RegisterSucceeds, FlowEnds, TypeOK, ControlTypeOK, Flows, Phases
    <3>6. Support'
      BY <2>6 DEF RegisterSucceeds, FlowEnds, TypeOK, ControlTypeOK, Support, Flows
    <3> QED BY <3>1, <3>2, <3>3, <3>4, <3>5, <3>6, bearerFrame DEF TypeOK
  <2>7. ASSUME RegisterFails(f) PROVE Inv'
    <3>1. UNCHANGED <<bearer, policy>>
      BY <2>7 DEF RegisterFails
    <3>2. EnvironmentTypeOK'
      BY <2>7 DEF RegisterFails, Fails, FlowEnds, Input, TypeOK, EnvironmentTypeOK, Links,
         environment
    <3>3. RegistrationTypeOK'
      BY <2>7 DEF RegisterFails, Fails, FlowEnds, Input, TypeOK, RegistrationTypeOK, TechOf
    <3>4. ControlTypeOK'
      BY <2>7, ScheduledRetryTyped DEF RegisterFails, Fails, FlowEnds, Input, TypeOK,
         ControlTypeOK, Flows, Phases, LostToRetry
    <3>5. Support'
      BY <2>7 DEF RegisterFails, Fails, FlowEnds, Input, TypeOK, ControlTypeOK, Support, Flows
    <3> QED BY <3>1, <3>2, <3>3, <3>4, <3>5, bearerFrame, policyFrame DEF TypeOK
  <2>8. ASSUME RegisterThrows(f) PROVE Inv'
    <3>1. EnvironmentTypeOK'
      BY <2>8 DEF RegisterThrows, Fails, FlowEnds, Input, TypeOK, EnvironmentTypeOK, Links,
         environment
    <3>2. BearerTypeOK'
      BY <2>8 DEF RegisterThrows, Fails, FlowEnds, Input, TypeOK, BearerTypeOK, Links
    <3>3. RegistrationTypeOK'
      BY <2>8 DEF RegisterThrows, Fails, FlowEnds, Input, TypeOK, RegistrationTypeOK, TechOf
    <3>4. PolicyTypeOK'
      BY <2>8 DEF RegisterThrows, Fails, FlowEnds, Input, TypeOK, PolicyTypeOK
    <3>5. ControlTypeOK'
      BY <2>8 DEF RegisterThrows, Fails, FlowEnds, Input, TypeOK, ControlTypeOK, Flows, Phases
    <3>6. Support'
      BY <2>8 DEF RegisterThrows, Fails, FlowEnds, Input, TypeOK, ControlTypeOK, Support, Flows
    <3> QED BY <3>1, <3>2, <3>3, <3>4, <3>5, <3>6 DEF TypeOK
  <2> QED BY <1>4, <2>1, <2>2, <2>3, <2>4, <2>5, <2>6, <2>7, <2>8 DEF FlowStep
<1>5. ASSUME WorkerStep PROVE Inv'
  <2>1. ASSUME WorkerTakes PROVE Inv'
    <3>1. EnvironmentTypeOK'
      BY <2>1 DEF WorkerTakes, Drop, TypeOK, EnvironmentTypeOK, Links, environment
    <3>2. BearerTypeOK'
      BY <2>1, RequestNetwork DEF WorkerTakes, Drop, TypeOK, BearerTypeOK, Links, ControlTypeOK
    <3>3. RegistrationTypeOK'
      BY <2>1 DEF WorkerTakes, Drop, TypeOK, RegistrationTypeOK, TechOf
    <3>4. PolicyTypeOK'
      BY <2>1 DEF WorkerTakes, Drop, TypeOK, PolicyTypeOK
    <3>5. ControlTypeOK'
      BY <2>1 DEF WorkerTakes, Drop, TypeOK, ControlTypeOK, Flows, Phases
    <3>6. Support'
      BY <2>1 DEF WorkerTakes, Drop, TypeOK, ControlTypeOK, Support, Flows
    <3> QED BY <3>1, <3>2, <3>3, <3>4, <3>5, <3>6 DEF TypeOK
  <2>2. ASSUME WorkerSkipsStale PROVE Inv'
    <3>1. UNCHANGED <<bearer, registration, policy>>
      BY <2>2 DEF WorkerSkipsStale
    <3>2. EnvironmentTypeOK'
      BY <2>2 DEF WorkerSkipsStale, FlowEnds, TypeOK, EnvironmentTypeOK, Links, environment
    <3>3. ControlTypeOK'
      BY <2>2 DEF WorkerSkipsStale, FlowEnds, TypeOK, ControlTypeOK, Flows, Phases
    <3>4. Support'
      BY <2>2 DEF WorkerSkipsStale, FlowEnds, TypeOK, ControlTypeOK, Support, Flows, registration
    <3> QED BY <3>1, <3>2, <3>3, <3>4, bearerFrame, registrationFrame, policyFrame DEF TypeOK
  <2>3. ASSUME WorkerReturns PROVE Inv'
    <3>1. UNCHANGED <<bearer, registration, policy>>
      BY <2>3 DEF WorkerReturns
    <3>2. EnvironmentTypeOK'
      BY <2>3 DEF WorkerReturns, TypeOK, EnvironmentTypeOK, Links, environment
    <3>3. ControlTypeOK'
      BY <2>3 DEF WorkerReturns, TypeOK, ControlTypeOK, Flows, Phases
    <3>4. Support'
      BY <2>3 DEF WorkerReturns, TypeOK, ControlTypeOK, Support, Flows, registration
    <3> QED BY <3>1, <3>2, <3>3, <3>4, bearerFrame, registrationFrame, policyFrame DEF TypeOK
  <2> QED BY <1>5, <2>1, <2>2, <2>3 DEF WorkerStep
<1>6. ASSUME TimerStep PROVE Inv'
  <2>1. ASSUME RetryFires PROVE Inv'
    <3>1. UNCHANGED <<bearer, registration, policy>>
      BY <2>1 DEF RetryFires
    <3>2. EnvironmentTypeOK'
      BY <2>1 DEF RetryFires, TypeOK, EnvironmentTypeOK, Links, environment
    <3>3. ControlTypeOK'
      BY <2>1, RenewedTyped, StaleTyped DEF RetryFires, TypeOK, ControlTypeOK, Flows, Phases
    <3>4. Support'
      BY <2>1 DEF RetryFires, TypeOK, ControlTypeOK, Support, Flows, registration, Stale
    <3> QED BY <3>1, <3>2, <3>3, <3>4, bearerFrame, registrationFrame, policyFrame DEF TypeOK
  <2>2. ASSUME RestartFires PROVE Inv'
    <3>1. UNCHANGED <<registration, policy>>
      BY <2>2 DEF RestartFires
    <3>2. EnvironmentTypeOK'
      BY <2>2 DEF RestartFires, TypeOK, EnvironmentTypeOK, Links, environment
    <3>3. BearerTypeOK'
      BY <2>2 DEF RestartFires, RestartDue, TypeOK, BearerTypeOK, Links
    <3>4. ControlTypeOK' /\ Support'
      BY <2>2 DEF RestartFires, TypeOK, ControlTypeOK, Support, registration
    <3> QED BY <3>1, <3>2, <3>3, <3>4, registrationFrame, policyFrame DEF TypeOK
  <2>3. ASSUME GateExpires PROVE Inv'
    <3>1. UNCHANGED <<bearer, registration, control>>
      BY <2>3 DEF GateExpires
    <3>2. EnvironmentTypeOK'
      BY <2>3 DEF GateExpires, TypeOK, EnvironmentTypeOK, Links, environment
    <3>3. PolicyTypeOK'
      BY <2>3 DEF GateExpires, TypeOK, PolicyTypeOK
    <3> QED BY <3>1, <3>2, <3>3, bearerFrame, registrationFrame, controlFrame, SupportFrame DEF TypeOK
  <2>4. ASSUME GraceExpires PROVE Inv'
    <3>1. EnvironmentTypeOK'
      BY <2>4 DEF GraceExpires, Drop, InvalidatePendingReconnects, registration, control,
         TypeOK, EnvironmentTypeOK, Links, environment
    <3>2. BearerTypeOK'
      BY <2>4 DEF GraceExpires, Drop, InvalidatePendingReconnects, registration, control,
         TypeOK, BearerTypeOK, Links
    <3>3. RegistrationTypeOK'
      BY <2>4 DEF GraceExpires, Drop, InvalidatePendingReconnects, registration, control,
         TypeOK, RegistrationTypeOK, TechOf
    <3>4. PolicyTypeOK'
      BY <2>4 DEF GraceExpires, Drop, InvalidatePendingReconnects, registration, control,
         TypeOK, PolicyTypeOK
    <3>5. ControlTypeOK'
      BY <2>4, StaleTyped DEF GraceExpires, Drop, InvalidatePendingReconnects, registration,
         control, TypeOK, ControlTypeOK, Flows, Phases
    <3>6. Support'
      BY <2>4 DEF GraceExpires, Drop, InvalidatePendingReconnects, registration, control,
         TypeOK, ControlTypeOK, Support, Flows, Stale
    <3> QED BY <3>1, <3>2, <3>3, <3>4, <3>5, <3>6 DEF TypeOK
  <2>5. ASSUME RestartFindsNoRat PROVE Inv'
    <3>1. UNCHANGED <<registration, policy>>
      BY <2>5 DEF RestartFindsNoRat
    <3>2. EnvironmentTypeOK'
      BY <2>5 DEF RestartFindsNoRat, Input, TypeOK, EnvironmentTypeOK, Links, environment
    <3>3. BearerTypeOK'
      BY <2>5 DEF RestartFindsNoRat, RestartDue, TypeOK, BearerTypeOK, Links
    <3>4. ControlTypeOK' /\ Support'
      BY <2>5 DEF RestartFindsNoRat, TypeOK, ControlTypeOK, Support, registration
    <3> QED BY <3>1, <3>2, <3>3, <3>4, registrationFrame, policyFrame DEF TypeOK
  <2> QED BY <1>6, <2>1, <2>2, <2>3, <2>4, <2>5 DEF TimerStep
<1>7. ASSUME SettingStep PROVE Inv'
  <2>1. ASSUME AccessPreferenceChanged PROVE Inv'
    <3>1. EnvironmentTypeOK'
      BY <2>1 DEF AccessPreferenceChanged, Input, Drop, InvalidatePendingReconnects,
         registration, control, bearer, TypeOK, EnvironmentTypeOK, Links, environment
    <3>2. BearerTypeOK'
      BY <2>1 DEF AccessPreferenceChanged, Input, Drop, InvalidatePendingReconnects,
         registration, control, bearer, TypeOK, BearerTypeOK, Links
    <3>3. RegistrationTypeOK'
      BY <2>1 DEF AccessPreferenceChanged, Input, Drop, InvalidatePendingReconnects,
         registration, control, bearer, TypeOK, RegistrationTypeOK, TechOf
    <3>4. PolicyTypeOK'
      BY <2>1 DEF AccessPreferenceChanged, Input, Drop, InvalidatePendingReconnects,
         registration, control, bearer, TypeOK, PolicyTypeOK
    <3>5. ControlTypeOK'
      BY <2>1, StaleTyped DEF AccessPreferenceChanged, Input, Drop, InvalidatePendingReconnects,
         registration, control, bearer, TypeOK, ControlTypeOK, Flows, Phases
    <3>6. Support'
      BY <2>1 DEF AccessPreferenceChanged, Input, Drop, InvalidatePendingReconnects,
         registration, control, bearer, TypeOK, ControlTypeOK, Support, Flows, Stale
    <3> QED BY <3>1, <3>2, <3>3, <3>4, <3>5, <3>6 DEF TypeOK
  <2>2. ASSUME WfcDisabled PROVE Inv'
    <3>1. EnvironmentTypeOK'
      BY <2>2 DEF WfcDisabled, Input, Drop, InvalidatePendingReconnects, registration, control,
         TypeOK, EnvironmentTypeOK, Links, environment
    <3>2. BearerTypeOK'
      BY <2>2 DEF WfcDisabled, Input, Drop, InvalidatePendingReconnects, registration, control,
         TypeOK, BearerTypeOK, Links
    <3>3. RegistrationTypeOK'
      BY <2>2 DEF WfcDisabled, Input, Drop, InvalidatePendingReconnects, registration, control,
         TypeOK, RegistrationTypeOK, TechOf
    <3>4. PolicyTypeOK'
      BY <2>2 DEF WfcDisabled, Input, Drop, InvalidatePendingReconnects, registration, control,
         TypeOK, PolicyTypeOK
    <3>5. ControlTypeOK'
      BY <2>2, StaleTyped DEF WfcDisabled, Input, Drop, InvalidatePendingReconnects,
         registration, control, TypeOK, ControlTypeOK, Flows, Phases
    <3>6. Support'
      BY <2>2 DEF WfcDisabled, Input, Drop, InvalidatePendingReconnects, registration, control,
         TypeOK, ControlTypeOK, Support, Flows, Stale
    <3> QED BY <3>1, <3>2, <3>3, <3>4, <3>5, <3>6 DEF TypeOK
  <2> QED BY <1>7, <2>1, <2>2 DEF SettingStep
<1>8. ASSUME TransportStep PROVE Inv'
  <2>1. ASSUME ReaderDies PROVE Inv'
    <3>1. EnvironmentTypeOK'
      BY <2>1 DEF ReaderDies, Input, OnTransportLoss, Submit, control, TypeOK,
         EnvironmentTypeOK, Links, environment
    <3>2. BearerTypeOK'
      BY <2>1 DEF ReaderDies, Input, OnTransportLoss, Submit, control, TypeOK, BearerTypeOK, Links
    <3>3. RegistrationTypeOK'
      BY <2>1 DEF ReaderDies, Input, OnTransportLoss, Submit, control, TypeOK,
         RegistrationTypeOK, TechOf
    <3>4. PolicyTypeOK'
      BY <2>1 DEF ReaderDies, Input, OnTransportLoss, Submit, control, TypeOK, PolicyTypeOK
    <3>5. ControlTypeOK'
      BY <2>1, StaleTyped, NewTyped DEF ReaderDies, Input, OnTransportLoss, Submit, control,
         TypeOK, ControlTypeOK, Flows, Phases, Enqueue
    <3>6. Support'
      BY <2>1 DEF ReaderDies, Input, OnTransportLoss, Submit, control, TypeOK, ControlTypeOK,
         Support, Flows, Enqueue, Stale
    <3> QED BY <3>1, <3>2, <3>3, <3>4, <3>5, <3>6 DEF TypeOK
  <2>2. ASSUME PeriodicRegisterThrows PROVE Inv'
    <3>1. UNCHANGED registration
      BY <2>2 DEF PeriodicRegisterThrows
    <3>2. EnvironmentTypeOK'
      BY <2>2 DEF PeriodicRegisterThrows, AlarmDue, Input, OnTransportLoss, Submit, control,
         TypeOK, EnvironmentTypeOK, Links, environment
    <3>3. BearerTypeOK'
      BY <2>2 DEF PeriodicRegisterThrows, AlarmDue, Input, OnTransportLoss, Submit, control,
         TypeOK, BearerTypeOK, Links
    <3>4. PolicyTypeOK'
      BY <2>2 DEF PeriodicRegisterThrows, AlarmDue, Input, OnTransportLoss, Submit, control,
         TypeOK, PolicyTypeOK
    <3>5. ControlTypeOK'
      BY <2>2, StaleTyped, NewTyped DEF PeriodicRegisterThrows, AlarmDue, Input,
         OnTransportLoss, Submit, control, TypeOK, ControlTypeOK, Flows, Phases, Enqueue
    <3>6. Support'
      BY <2>2 DEF PeriodicRegisterThrows, AlarmDue, Input, OnTransportLoss, Submit, control,
         TypeOK, ControlTypeOK, Support, Flows, registration, Enqueue, Stale
    <3> QED BY <3>1, <3>2, <3>3, <3>4, <3>5, <3>6, registrationFrame DEF TypeOK
  <2>3. ASSUME RegisterWriteFails PROVE Inv'
    <3>1. UNCHANGED <<bearer, registration>>
      BY <2>3 DEF RegisterWriteFails
    <3>2. EnvironmentTypeOK'
      BY <2>3 DEF RegisterWriteFails, AlarmDue, Input, Submit, control, TypeOK,
         EnvironmentTypeOK, Links, environment
    <3>3. PolicyTypeOK'
      BY <2>3 DEF RegisterWriteFails, AlarmDue, Input, Submit, control, TypeOK, PolicyTypeOK
    <3>4. ControlTypeOK'
      BY <2>3, StaleTyped, NewTyped DEF RegisterWriteFails, AlarmDue, Input, Submit, control,
         TypeOK, ControlTypeOK, Flows, Phases, Enqueue
    <3>5. Support'
      BY <2>3 DEF RegisterWriteFails, AlarmDue, Input, Submit, control, TypeOK, ControlTypeOK,
         Support, Flows, registration, Enqueue, Stale
    <3> QED BY <3>1, <3>2, <3>3, <3>4, <3>5, bearerFrame, registrationFrame DEF TypeOK
  <2>4. ASSUME PeriodicRegisterCrashes PROVE Inv'
    <3>1. EnvironmentTypeOK'
      BY <2>4 DEF PeriodicRegisterCrashes, AlarmDue, Input, TypeOK, EnvironmentTypeOK, Links,
         environment
    <3>2. BearerTypeOK'
      BY <2>4 DEF PeriodicRegisterCrashes, AlarmDue, Input, TypeOK, BearerTypeOK, Links
    <3>3. RegistrationTypeOK'
      BY <2>4 DEF PeriodicRegisterCrashes, AlarmDue, Input, TypeOK, RegistrationTypeOK, TechOf
    <3>4. PolicyTypeOK'
      BY <2>4 DEF PeriodicRegisterCrashes, AlarmDue, Input, TypeOK, PolicyTypeOK
    <3>5. ControlTypeOK'
      BY <2>4 DEF PeriodicRegisterCrashes, AlarmDue, Input, TypeOK, ControlTypeOK, Flows, Phases
    <3>6. Support'
      BY <2>4 DEF PeriodicRegisterCrashes, AlarmDue, Input, TypeOK, ControlTypeOK, Support, Flows
    <3> QED BY <3>1, <3>2, <3>3, <3>4, <3>5, <3>6 DEF TypeOK
  <2> QED BY <1>8, <2>1, <2>2, <2>3, <2>4 DEF TransportStep, AlarmStep
<1>9. ASSUME CallStep PROVE Inv'
  <2>1. ASSUME CallStarts PROVE Inv'
    <3>1. UNCHANGED <<bearer, registration, control>>
      BY <2>1 DEF CallStarts
    <3>2. EnvironmentTypeOK'
      BY <2>1 DEF CallStarts, Input, TypeOK, EnvironmentTypeOK, Links, environment
    <3>3. PolicyTypeOK'
      BY <2>1 DEF CallStarts, Input, TypeOK, PolicyTypeOK
    <3> QED BY <3>1, <3>2, <3>3, bearerFrame, registrationFrame, controlFrame, SupportFrame DEF TypeOK
  <2>2. ASSUME CallEnds PROVE Inv'
    <3>1. UNCHANGED <<bearer, registration>>
      BY <2>2 DEF CallEnds
    <3>2. EnvironmentTypeOK'
      BY <2>2 DEF CallEnds, TypeOK, EnvironmentTypeOK, Links, environment
    <3>3. PolicyTypeOK'
      BY <2>2 DEF CallEnds, TypeOK, PolicyTypeOK
    <3>4. ControlTypeOK'
      BY <2>2, ScheduledRetryTyped DEF CallEnds, TypeOK, ControlTypeOK, Flows, Phases,
         LostToRetry
    <3>5. Support'
      BY <2>2 DEF CallEnds, TypeOK, ControlTypeOK, Support, Flows, registration
    <3> QED BY <3>1, <3>2, <3>3, <3>4, <3>5, bearerFrame, registrationFrame DEF TypeOK
  <2>3. ASSUME TerminateWriteFails PROVE Inv'
    <3>1. UNCHANGED registration
      BY <2>3 DEF TerminateWriteFails
    <3>2. EnvironmentTypeOK'
      BY <2>3 DEF TerminateWriteFails, Submit, control, TypeOK, EnvironmentTypeOK, Links,
         environment
    <3>3. BearerTypeOK'
      BY <2>3 DEF TerminateWriteFails, Submit, control, TypeOK, BearerTypeOK, Links
    <3>4. PolicyTypeOK'
      BY <2>3 DEF TerminateWriteFails, Submit, control, TypeOK, PolicyTypeOK
    <3>5. ControlTypeOK'
      BY <2>3, StaleTyped, NewTyped DEF TerminateWriteFails, Submit, control, TypeOK,
         ControlTypeOK, Flows, Phases, Enqueue
    <3>6. Support'
      BY <2>3 DEF TerminateWriteFails, Submit, control, TypeOK, ControlTypeOK, Support, Flows,
         registration, Enqueue, Stale
    <3> QED BY <3>1, <3>2, <3>3, <3>4, <3>5, <3>6, registrationFrame DEF TypeOK
  <2>4. ASSUME CallFindsStaleTransport PROVE Inv'
    <3>1. UNCHANGED <<bearer, registration>>
      BY <2>4 DEF CallFindsStaleTransport
    <3>2. EnvironmentTypeOK'
      BY <2>4 DEF CallFindsStaleTransport, Input, TypeOK, EnvironmentTypeOK, Links, environment
    <3>3. PolicyTypeOK'
      BY <2>4 DEF CallFindsStaleTransport, Submit, TypeOK, PolicyTypeOK
    <3>4. ControlTypeOK'
      BY <2>4, StaleTyped, NewTyped DEF CallFindsStaleTransport, Submit, control, TypeOK,
         ControlTypeOK, Flows, Phases, Enqueue
    <3>5. Support'
      BY <2>4 DEF CallFindsStaleTransport, Submit, control, TypeOK, ControlTypeOK, Support,
         Flows, registration, Enqueue, Stale
    <3> QED BY <3>1, <3>2, <3>3, <3>4, <3>5, bearerFrame, registrationFrame DEF TypeOK
  <2> QED BY <1>9, <2>1, <2>2, <2>3, <2>4 DEF CallStep
<1>10. CASE UNCHANGED vars
  <2>1. UNCHANGED <<environment, inputs, bearer, registration, policy, control, crashed>>
    BY <1>10 DEF vars
  <2>2. EnvironmentTypeOK'
    BY <2>1 DEF TypeOK, EnvironmentTypeOK, environment
  <2> QED BY <2>1, <2>2, bearerFrame, registrationFrame, policyFrame, controlFrame, SupportFrame DEF TypeOK
<1> QED BY <1>1, <1>2, <1>3, <1>4, <1>5, <1>6, <1>7, <1>8, <1>9, <1>10 DEF Next

\* The variables keep their types, whatever the networks and the events.
THEOREM TypeCorrect == Spec => []TypeOK
<1>1. Inv => TypeOK
  BY DEF Inv
<1> QED BY InitInvariant, NextInvariant, <1>1, PTL DEF Spec

-----------------------------------------------------------------------------
LEMMA BearerStep == BearerRequested /\ [Next]_vars => BearerRequested'
<1> SUFFICES ASSUME BearerRequested, [Next]_vars PROVE BearerRequested'
  OBVIOUS
<1>1. ASSUME Outside PROVE BearerRequested'
  BY <1>1 DEF Outside, NetworkUp, LinkChanges, NetworkDown, BearerRequested, bearer, control
<1>2. ASSUME NEW n \in Networks, CallbackStep(n) PROVE BearerRequested'
  <2>1. ASSUME FirstNetworkAvailable(n) PROVE BearerRequested'
    BY <2>1 DEF FirstNetworkAvailable, BearerRequested, bearer
  <2>2. ASSUME NextNetworkAvailable(n) PROVE BearerRequested'
    BY <2>2 DEF NextNetworkAvailable, Submit, Enqueue, BearerRequested, bearer, control
  <2>3. ASSUME ImsNetworkLost(n) PROVE BearerRequested'
    BY <2>3 DEF ImsNetworkLost, BearerRequested, bearer, control
  <2>4. ASSUME PcscfAppeared(n) PROVE BearerRequested'
    BY <2>4 DEF PcscfAppeared, Submit, Enqueue, BearerRequested, bearer, control
  <2>5. ASSUME WaitsForCellularLink(n) PROVE BearerRequested'
    BY <2>5 DEF WaitsForCellularLink, BearerRequested, bearer, control
  <2>6. ASSUME CellularLinkAppeared(n) PROVE BearerRequested'
    BY <2>6 DEF CellularLinkAppeared, Submit, Enqueue, BearerRequested, bearer, control
  <2>7. ASSUME NEW moved \in BOOLEAN, LinkPropertiesChanged(n, moved) PROVE BearerRequested'
    BY <2>7 DEF LinkPropertiesChanged, Submit, Enqueue, BearerRequested, bearer, control
  <2> QED BY <1>2, <2>1, <2>2, <2>3, <2>4, <2>5, <2>6, <2>7 DEF CallbackStep
<1>3. ASSUME NEW n \in Networks, GuardStep(n) PROVE BearerRequested'
  BY <1>3 DEF GuardStep, Suspended, NotSuspended, BearerRequested, bearer, control
<1>4. ASSUME NEW f \in Flows, FlowStep(f) PROVE BearerRequested'
  <2>1. ASSUME ConnectWithoutLink(f) PROVE BearerRequested'
    BY <2>1 DEF ConnectWithoutLink, BearerRequested, bearer
  <2>2. ASSUME ConnectWaitsForPcscf(f) PROVE BearerRequested'
    BY <2>2 DEF ConnectWaitsForPcscf, BearerRequested, bearer
  <2>3. ASSUME ConnectWithoutLocalAddress(f) PROVE BearerRequested'
    BY <2>3 DEF ConnectWithoutLocalAddress, LostToRetry, BearerRequested, bearer
  <2>4. ASSUME ConnectRegisters(f) PROVE BearerRequested'
    BY <2>4 DEF ConnectRegisters, BearerRequested, bearer
  <2>5. ASSUME RegisterAnswered(f) PROVE BearerRequested'
    BY <2>5 DEF RegisterAnswered, BearerRequested, bearer
  <2>6. ASSUME RegisterSucceeds(f) PROVE BearerRequested'
    BY <2>6 DEF RegisterSucceeds, BearerRequested, bearer
  <2>7. ASSUME RegisterFails(f) PROVE BearerRequested'
    BY <2>7 DEF RegisterFails, LostToRetry, BearerRequested, bearer
  <2>8. ASSUME RegisterThrows(f) PROVE BearerRequested'
    BY <2>8 DEF RegisterThrows, BearerRequested, bearer
  <2> QED BY <1>4, <2>1, <2>2, <2>3, <2>4, <2>5, <2>6, <2>7, <2>8 DEF FlowStep
<1>5. ASSUME WorkerStep PROVE BearerRequested'
  BY <1>5 DEF WorkerStep, WorkerTakes, WorkerSkipsStale, WorkerReturns, BearerRequested, bearer
<1>6. ASSUME TimerStep PROVE BearerRequested'
  <2>1. ASSUME RestartFires PROVE BearerRequested'
    BY <2>1 DEF RestartFires, BearerRequested
  <2>2. ASSUME RestartFindsNoRat PROVE BearerRequested'
    BY <2>2 DEF RestartFindsNoRat, BearerRequested
  <2>3. ASSUME RetryFires \/ GateExpires PROVE BearerRequested'
    BY <2>3 DEF RetryFires, GateExpires, BearerRequested, bearer, control
  <2>4. ASSUME GraceExpires PROVE BearerRequested'
    BY <2>4 DEF GraceExpires, BearerRequested, control
  <2> QED BY <1>6, <2>1, <2>2, <2>3, <2>4 DEF TimerStep
<1>7. ASSUME SettingStep PROVE BearerRequested'
  <2>1. ASSUME AccessPreferenceChanged PROVE BearerRequested'
    BY <2>1 DEF AccessPreferenceChanged, bearer, control, BearerRequested
  <2>2. ASSUME WfcDisabled PROVE BearerRequested'
    BY <2>2 DEF WfcDisabled, InvalidatePendingReconnects, BearerRequested, bearer
  <2> QED BY <1>7, <2>1, <2>2 DEF SettingStep
<1>8. ASSUME TransportStep PROVE BearerRequested'
  <2>1. ASSUME ReaderDies PROVE BearerRequested'
    BY <2>1 DEF ReaderDies, OnTransportLoss, Submit, Enqueue, BearerRequested, bearer,
       control
  <2>2. ASSUME PeriodicRegisterThrows PROVE BearerRequested'
    BY <2>2 DEF PeriodicRegisterThrows, OnTransportLoss, Submit, Enqueue, BearerRequested, bearer,
       control
  <2>3. ASSUME RegisterWriteFails PROVE BearerRequested'
    BY <2>3 DEF RegisterWriteFails, Submit, Enqueue, BearerRequested, bearer, control
  <2>4. ASSUME PeriodicRegisterCrashes PROVE BearerRequested'
    BY <2>4 DEF PeriodicRegisterCrashes, BearerRequested, bearer
  <2> QED BY <1>8, <2>1, <2>2, <2>3, <2>4 DEF TransportStep, AlarmStep
<1>9. ASSUME CallStep PROVE BearerRequested'
  <2>1. ASSUME CallStarts \/ CallEnds PROVE BearerRequested'
    BY <2>1 DEF CallStarts, CallEnds, LostToRetry, BearerRequested, bearer, control
  <2>2. ASSUME CallFindsStaleTransport PROVE BearerRequested'
    BY <2>2 DEF CallFindsStaleTransport, Submit, Enqueue, BearerRequested, bearer, control
  <2>3. ASSUME TerminateWriteFails PROVE BearerRequested'
    BY <2>3 DEF TerminateWriteFails, Submit, Enqueue, BearerRequested, control
  <2> QED BY <1>9, <2>1, <2>2, <2>3 DEF CallStep
<1>10. CASE UNCHANGED vars
  BY <1>10 DEF vars, bearer, registration, policy, control, BearerRequested
<1> QED BY <1>1, <1>2, <1>3, <1>4, <1>5, <1>6, <1>7, <1>8, <1>9, <1>10 DEF Next

\* No order of losses, suspensions and settings leaves the program without a network
\* callback and without a restart that will register one, except after a restart whose RAT
\* dropped between its two checks.
THEOREM BearerAlwaysRequested == Spec => []BearerRequested
<1>1. Init => BearerRequested
  BY DEF Init, ProcessStart, BearerRequested
<1> QED BY <1>1, BearerStep, PTL DEF Spec

LEMMA DropStep ==
  Inv /\ [Next]_vars => [imsReady /\ ~imsReady' /\ framework' = "registered"
                            => req' # req /\ req'.reason \in {"transport", "tech"}]_vars
<1> DEFINE Silent == imsReady /\ ~imsReady' /\ framework' = "registered"
<1> DEFINE Told == Silent => req' # req /\ req'.reason \in {"transport", "tech"}
<1> SUFFICES ASSUME Inv, [Next]_vars PROVE Told
  OBVIOUS
<1>1. ASSUME Outside PROVE Told
  BY <1>1 DEF Outside, NetworkUp, LinkChanges, NetworkDown, registration
<1>2. ASSUME NEW n \in Networks, CallbackStep(n) PROVE Told
  <2>1. ASSUME FirstNetworkAvailable(n) PROVE Told
    BY <2>1 DEF FirstNetworkAvailable, registration
  <2>2. ASSUME NextNetworkAvailable(n) PROVE Told
    BY <2>2 DEF NextNetworkAvailable, registration
  <2>3. ASSUME ImsNetworkLost(n) PROVE Told
    BY <2>3 DEF ImsNetworkLost, Drop, registration
  <2>4. ASSUME PcscfAppeared(n) PROVE Told
    BY <2>4 DEF PcscfAppeared, registration
  <2>5. ASSUME WaitsForCellularLink(n) PROVE Told
    BY <2>5 DEF WaitsForCellularLink, registration
  <2>6. ASSUME CellularLinkAppeared(n) PROVE Told
    BY <2>6 DEF CellularLinkAppeared, registration
  <2>7. ASSUME NEW moved \in BOOLEAN, LinkPropertiesChanged(n, moved) PROVE Told
    BY <2>7 DEF LinkPropertiesChanged, registration
  <2> QED BY <1>2, <2>1, <2>2, <2>3, <2>4, <2>5, <2>6, <2>7 DEF CallbackStep
<1>3. ASSUME NEW n \in Networks, GuardStep(n) PROVE Told
  BY <1>3 DEF GuardStep, Suspended, NotSuspended, registration
<1>4. ASSUME NEW f \in Flows, FlowStep(f) PROVE Told
  <2>1. ASSUME ConnectWithoutLink(f) PROVE Told
    BY <2>1 DEF ConnectWithoutLink, registration
  <2>2. ASSUME ConnectWaitsForPcscf(f) PROVE Told
    BY <2>2 DEF ConnectWaitsForPcscf, registration
  <2>3. ASSUME ConnectWithoutLocalAddress(f) PROVE Told
    BY <2>3 DEF ConnectWithoutLocalAddress, registration
  <2>4. ASSUME ConnectRegisters(f) PROVE Told
    BY <2>4 DEF ConnectRegisters, registration
  <2>5. ASSUME RegisterAnswered(f) PROVE Told
    BY <2>5 DEF RegisterAnswered, registration
  <2>6. ASSUME RegisterSucceeds(f) PROVE Told
    BY <2>6 DEF RegisterSucceeds, registration
  <2>7. ASSUME RegisterFails(f) PROVE Told
    BY <2>7 DEF RegisterFails, registration
  <2>8. ASSUME RegisterThrows(f) PROVE Told
    BY <2>8 DEF RegisterThrows, registration
  <2> QED BY <1>4, <2>1, <2>2, <2>3, <2>4, <2>5, <2>6, <2>7, <2>8 DEF FlowStep
<1>5. ASSUME WorkerStep PROVE Told
  <2>1. ASSUME WorkerTakes PROVE Told
    BY <2>1 DEF WorkerTakes, KeepsFrameworkRegistration, Inv, Support, Drop, registration
  <2>2. ASSUME WorkerSkipsStale PROVE Told
    BY <2>2 DEF WorkerSkipsStale, registration
  <2>3. ASSUME WorkerReturns PROVE Told
    BY <2>3 DEF WorkerReturns, registration
  <2> QED BY <1>5, <2>1, <2>2, <2>3 DEF WorkerStep
<1>6. ASSUME TimerStep PROVE Told
  <2>1. ASSUME RetryFires PROVE Told
    BY <2>1 DEF RetryFires, registration
  <2>2. ASSUME RestartFires PROVE Told
    BY <2>2 DEF RestartFires, registration
  <2>3. ASSUME RestartFindsNoRat PROVE Told
    BY <2>3 DEF RestartFindsNoRat, registration
  <2>4. ASSUME GateExpires PROVE Told
    BY <2>4 DEF GateExpires, registration
  <2>5. ASSUME GraceExpires PROVE Told
    BY <2>5 DEF GraceExpires, Drop, registration
  <2> QED BY <1>6, <2>1, <2>2, <2>3, <2>4, <2>5 DEF TimerStep
<1>7. ASSUME SettingStep PROVE Told
  <2>1. ASSUME AccessPreferenceChanged PROVE Told
    BY <2>1 DEF AccessPreferenceChanged, Drop, registration
  <2>2. ASSUME WfcDisabled PROVE Told
    BY <2>2 DEF WfcDisabled, Drop, registration
  <2> QED BY <1>7, <2>1, <2>2 DEF SettingStep
<1>8. ASSUME TransportStep PROVE Told
  <2>1. ASSUME ReaderDies PROVE Told
    BY <2>1 DEF ReaderDies, registration
  <2>2. ASSUME PeriodicRegisterThrows PROVE Told
    BY <2>2 DEF PeriodicRegisterThrows, registration
  <2>3. ASSUME RegisterWriteFails PROVE Told
    BY <2>3 DEF RegisterWriteFails, registration
  <2>4. ASSUME PeriodicRegisterCrashes PROVE Told
    BY <2>4 DEF PeriodicRegisterCrashes, registration
  <2> QED BY <1>8, <2>1, <2>2, <2>3, <2>4 DEF TransportStep, AlarmStep
<1>9. ASSUME CallStep PROVE Told
  BY <1>9 DEF CallStep, CallStarts, CallFindsStaleTransport, CallEnds, TerminateWriteFails, registration
<1>10. CASE UNCHANGED vars
  BY <1>10 DEF vars, bearer, registration, policy, control
<1> QED BY <1>1, <1>2, <1>3, <1>4, <1>5, <1>6, <1>7, <1>8, <1>9, <1>10 DEF Next

\* For any networks and events: a drop the framework does not hear of is a reconnect for a
\* transient transport loss or a tech-only handover.
THEOREM DropAlwaysReported == Spec => DropIsReported
<1> QED BY InitInvariant, NextInvariant, DropStep, PTL DEF Spec, DropIsReported

LEMMA SuspensionStep ==
  Inv /\ [Next]_vars => [grace # NoNetwork /\ grace' = NoNetwork /\ imsReady /\ ~imsReady'
                            => network \in suspended \/ ~Alive(network)]_vars
<1> DEFINE Ends == grace # NoNetwork /\ grace' = NoNetwork /\ imsReady /\ ~imsReady'
<1> DEFINE Spared == Ends => network \in suspended \/ ~Alive(network)
<1> SUFFICES ASSUME Inv, [Next]_vars PROVE Spared
  OBVIOUS
<1>1. ASSUME Outside PROVE Spared
  BY <1>1 DEF Outside, NetworkUp, LinkChanges, NetworkDown, policy, registration
<1>2. ASSUME NEW n \in Networks, CallbackStep(n) PROVE Spared
  <2>1. ASSUME FirstNetworkAvailable(n) PROVE Spared
    BY <2>1 DEF FirstNetworkAvailable, policy, registration
  <2>2. ASSUME NextNetworkAvailable(n) PROVE Spared
    BY <2>2 DEF NextNetworkAvailable, policy, registration
  <2>3. ASSUME ImsNetworkLost(n) PROVE Spared
    BY <2>3 DEF ImsNetworkLost, Drop, registration, policy
  <2>4. ASSUME PcscfAppeared(n) PROVE Spared
    BY <2>4 DEF PcscfAppeared, policy, registration
  <2>5. ASSUME WaitsForCellularLink(n) PROVE Spared
    BY <2>5 DEF WaitsForCellularLink, policy, registration
  <2>6. ASSUME CellularLinkAppeared(n) PROVE Spared
    BY <2>6 DEF CellularLinkAppeared, policy, registration
  <2>7. ASSUME NEW moved \in BOOLEAN, LinkPropertiesChanged(n, moved) PROVE Spared
    BY <2>7 DEF LinkPropertiesChanged, policy, registration
  <2> QED BY <1>2, <2>1, <2>2, <2>3, <2>4, <2>5, <2>6, <2>7 DEF CallbackStep
<1>3. ASSUME NEW n \in Networks, GuardStep(n) PROVE Spared
  BY <1>3 DEF GuardStep, Suspended, NotSuspended, policy, registration
<1>4. ASSUME NEW f \in Flows, FlowStep(f) PROVE Spared
  <2>1. ASSUME ConnectWithoutLink(f) PROVE Spared
    BY <2>1 DEF ConnectWithoutLink, policy, registration
  <2>2. ASSUME ConnectWaitsForPcscf(f) PROVE Spared
    BY <2>2 DEF ConnectWaitsForPcscf, policy, registration
  <2>3. ASSUME ConnectWithoutLocalAddress(f) PROVE Spared
    BY <2>3 DEF ConnectWithoutLocalAddress, policy, registration
  <2>4. ASSUME ConnectRegisters(f) PROVE Spared
    BY <2>4 DEF ConnectRegisters, policy, registration
  <2>5. ASSUME RegisterAnswered(f) PROVE Spared
    BY <2>5 DEF RegisterAnswered, policy, registration
  <2>6. ASSUME RegisterSucceeds(f) PROVE Spared
    BY <2>6 DEF RegisterSucceeds, policy, registration
  <2>7. ASSUME RegisterFails(f) PROVE Spared
    BY <2>7 DEF RegisterFails, policy, registration
  <2>8. ASSUME RegisterThrows(f) PROVE Spared
    BY <2>8 DEF RegisterThrows, policy, registration
  <2> QED BY <1>4, <2>1, <2>2, <2>3, <2>4, <2>5, <2>6, <2>7, <2>8 DEF FlowStep
<1>5. ASSUME WorkerStep PROVE Spared
  BY <1>5 DEF WorkerStep, WorkerTakes, WorkerSkipsStale, WorkerReturns, policy, registration
<1>6. ASSUME TimerStep PROVE Spared
  <2>1. ASSUME RetryFires PROVE Spared
    BY <2>1 DEF RetryFires, policy, registration
  <2>2. ASSUME RestartFires PROVE Spared
    BY <2>2 DEF RestartFires, policy, registration
  <2>3. ASSUME RestartFindsNoRat PROVE Spared
    BY <2>3 DEF RestartFindsNoRat, policy, registration
  <2>4. ASSUME GateExpires PROVE Spared
    BY <2>4 DEF GateExpires, policy, registration
  <2>5. ASSUME GraceExpires PROVE Spared
    BY <2>5 DEF GraceExpires, Drop, registration, policy
  <2> QED BY <1>6, <2>1, <2>2, <2>3, <2>4, <2>5 DEF TimerStep
<1>7. ASSUME SettingStep PROVE Spared
  <2>1. ASSUME AccessPreferenceChanged PROVE Spared
    BY <2>1 DEF AccessPreferenceChanged, Drop, registration, policy
  <2>2. ASSUME WfcDisabled PROVE Spared
    BY <2>2 DEF WfcDisabled, Drop, registration, policy
  <2> QED BY <1>7, <2>1, <2>2 DEF SettingStep
<1>8. ASSUME TransportStep PROVE Spared
  <2>1. ASSUME ReaderDies PROVE Spared
    BY <2>1 DEF ReaderDies, policy, registration
  <2>2. ASSUME PeriodicRegisterThrows PROVE Spared
    BY <2>2 DEF PeriodicRegisterThrows, policy, registration
  <2>3. ASSUME RegisterWriteFails PROVE Spared
    BY <2>3 DEF RegisterWriteFails, policy, registration
  <2>4. ASSUME PeriodicRegisterCrashes PROVE Spared
    BY <2>4 DEF PeriodicRegisterCrashes, Inv, Support, policy, registration
  <2> QED BY <1>8, <2>1, <2>2, <2>3, <2>4 DEF TransportStep, AlarmStep
<1>9. ASSUME CallStep PROVE Spared
  BY <1>9 DEF CallStep, CallStarts, CallFindsStaleTransport, CallEnds, TerminateWriteFails, policy, registration
<1>10. CASE UNCHANGED vars
  BY <1>10 DEF vars, bearer, registration, policy, control
<1> QED BY <1>1, <1>2, <1>3, <1>4, <1>5, <1>6, <1>7, <1>8, <1>9, <1>10 DEF Next

\* For any networks and events: an expired suspension check spares a bearer in service.
THEOREM SuspensionAlwaysSparesBearer == Spec => SuspensionSparesBearer
<1> QED BY InitInvariant, NextInvariant, SuspensionStep, PTL DEF Spec, SuspensionSparesBearer
=============================================================================
