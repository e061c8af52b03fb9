# TLA+ models of the PhhIms IMS client and the audio HAL

This directory models the control logic of `packages/PhhIms`, the IMS/SIP client of the
`device_samsung_sm8550-common` tree: registration and its recovery, calls, session timers, SMS,
the threads, timers and callbacks that drive them, and the streams of the audio HAL
(`audio/impl`). Each module is translated from the source; `PROJECT.json` maps every definition
to the lines it stands for, lists the hazards of the code with the properties that watch them,
and names the runs, the mutants that show each property can fail, and the theorems.

Contents: 1 inventory · 2 plan · 3 modules and how they correspond to the code · 4 runs ·
5 bounds and fairness · 6 proofs · 7 disagreements found · 8 what is not modelled

How to run: `tlc -config X.cfg M` for the pairs of section 4, `tlapm M_proofs.tla` for the
proofs.

## 1. Inventory

The tree is an Android device tree. Most of it is configuration; the running code is the
IMS client (`packages/PhhIms`, about 22 000 lines of Kotlin plus vendored signal
processing) and the audio HAL service (`audio/impl`, 3 300 lines of C++).

Paths below are relative to `packages/PhhIms/app/src/main/java/me/phh/`.

| component | state | operations | correct when |
|---|---|---|---|
| reconnect controller (`sip/ImsReconnectController.kt`) | generation, mailbox of one pending request, worker flag, retry flag, failure count | reconnectIms, invalidatePendingReconnects, markConnected, failConnectAndRetry, scheduleReconnectRetry | one worker at a time; no request stranded; attempts go forward |
| network request restarter (`sip/ImsNetworkRequestRestarter.kt`) | scheduled flag, generation | schedule, invalidate | the flag always has an owner; a deferred request is made |
| registration (`sip/SipHandler.kt` 240–2800, `ImsTransportGuard.kt`, `ImsNetworkState.kt`) | current network, network callback, sockets and readers, imsReady, technology, what the framework was told, gate, deferral, suspension check | bearer callbacks, connect/REGISTER, drop, periodic REGISTER, Wi-Fi calling switches | registration recovers from every loss; telephony is not left with a stale state; calls are spared |
| incoming calls (`sip/SipHandler.kt` 2834–4510 and 7425–7984, `SipIncomingInvite*.kt`, `RecentCallIdCache.kt`) | currentCall, four answer flags, terminated Call-IDs, one session per call | INVITE, UPDATE, CANCEL, ACK, BYE; set-up, accept, reject, 2xx retransmission, hang-up | a cancelled call does not come back; late messages and timers hit the call they name |
| call waiting and hold (`SipCallWaiting*.kt`, `SipInDialogInvite.kt`, `SipHandler.kt` 5600–7430) | waiting slot, held slot, swap slot, pending re-INVITE | waiting INVITE, accept/reject, hold, resume, swap, automatic resume | dialogs are targeted by Call-ID; a swap that fails half-way leaves one active call |
| outgoing calls and PRACK (`SipOutgoingInvite*.kt`, `PrackWaitTracker.kt`, `SipPrackHandling.kt`, `SipUpdateResponses.kt`) | pending INVITE, CSeq, provisional state, connected set, PRACK waits | INVITE, 1xx/2xx/3xx–6xx, CANCEL, retries, PRACK, UPDATE, RTP-based connect | a CANCEL that crosses a 2xx is followed by ACK and BYE; a retry happens once |
| session timers (`SipSessionRefresher.kt`, `SipDispatcher.kt`, `SipSessionTimerNegotiation.kt`) | entry per dialog (generation, attempt, role, CSeq), posted timers, response callbacks | update, cancel, cancelAll, timer, timeout, response | a dead peer's call ends; no timer is lost; an ended call leaves nothing behind |
| SMS (`SipSmsHandler.kt`, `ims/PhhImsSms.kt`, `SipSmsFallbackPolicy.kt`) | reference numbers, pending sends, timeouts, learned fallback | send, RP-ACK/RP-ERROR, deliver, status report | one result per message, also when answer and timeout cross |
| framework feature (`ims/PhhMmTelFeature.kt`, `PhhImsService.kt`, `PhhImsBroadcastReceiver.kt`) | sessions by Call-ID, capabilities, alarms | call session callbacks, alarm, subscription changes | a session mirrors its dialog and ends exactly once |
| call audio (`SipEchoCancellationSession.kt`, `SipDownlink*.kt`, `SipUplink*.kt`, `BoundedCloser.kt`, `SipOperationWatchdog.kt`) | play-out queue, echo reference buffer, encoder/decoder threads | start, hold, stop, play-out, watchdog | bounded queues; threads of one call do not outlive it |
| RTP and DTMF (`SipAmrRtpPayload.kt`, `SipDtmf*.kt`, `SipRtpPacketParser.kt`) | sequence numbers, timestamps | pack, unpack, event packets | packing is inverted by unpacking; timestamps go forward |
| audio HAL (`audio/impl/*.cpp`) | stream descriptor, command/data/status queues, write and read threads, open streams | open, start, standby, write, read, close | the I/O thread and the client never both wait; no position runs back |
| wire format, SDP, REGISTER/IPsec construction, carrier settings, dialling helpers | stateless | parse, format, negotiate | covered by the unit tests and by use as inputs |
| vendored echo canceller and noise suppressor, device configuration, build scripts | – | – | outside this project |

**How they interact.** ConnectivityManager callbacks, the SIP readers, the `myHandler` looper,
binder threads of the framework and several `thread { }` blocks all call into `SipHandler`.
Almost none of its fields is guarded by a lock; the code relies on atomics, on generation
counters and on looking again after a blocking call. Readers get messages from
`SipDispatcher`, which keeps request callbacks by method and response callbacks by Call-ID or
by transaction. A lost bearer, a failed write or a dead socket becomes a request to the
reconnect controller, whose worker drops the connection (ending every call and timer) and
runs connect() again; when the bearer itself is gone the restarter asks Android for a new one.
Calls push back: while one is active, tech-only handovers are deferred to its end.

**What is hard.** Hand-overs between the controller's threads; stale generations and flags
that outlive their owner; messages that cross (CANCEL and 200 OK, ACK and its timer, BYE and
refresh); a handler that sleeps or writes between its check and its action while one
`currentCall` is shared by all of them; a failure half-way through a reconnect that has
promised telephony to stay registered. `PROJECT.json` lists 40 such places.

## 2. Plan

Order: what the rest depends on first.

1. **ReconnectController**, with the abstract **ReconnectSingleFlight** it implements. *Done.*
2. **RequestRestarter**. *Done.*
3. **ImsRegistration**: the registration around both helpers. *Done.*
4. **IncomingCall**. *Done.*
5. **CallWaiting**: the waiting, held and swap slots with hold, resume, swap and automatic
   resume. *Done*, with `AnswerIsOwed` proved. An abstract specification of slots that the detailed
   one implements turned out to say no more than `SlotsDistinct` and `OneTalks`, and is not written.
6. **OutgoingCall**: the INVITE with its provisional and final responses, retries, CANCEL, ACK,
   the connection by RTP, the BYE with its timer, codec restarts and reconnects. *Done.*
7. **SessionTimers** *done*; the PRACK waits of incoming calls are open.
8. **SmsOverIms**: sends, answers, timeouts, fallback, deliveries. *Done.*
9. **AudioStreams**: the stream threads and queues of the audio HAL, with the abstract
   **CommandExchange** it implements. *Done.*
10. **MmTelFeature**: life cycle of the feature and its capabilities. *Open*; its call and SMS
    sessions are part of the modules above.
11. **Media**: play-out queue, echo session, watchdog; **AmrPayload** and **DtmfTimestamps** as
    pure functions against reference definitions. *Open.*

Proofs still open: SlotsDistinct, HeldNotPlaying and HeldIsSilent of CallWaiting for any number of
calls (steps 10 and 11 bring theorems of their own).

The compositions are inside the modules where components meet: ImsRegistration contains what
the reconnect controller and the restarter do to it, IncomingCall and SessionTimers contain the
reconnect, CallWaiting contains incoming and outgoing calls reduced to what the slots see,
OutgoingCall the looper, the reader and the framework session.

The suite is kept to a dozen short runs. Six earlier demonstrations of disagreements were
retired for it; their statements stay in the modules and in section 7.

## 3. Modules

| module | models | extends |
|---|---|---|
| `ReconnectController` | `ImsReconnectController`, one step per access to shared memory | – |
| `ReconnectSingleFlight` | what it promises: numbered requests, one flight, attempts go forward | – |
| `RequestRestarter` | `ImsNetworkRequestRestarter` and `getVolteNetwork` | – |
| `ImsRegistration` | bearer callbacks, REGISTER flow, drop and reconnect policy | – |
| `IncomingCall` | incoming dialogs with all their threads | – |
| `CallWaiting` | the four call slots, hold, resume, swap, and the sessions that ask for them | – |
| `OutgoingCall` | outgoing dialogs, their transactions, media flags and session | – |
| `SessionTimers` | `SipSessionRefresher`, its callbacks in `SipDispatcher`, its callers | – |
| `SmsOverIms` | `SipSmsHandler`, its callbacks, the learned fallback | – |
| `AudioStreams` | `Device`, `StreamOut`, `StreamIn` with their threads and queues | – |
| `CommandExchange` | what a stream promises its client: one command at a time, carried out once, answered as asked | – |
| `MC…` | constants and symmetry for TLC, where a cfg is not enough | the module |
| `…_proofs` | theorems; `ReconnectController_proofs` extends `RequestRestarter` as well | the module, `TLAPS` |

**ReconnectController.** Variables are the class's fields (`reconnecting`,
`reconnectRetryScheduled`, `failureCount`, `generation`, `pendingRequest`) and
`SipHandler.network`. Threads come from pools of callers, workers and retry threads; `pc`
gives the next access to shared memory. `Thread.sleep` is the arbitrary delay before a step.
connect() returns or throws by choice. `attempted` is a history variable.

**RequestRestarter.** The same style, with names of its own, so that one module of theorems can
extend both: `currentGeneration` is the class's `generation`, `at` the next step of a thread.
`ratReady` is the telephony state as `isRatReadyForImsNetworkRequest` sees it; `getVolteNetwork`
looks at it a second time inside the restart thread.

**ImsRegistration.** A handler is one step; connect() is several, because it sleeps and waits
for replies while callbacks, readers and timers run. The two flows that call connect() (the
first network's own thread and the reconnect worker) have a phase each. A generation is the
flag `cur` of a request, a restart is one Boolean: the thread-level detail is that of the two
modules above. `lost` is a history: it names the retry that scheduleReconnectRetry ignores while
an older one sleeps that will find itself stale, and the restart whose second look at the RAT
defers to itself (`RestartFindsNoRat`). Abstracted: P-CSCF selection (a link has one or has none),
the messages of the REGISTER exchange (its outcome is an input), shutdown. Assumed: TCP as control
transport, the default carrier policy (registration kept during a transient reconnect), the
link properties of a network reported before the network becomes available, and no reuse of a
lost `Network` object while something refers to it. The 50-minute REGISTER alarm fires by
itself only when nothing else is going on, or as an input at any other moment.

**IncomingCall.** Per call: what the caller has done (`remote`), our final response, the
set-up, accept, reject and retransmission threads, what the reader is in the middle of, and the
framework session. Shared by all calls, as in the code: `current` (currentCall), the answer
flags, the terminated Call-IDs. Threads interleave where they block (socket write, sleep, binder
call), where the code looks again at what it has read, and between a look at currentCall and the
store of a copy of it (in acceptCall, a repeated INVITE and an UPDATE). So a CANCEL is three
steps, its look at the flag, the 200 and the 487, and the clearing, and an accept four.
Two histories name what the code does not prevent: `putBack`, the calls that a thread stored
again after they had been cleared; `crossed`, the calls whose accept and CANCEL had each passed
its check before the other acted, or whose flag the failed accept of another call took.
Abstracted: SDP and media, PRACK, in-dialog re-INVITE, call waiting, the expiry of terminated
Call-IDs (the model's history is shorter than it). A failing write fails at once. One session per
Call-ID.

**SessionTimers.** `states` is the refresher's map, `posted` the tasks posted to the looper,
`looper` the rest of the task it is in, `readers` the handlers that have passed their check,
`callbacks` the dispatcher's transaction callbacks. A dialog that is up is in one of three places:
a slot where a hang-up ends it, the current slot on hold (terminateCall takes an answered incoming
call for one without ACK and writes no BYE), or between the slots of a swap (terminateCall does not
find it). A generation sends at most one UPDATE, so
its CSeq is represented by the generation; a map entry that is absent has generation 0. An
answer whose callback is gone reaches nobody. Delays are not modelled. `waived` records the
calls whose timer went away on purpose: a 2xx without Session-Expires, or a failed write that
asked for a reconnect. `left` records those that a hang-up has left in their slot: they live on
without an entry.

**CallWaiting.** One variable per slot (`current`, `held`, `swapped`, `waiting`), the callback under
each Call-ID, the re-INVITEs without a final response (`wire`), the response a reader is handling
(`answering`), and per call what the peer and the framework see. Handling a response is three
steps, as in `handleResponse`: the callback of this moment is taken, it runs (and may write the
next re-INVITE of a swap), and what then stands under the Call-ID is removed. A CANCEL, a reject and
an accept are steps up to each socket write and the stores after it. `playing` is callStarted with
the call it was set for. Histories: `crossed`, dialogs with a re-INVITE sent before the last one was
dealt with; `lost`, sessions whose request has lost its callback; `resumed`, calls resumed by the
code alone. The framework asks for one hold or resume at a time and hears nothing of the code's
own; threads, peers and readers overlap freely. Simplified: the thread of a hold or resume is one
step up to its re-INVITE, a hang-up is one with its BYE, final responses to re-INVITEs are read by
one reader (requests may be handled by another), and the set-up of a plain incoming call is merged
(IncomingCall has it in detail). A failing socket ends in a reconnect that clears every slot, and is
left out.

**OutgoingCall.** Three kinds of thread share `pending`, `current`, the call object's flags and
the media flags without a lock: the calling thread, the looper (hang-up, BYE timer, media
restart), the reader; besides them the threads that wait for RTP, and the reconnect. A step
ends where its thread writes to the socket. The handler of a 2xx is therefore two steps
(`AckFinal`, `FinishFinal`), and so are terminateCall and the RTP timeout. The CSeq is the
number of times an INVITE was sent again; SDP is the codec it selects. Simplified: a retry and
the handling of a failure are one step each (a hang-up between a retry's look at the pending
INVITE and its write is not seen); retransmitted 183 and 200, a failed RTP socket and the
success of an UPDATE are left out; the RTP threads run exactly while `threads` is set and
`stopped` is not; only the first INVITE of a call can get lost without an answer. `acked`,
`cut` and `redials` are histories: the calls whose 2xx was acknowledged; those which something else
cut off (a reconnect, the BYE or the RTP timeout of another call, a codec restart that clears
callStarted); and those begun before the last one was cleared away, which call() does not check:
before its 2xx has been handled, or within four seconds of a BYE nobody answers.

**SmsOverIms.** `byCallId`, `byRef`, `tokens` and the like are the handler's maps. A step is a
critical section of `smsLock`, or one write; the reconnect is three steps in the order of the
code (callbacks, state, sockets). A message stands for its Call-ID. A reference is a number that is
used again, also while the message centre has a word to say about the older message, as the
eight bits of the code permit. A send begins with rememberPending, after which the write, or
anything else up to the response callback, may throw (`SendThrows`, `WriteThrows`); an exception
before it is swallowed by `PhhImsSms.kt` 72–74 without a result, which is outside the model.
`network` is what the message centre knows, `results` what the framework was
told, `forgotten` the messages a reconnect dropped from the tables.

**AudioStreams.** `commandMQ`, `dataMQ`, `statusMQ` and `efGroup` are the queues and the event
flags; `io` is the position of the stream's thread, `callback` that of the callback thread,
`client` that of the client, `object` the C++ object and `halStream` the legacy stream below. One
step is one access to what they share, so that a wake-up may come before, between or after the
waiting thread's look at the queues. Sizes are counted in GiB, the unit of the only limit the code
has. `CommandsSpec` maps this to CommandExchange: a command in its queue is asked, with the legacy
HAL it is worked on, and after that answered, first in `mStatus` and then in the status queue; the
data are those in `dataMQ`. Left out, because they go straight to the legacy HAL and keep no state
here: volume, routing, parameters, effects, audio modes, the memory-mapped mode.

## 4. Runs

| run (module, cfg) | properties | what it shows |
|---|---|---|
| reconnect (`MCReconnectController`) | SingleWorker, NoStrandedRequest, SingleFlightSpec, StoredRequestAttempted, ValidRetryReconnects | every interleaving of two callers, two workers and two retry threads; the controller implements ReconnectSingleFlight, by which attempts go forward (AttemptsIncrease); with running threads the newest request is attempted and a valid retry reconnects. 181 000 states |
| restarter (`MCRequestRestarter`) | FlagHasOwner, FlagReleased | schedule, invalidate, shutdown and the RAT in any order: a set flag is always cleared by somebody. 16 000 states |
| registration_safety (`MCImsRegistration`) | BearerRequested, DropIsReported, SuspensionSparesBearer | four events of any kind on two networks, RAT changes between the two checks of a restart included. 1 735 000 states |
| registration_recovery (`MCImsRegistration`, `RegistrationRecovery.cfg`) | Recovers, DeadTransportNoticed | any three events of every kind: with usable bearers IMS is registered again and again, except where a retry was ignored in favour of a stale one or a Wi-Fi calling drop waits for a cellular bearer. 262 000 states |
| incoming_call (`MCIncomingCall`) | NoRevival, LateCancelSparesAnswered, AckTimerSparesConfirmed, NoAnswerAfterRefusal | two callers, all threads, and any one of a repeated message, an UPDATE, a failed write, an access change or a lost flow. 2 299 000 states |
| session_timers (`SessionTimers`) | ArmedHasTimer, NoUnwatchedCall, SilentPeerEndsCall, EndedIsForgotten | a dialog with every order of timer, timeout, answer, refresh, hang-up, failed write and reconnect, in a slot, on hold or between the slots of a swap. 381 000 states |
| call_waiting (`MCCallWaiting`) | HeldNotPlaying, SlotsDistinct, HeldIsSilent, OneTalks, AnswerIsOwed | three calls that arrive, wait, are held, swapped, resumed, cancelled and hung up by either side, with any re-INVITE refused, through seven inputs. 1 325 000 states |
| call_waiting_answers (`CallWaiting`) | RequestAnswered | the same three calls through five inputs, with peers that answer. 75 000 states |
| outgoing_call (`OutgoingCall`) | ConnectedIsAnswered, EndedIsGone, AnswerSettles | two calls, the second begun at any time, with any three of hang-up, responses of every kind, retries, early media, refused PRACK or UPDATE, broken connection and lost network: only an acknowledged call is reported connected, an ended call does not stay current, an answer is followed by connected or ended. 224 000 states |
| outgoing_codec (`OutgoingCall`, `OutgoingCallCodec.cfg`) | ConfirmedIsStarted | *violated*: the finding of section 7 |
| sms (`SmsOverIms`) | OneResult, SuccessIsAcked, AckMeansAccepted, EverySendAnswered | three sends and deliveries against late, repeated and misdirected results, refusals, failed writes, timeouts, exceptions and reconnects, with two references. 856 000 states |
| audio_streams (`AudioStreams`) | NobodyOutlivesStream, HalUsedWhileOpen, IdleMeansDrained, DeviceClosedLast, CommandAnswered, EverythingReleased, CommandsSpec | a stream with its I/O thread, its callback thread and a client that may die anywhere: every order of commands, wake-ups, failures below, close() and destruction; the stream implements CommandExchange. 49 000 states |

The type invariant of a module with a proof module is proved (section 6) and not run again.
Deadlock is not an error in any run: with the inputs used up, or all calls over, the system may
rest.

The mutants in the modules (one per property, each the change a plausible bug would make) are
not part of any specification; replacing the definition they vary makes TLC report the
property.

## 5. Bounds and fairness

*Bounds.* `MaxInputs` bounds what comes from outside: calls into the controller, events of
bearers, repeated or failed messages, refreshes, hang-ups and the messages of a callee. What
follows from an input is not bounded, except by the pools of threads.

* Two callers, workers and retriers are the smallest pools in which every race of the controller
  is between different threads.
* Two networks let the current, the lost and the next bearer differ. Three events are enough for the
  retry and the restart that are lost (section 7, items 1 and 2); with four events the recovery
  properties also hold on one network (721 000 states) and, with the kinds divided in two halves, on
  two networks (about 1 040 000 states).
* Two incoming calls let a late message of one meet the other. One fault or repeated message is
  enough for every thread to take each of its ways; the properties also hold with any two
  (7 056 000 states, beside the run, which is to stay short).
* The session-timer run has one dialog, because dialogs share nothing there but the looper and
  the numbering of generations; its theorems hold for any number. Two inputs let a refresh cross
  an expiry and a renewed timer expire again.
* Call waiting needs three calls (current, held, waiting) for its slots. Its inputs are the requests
  of the framework, the hang-ups, and the INVITEs, CANCELs and BYEs of the peers: seven are enough to
  answer a second call, swap, let the swap be refused and end a call in between. The properties of
  the first run also hold with eight inputs (7 033 000 states), for two calls and ten inputs
  (3 017 000 states) and in random behaviours of four calls and fourteen inputs (86 000 000 states), RequestAnswered with six
  inputs (462 000 states); it needs the exception of `lost` with three already.
* Two outgoing calls let one meet what another has left. The second may begin at any time.
* SMS: two messages and two references, so that messages may share one or not: a late result of the
  first can name the second.
* One audio stream: streams share only the device and its count of open streams, and
  `DeviceClosesLast` is proved for any number. Frame sizes up to 2 and three commands let a
  second command meet what the first left behind.

Symmetry is used only in safety runs.

*Fairness.* Weak fairness for threads that have been started, tasks that have been posted,
handlers that have begun, and timers: the Java runtime, `Handler` and `AlarmManager` run them.
Beyond this

* ImsRegistration: ConnectivityManager delivers a callback that is due, a dead socket's reader
  notices it, calls end, and the REGISTER alarm goes off when nothing else is going on (also where
  its receiver then crashes the process);
* CallWaiting, for RequestAnswered only: peers send a final response to every re-INVITE. The code has
  no timer for one; a silent peer leaves a hold unanswered for ever;
* OutgoingCall: a broken connection is replaced, and a callee that has the INVITE gives up in
  the end (its network answers 408 or 487, or it hangs up);
* AudioStreams: the legacy HAL returns from its calls, a client that has begun to send a command
  goes on or dies, and an object without references is destroyed.

Otherwise nothing is assumed of users, peers, networks or the RAT: properties that need a bearer
say so (`<>[]Usable`, `<>[]ratReady`).

## 6. Proofs

All theorems hold for every value of the constants that meets the modules' assumptions (for
the controller: disjoint pools, `NoNetwork` and `NoRequest` outside the sets they complete).

* **ReconnectController_proofs**: TypeCorrect, WorkerIsSingle, RequestNotStranded,
  AttemptsGoForward, ImplementsSingleFlight. The worker flag equals "a worker is in its loop",
  inductive by itself. NoStrandedRequest needs that a thread about to start a worker is
  counted as owner. The attempts go forward because a worker's generation is never above the
  current one and the check equates the two. The refinement maps `latest`, `busy` and
  `attempted` to the generation, the worker flag and the history variable; every step is an
  abstract step or a stutter.
  The module ends with the restarter: RestarterTypeCorrect and FlagIsOwned. FlagHasOwner is
  inductive together with RestarterTypeOK, given that the pools of callers and of restart threads
  are disjoint: only a caller ends an invalidate(), so no owner of the flag disappears with it.
* **ImsRegistration_proofs**: TypeCorrect, BearerAlwaysRequested, DropAlwaysReported,
  SuspensionAlwaysSparesBearer. The strengthening says that IMS is ready or registering only
  over sockets that exist and that an idle worker holds no request; without it a drop could
  not be told from a step that never was connected. BearerRequested needs the restart that is lost
  as a third case: it is what item 1 of section 7 is about, and no more.
* **IncomingCall_proofs**: TypeCorrect, TerminatedStaysTerminated, LateCancelAlwaysSpares,
  AckTimerAlwaysSpares, RefusedNeverAnswered. `Inv` adds to the type invariant and NoRevival:
  which threads of a call can exist together (ThreadsFit), that a call being set up is not answered
  (Preparing), that a refused call is current only for a thread that will clear it or because one
  has put it back (Refusals), that the flag of a late CANCEL is up for the answered current call
  unless the call is in `crossed` or `putBack` (FlagHolds), and callStarted for the confirmed one
  (StartedHolds). The exceptions of the properties are exactly the two histories.
* **SessionTimers_proofs**: TypeCorrect, EntriesHaveTimers, CallsAreWatched. ArmedHasTimer is
  inductive; NoUnwatchedCall needs that the looper forgets only dialogs that are over, and this
  in turn that nothing is under way for a dialog that has not begun. It says of every call that is
  up why it has no entry: by agreement, or because a hang-up has left it in its slot.
* **SmsOverIms_proofs**: TypeCorrect, ResultOnce, SuccessNeedsAck, AckNeedsAcceptance.
  `Inv = TypeOK /\ Pending /\ Receiving`. Pending: an entry under a reference is a pending message
  of that reference, a pending message has no result yet, and a success is the network's word for a
  message with the reference of this one. For a reference in use by two messages it cannot be more:
  the code settles the newer one by the result of the older. Receiving: tokens are drawn once, and
  headers are stored under the token of their own delivery.
* **AudioStreams_proofs**: TypeCorrect, ThreadsEndFirst, HalOpenInUse, QueuesDrained,
  DeviceClosesLast, ImplementsCommandExchange. While a client waits, its command is in the queue
  (Pending), with the legacy HAL (Running) or answered (Answered), and each of these fixes what the
  queues hold; Lifecycle relates how far a stream has been opened and closed to its threads. The
  count of open streams is compared to a cardinality, which needs that `Streams` is finite.
  That the data queue never holds more than its size (Fits) rests on the same invariant: a client
  writes to an empty queue, and the thread reads no more than there is space for (OutcomeFits).
  For the refinement, `Seen` lists what the abstract state of a stream is computed from. A step
  that leaves it alone is a stutter (SeenSame); each other action has a lemma of its own: opening,
  asking, taking an answer, leaving and dying are the client's moves; ReadCommand begins and
  HalReturns answers, which needs that an outcome is about the command and within its amount
  (OutcomeAmount) and announces what it leaves in the data queue (OutcomeData); Signal, Reply and
  the destructor change what is `Seen` without changing what it amounts to. A command whose client
  has died is still carried out, behind an exchange that is over.
* **OutgoingCall_proofs**: TypeCorrect, ConnectedAfterAnswer, for calls begun at any time. RTP
  connects a session when callStarted is set, and callStarted belongs to no call. In any case it
  stands for an acknowledged call, and calls are made in order, so that it is that of the latest or
  of an earlier one. If the latest was begun with nothing left of the others (it is not in
  `redials`), then whatever names a call (current, pending, the session's Call-ID, the looper's
  write, the reader's answer) names it; a call begins with none of these set, a session that has
  ended has no pending INVITE, respInFlight of an older call is not resumed by its PRACK answer, and
  so callStarted is its own. For a redial the theorem says only that an earlier call was
  acknowledged.

* **CallWaiting_proofs**: TypeCorrect, AnswersStayOwed, for any number of calls and without
  assumptions about the framework or the peers. AnswerIsOwed is inductive together with FormsFit,
  which says what continuation each kind of callback can have: a step that writes no re-INVITE and
  handles no response can only settle requests, and for those that do, three lemmas about Send,
  TakesResponse and CallbackRemoved say whose request the callbacks stand for before and after.

*Only model-checked*: SlotsDistinct, HeldIsSilent, HeldNotPlaying and OneTalks of CallWaiting
(which slots a continuation finds depends on chains of re-INVITEs, answers and BYEs whose inductive
invariant is not worked out; a proof for a framework that waits for the answer to its own and the
code's re-INVITEs would assume what nothing enforces); ConfirmedIsStarted; and all liveness
(StoredRequestAttempted, ValidRetryReconnects, FlagReleased, Recovers, DeadTransportNoticed,
SilentPeerEndsCall, EndedIsForgotten, RequestAnswered, EndedIsGone, AnswerSettles,
EverySendAnswered, CommandAnswered, EverythingReleased), which the proof system cannot derive
from fairness.

## 7. Disagreements found

Checked by a run, and recorded as a finding:

* A final 200 OK with another codec than the 183 that started the media: the restart of the
  media clears callStarted after the ACK has set it, and nothing sets it again. The call is never
  reported as connected and the microphone stays closed (`ConfirmedIsStarted`), although
  `SipHandler.kt:4553` says that the 200 OK sets it.

Stated in a module and found violated by TLC, with the run that showed it retired to keep the
suite short:

1. A RAT that drops between the two checks of a restart loses the IMS network request: the
   thread that defers holds the flag that suppresses the deferral (`DeferredRequestMade`;
   `BearerRequested` excepts this restart until another one gets through).
2. A retry that is due while an older one sleeps is lost: the old one holds the flag and then
   finds itself stale. After a refused REGISTER, or a switch of Wi-Fi calling, IMS then stays
   down until something else asks for a reconnect. `Recovers` runs with all of these and excepts
   exactly this retry, and the drop that waits for a cellular bearer; without either exception it
   fails.
3. The time-limited gate suppresses the reconnect for a P-CSCF that has just appeared, as a
   "duplicate" of an attempt that has ended (`SuppressedIsDuplicate`). `Recovers` shows that
   registration comes about without it, at the latest by the alarm.
4. A reconnect deferred because of one call is carried out during the next
   (`DeferralSparesCalls`).
5. A bearer lost in the middle of a reconnect that keeps the framework registration is not
   reported (`LossIsReported`).
6. A CANCEL or BYE for a call that is not current ends the current one (`TerminationIsRouted`).
7. Hanging up an answered call on hold sends no BYE, because its cleared callStarted reads as "no
   ACK yet" (`HangUpReachesPeer`).

Stated, not run, overlapping with the above: `AtMostOneRetry`, `NewestRequestAttempted`,
`FailureIsRetried` (controller); `NoRestartAfterShutdown` (restarter); `SingleFlow`,
`NeverCrashes`, `WaitingForCellular`, `SuppressedLossIsCovered` (registration);
`RefreshedCallSurvives` (session timers: a timeout or expiry past its check ends a dialog that
has just been refreshed); `BufferIsAtMost1GiB` (audio HAL: `MAX_BUFFER_SIZE` is `2 << 30`, its
comment at `Stream.h:58` says 1 GiB).

Properties that except what the code does, so that they do not catch it: StoredRequestAttempted does
not promise a request that a reversed store has overwritten, and ValidRetryReconnects is about a
retry that is scheduled, not one that the flag of another suppresses (items 2 above and
`NewestRequestAttempted`); DropIsReported does not see a bearer lost half-way (item 5); OneResult and
SuccessIsAcked do not see a result that names the wrong message of the same reference;
AckMeansAccepted models the choice of In-Reply-To, not the RP reference that is written;
EverySendAnswered begins when a message is remembered; EndedIsGone excepts calls that something else
cut off and redials; AnswerSettles is about calls whose session has its Call-ID.

Seen while modelling, with no property that demands otherwise:

* *Incoming calls.* A thread that has looked at currentCall stores a copy of what it saw
  (`SipHandler.kt` 3073, 4081, 6273, 6298): a call that was cleared in between becomes current
  again (`putBack`). A CANCEL whose look at the flag came before acceptCall raised it clears
  a call whose 200 OK is then written; an accept that looked before the clearing writes a 200 OK
  after the 487; a 200 OK that cannot be written takes the flags of whatever call is current
  (`crossed`). The retransmission thread of an ended call may clear the flags of the next;
  two INVITEs set up at once replace each other before either is installed; a hang-up during the
  access guard sends BYE in an early dialog; a hang-up between the 200 OK and the end of
  acceptCall is lost; a CANCEL during notifyIncomingCall leaves a session that rings on; a missing
  ACK ends the call without BYE; a reconnect ends calls without telling their sessions, and
  forgets the terminated Call-IDs; a 200 OK that cannot be written leaves currentCall set.
* *Call waiting.* `handleResponse` removes what stands under a Call-ID after the callback has run:
  a re-INVITE written meanwhile loses its callback, its request is never answered, and a hold whose
  2xx goes unheard leaves media running to a held peer (HeldIsSilent excepts `crossed`, AnswerIsOwed
  and RequestAnswered `lost`). The automatic resume after a BYE replaces the callback of a request
  of the framework, and may meet a call the user has taken meanwhile, so that two peers talk
  (OneTalks excepts `resumed`). A swap refused after a plain call was accepted meanwhile pushes that
  call out of the current slot; its media threads then read the RTP of the call that was put back. A
  CANCEL or a reject clears currentCall after its write, whichever call that is by then.
  A BYE of the active call drops a waiting INVITE without an answer (574–576). A
  hang-up before the ACK is forgotten when another waiting call is accepted (7358). A call in the
  swap slot cannot be terminated, and an INVITE that comes during a swap is treated as a plain
  one. A 2xx that arrives after our BYE makes an ended call current (7113). An UPDATE for the
  held call is answered 481 (2999). An outgoing call that waits for the answer to its BYE can be
  moved to the held slot (7365, 3179).
* *Outgoing calls.* A 2xx that crosses a written CANCEL is dropped by the stale-response guard
  without ACK or BYE, although `SipOutgoingInviteFinalAck.kt` logs "ACK first, then BYE once dialog
  state exists". A hang-up before the INVITE is pending is only logged; one between pending and
  write puts CANCEL before INVITE; one that crosses a retry cancels the old CSeq, or leaves the
  call current when the retry gets no answer. When no 180 without SDP has come, the Call-ID of
  the session is unknown, and a BYE or RTP timeout does not end the session. A 200 OK with SDP
  starts no RTP timeout. A hang-up between the ACK and the rest of the 2xx handler leaves a
  current call without BYE, and a reconnect there a current call nobody clears. A redial before
  the 2xx of the last call has been handled, or within four seconds of an unanswered BYE, meets the
  old current call: its own hang-up is ignored, the answer or RTP of the old call may connect the
  new session, and a late hang-up of the old call ends that session and leaves its INVITE pending
  (`redials`).
* *SMS.* A reconnect drops pending messages without a result. It clears the request callbacks
  before it closes the sockets, and a MESSAGE that arrives in between is answered 200 and
  dropped. A message remembered before the tables are cleared and written after gets no result.
  A late result of an older message settles the newer one with the same eight-bit reference. An
  exception before rememberPending is swallowed without a result (`PhhImsSms.kt` 72–74).
  A timeout may report a failure although the network acknowledges later. A repeated RP-ACK is
  taken for a status report. The RP-ACK carries the framework's reference, where a comment in
  `Sms.kt` asks for that of the delivery.
* *Session timers.* A call that its timer ends while it is on hold, or between the slots of a swap,
  lives on without an entry: terminateCall writes no BYE for it (4460–4471) or does not find it
  (4431–4438). A BYE of the peer for a call in the swap slot cancels its timer and no more.
  `SipSessionTimerNegotiation.kt` lines 9–11 and 127–130 say that PhhIms does
  not originate periodic refreshes; `SipSessionRefresher` does, whenever the local side is the
  refresher.
* *Registration.* A request that has become stale in the worker's hands still makes its network the
  current one, so that the callback for that network is taken for no change; the alarm recovers it.

## 8. Not modelled

Not yet: the PRACK of incoming calls (of an UPDATE only the store of the call is modelled), the life
cycle and capabilities of PhhMmTelFeature, the media and RTP threads (steps 7, 10 and 11 of the
plan). Within modelled components: the content of messages, SDP, cryptography and IPsec set-up (their outcome is a
choice), logging, P-CSCF selection, the expiry of remembered Call-IDs, shutdown of the
registration, and the simplifications section 3 names.

Never: parsing and formatting (stateless, and covered by `SipMessageTest` and `SipReaderTest`),
Android settings look-ups, the declarative device configuration and the build scripts, and the
vendored signal processing under `packages/PhhIms/app/jni` (abseil, jsoncpp, WebRTC's AEC3,
RNNoise). The vendored code is nearly all of the C and C++ of the tree, about 230 000 lines; the
program's own logic is the Kotlin of PhhIms and the audio HAL, which is where the models are. A
count over C and C++ lines alone therefore shows only the share of `AudioStreams`.
