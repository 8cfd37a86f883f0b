# A TLA+ model of the LiveKit SIP bridge

The repository is a Go server that bridges SIP calls into LiveKit rooms. This
directory models its call control in TLA+: what goroutines, timers, SIP
messages and room events do to one another. TLC checks the models on small
instances, and TLAPS proves the safety of all of them, the two kinds of call,
admission, transfers, room, media port and shutdown, for all values of their
constants.

## The system

| Part | Source | State | Operations |
|---|---|---|---|
| SIP leg, inbound | `pkg/sip/inbound.go` (`sipInbound`) | `invite`, `inviteTx`, `inviteOk`, `ringing`, `cancelled`, `acked`, `referCseq`, the lock `mu` | `StartRinging` and its goroutine, `Accept`, `AcceptAck`, `AcceptBye`, `RespondAndDrop`, `Drop`, `CloseWithStatus`, `TransferCall`, `handleNotify` |
| Inbound call | `pkg/sip/inbound.go` (`inboundCall`) | `done`, `ctx`, media, room, `endCall`, transfer topic | `handleInvite` with its waits, `close`, `Bye`, `EndCall`, `Shutdown`, `transferCall` |
| Admission | `pkg/sip/inbound.go`, `server.go` (`Server`) | `byLocalTag`, `inProgressInvites`, `provisionalInvites`, `rejectedInvites` | `processInvite`, `handleInviteAuth`, challenge timers, `onBye`, `onAck`, `onNotify`, `Stop` |
| Transfer | `pkg/sip/service.go`, `protocol.go` | `pendingTransfers`, `PendingTransfer` | `TransferSIPParticipant`, its worker, `sendRefer`, `waitReferResult`, `handleReferNotify` |
| Outbound call, client | `pkg/sip/outbound.go`, `client.go`, `errors.go` | the locks `c.mu` and `cc.mu`, `closing`, `stopped`, `activeCalls` | `createSIPParticipant`, `Dial`, `Invite`, `close`, `watchCancelledInvite`, `transferCall`, `Stop` |
| Media port | `pkg/sip/media_port.go`, `media_pipeline.go`, `draining_port.go` | timeout windows, packet time, socket, pipeline | `SetTimeout`, `timeoutLoop`, `SetConfig`, `discardLoop`, `Close`, `DrainPort` |
| DTLS-SRTP | `pkg/sip/dtls_srtp.go` | agent, mux and its queues, sessions | `start`, `readLoop`, `Close` |
| Room | `pkg/sip/room.go`, `participant.go` | SDK room, `subscribe`, `stopped`, `closed`, output | `Connect`, `Subscribe`, the SDK's callbacks, reconnection, `CloseWithReason` |
| Service | `pkg/sip/service.go`, `pkg/service/service.go`, `pkg/stats` | shutdown fuse, kill flag, monitor | `Run`, the drain loop, `Stop`, health |

An outbound call starts with an RPC: `createSIPParticipant` joins the room and
dials, in the goroutine of the request or in one of its own, and that goroutine
then waits for the end of the call. An INVITE enters `processInvite`, which may answer it itself (cached
rejection, refusal, challenge, re-INVITE) or creates an `inboundCall`, whose
handler runs in the same goroutine until the call is over. The leg's ringing
goroutine, the handlers of BYE, ACK and NOTIFY, the media timeout, the SDK's
callbacks, transfers requested over RPC and `Server.Stop` all act on the same
call from goroutines of their own. The hard part of the code is who may answer,
drop, close or release what in which order, with mutexes that are held across
network waits, a set of one-shot channels, and several timers.
`PROJECT.json` lists the hazards line by line.

## Modules

| Module | Models |
|---|---|
| `UASDialog` | what an inbound leg promises to the caller; abstract |
| `SipInbound` | the methods of `sipInbound`, as operators over the leg's variables |
| `InboundCall` | one inbound call: handler, `close`, ringing goroutine, BYE, `Server.Stop`, environment; extends `SipInbound` |
| `MCInboundCall` | configurations and events for TLC |
| `InboundHandlerSteps` | the steps of the handler keep the inductive invariant of `InboundCall` |
| `InboundCallProofs` | the other steps, the safety theorems of `InboundCall`, and it implements `UASDialog` |
| `InviteAuth` | `processInvite` for many concurrent INVITEs, the digest handshake and its timers |
| `MCInviteAuth` | the symmetry of Call-IDs |
| `InviteAuthProofs` | the safety theorems of `InviteAuth` |
| `Transfer` | transfers of one inbound call: requests, worker, NOTIFY handlers, the end of the call |
| `TransferProofs` | the safety theorems of `Transfer` |
| `UACDialog` | what an outbound leg promises to the callee; abstract |
| `SipOutbound` | the methods of `sipOutbound`, the INVITE transactions, the watcher of a cancelled INVITE, the callee |
| `OutboundCallState` | the variables of an outbound call, its types and its inductive invariant; extends `SipOutbound` |
| `OutboundCall` | one outbound call from the RPC to its end, with everything that may close it; extends `OutboundCallState` |
| `OutboundCallSteps` | the steps of the leg and of the call keep that invariant |
| `OutboundCallProofs` | the safety theorems of `OutboundCall`, and it implements `UACDialog` |
| `Room` | the LiveKit room of a call: joining, subscribing, reconnecting, closing |
| `RoomProofs` | the safety theorems of `Room` |
| `MediaTimeout` | `timeoutLoop`, the calls that arm it and the packets, over a small clock |
| `DtlsSession` | the DTLS-SRTP session and its packet mux |
| `MediaPort` | the socket and its readers, `SetConfig` and `Close`; extends `DtlsSession` |
| `ServiceShutdown` | the signals, `Service.Run` with its drain loop, both call tables, both `Stop`s |
| `PortShutdownProofs` | the safety theorems of `MediaPort`, of `MediaTimeout` and of `ServiceShutdown` |

Definitions keep the names of the Go code. A definition `X_Y` with the comment
"Mutant of X" is a plausible mistake in `X`; it is used by no specification and
documents which property would notice it.

**`SipInbound` and `InboundCall`.** `pc["handler"]` is the place of
`handleInvite`, `pc["stop"]` that of `Server.Stop`'s call of `Shutdown`; both
run the same actions of `close()`, and `closer` is the one that won `c.done`. A
step ends where the code blocks, takes or releases `c.mu`, or hands over to
another goroutine. `mu` names the holder when the lock is kept across steps:
`Accept` keeps it through its retries, `sendBye` through the BYE transaction;
every other user takes and releases it in one step and waits while it is held.
`final`, `finals`, `rings` and `byeSent` record what went out on the wire, and
`txFailed` that the transport refused a response, after which the library's
transaction is dead. The environment may cancel, send BYE and ACK, lose media
or the room, end the call by RPC, or stop the server, at any time the code
listens. The constant `Events` selects which of these may happen in a run;
`Confs` selects the transports and the `InboundWaitACK` option.
`RingPanics` is the nil dereference in `StartRinging` that ends the process.

**`InviteAuth`.** An INVITE is a number that also names its `CallState`, the
tag it would get and the nonce of its challenge. `objs` keeps every
`inProgressInvite` ever allocated, so that goroutines and timers can hold
entries that were evicted from the table. `superseded` and `finalized` are
history. `Replies` are the outcomes of the authorisation RPC, which
`GetAuthCredentials` turns into the result the server acts on; the result
"open", a password without username or password, comes only from another
implementation of `Handler`. The challenge is written
and read without a lock in the code; a step of the model writes it whole.

**`Transfer`.** A transfer is a number and also the CSeq of its REFER. A
handoff on the unbuffered `referDone` is taken by whichever side comes second;
a NOTIFY handler is "offer" after it read `referCseq` and "parked" when it
waits for a receiver. `closing` follows `close()` of the call, whose details
are in `InboundCall`. The kinds of failure that `transferResponse` tells apart
are one value here, except the end of the call, which the properties single
out.

**`SipOutbound` and `OutboundCall`.** The actors are the goroutine that dials,
the EndCall RPC, `Client.Stop`, the BYE handler and a transfer; `pc` says where
each is. `mu` is `c.mu` of the call, which the dialling goroutine holds for the
whole dial, and `ccmu` is that of the leg, which `Invite` holds while it waits
for a response. `once` is who runs the body of `stopped.Once` in `close()`.
`dialFailed` chooses an error, which `classifyInviteError` sorts into those that
invite another attempt and those that do not; `afterInvite` takes the invitation
back once an INVITE is out. Which error codes a caller of the RPC retries is
outside the repository: the model takes it from the comment of `afterInvite`,
that only server errors are. `early`, `unlisted`,
`stale` and `missed` are history: they name the cases the properties except.
`Requests` says which requests may come together in a run, and `Events` what
else may happen to the call.

**`Room`.** A session of the SDK is a number and also the participant SID it
gives. `sess`, `sid`, `published` and `subs` are the state of the SDK and the
server, as callbacks and methods show it. A recovery either resumes the session
or replaces it; only a replaced one needs its subscriptions again.

**`MediaTimeout`.** Each atomic load of the loop and each store of
`enableTimeout` is a step. The clock advances only when the loop waits and no
timer is due. The specification is `TimeoutSpec`; its names do not collide with
those of `MediaPort`, so that one module can extend both. The same holds for
`ServiceSpec` and `ServiceFairSpec` of `ServiceShutdown`.

**`DtlsSession` and `MediaPort`.** `start` publishes agent, mux and sessions
one after the other, `Close` works on what it finds. A queue is a number of
packets, since only full and empty matter, and the endpoints of SRTP and SRTCP
are one. The handshake needs `Flights` packets through its queue. Without ICE
`readLoop` of the mux reads the socket: `read` tells the entry of `Read`, where
`udpConn` looks at `closed`, from the blocked read behind it, which only a
deadline or the close of the socket ends. With ICE the UDP mux of the agent
reads the socket, and `readLoop` the connection of the agent. `deadline` is the
one read deadline of the socket, which `discardLoop`, `Close` and `DrainPort`
set in turn; a reader that was woken by the deadline of `Close` and runs only
after `DrainPort` has set another is back in its read. `taken` counts the
packets `readLoop` gets in this way. The clear and SDES sessions of media-sdk,
and pion, are external.

**`ServiceShutdown`.** A call enters its table and leaves it; `admitted` are
outbound calls past the health check and not yet in the table. `counted` is
history: the calls the last count of each table found.

## Runs

| Run | Configuration | Shows |
|---|---|---|
| `inbound_safety` | all events, UDP with `InboundWaitACK` and a reliable transport without, 1 retry, 2 rings | the safety of leg and call, `IInv`, refinement of `UASDialog` |
| `inbound_liveness` | CANCEL, BYE, stop; UDP without `InboundWaitACK` | every call ends; BYE and stop end it; the ringing goroutine exits |
| `inbound_shutdown` | stop only | counterexample to `ShutdownReleases` |
| `auth_safety` | 3 INVITEs, 2 Call-IDs (symmetric), table of 1, all replies | admission only with the digest of an own challenge, states finalized once, table sound, a 407 is never the last that is heard of a Call-ID |
| `transfer_safety` | 2 requests, 2 destinations, 2 transfers, 1 NOTIFY handler at a time | outcomes are unique, justified and shared; audio restored |
| `transfer_liveness` | 1 transfer, all status classes | transfers end, transferred calls are hung up |
| `outbound_safety` | all events, any two of EndCall, `Client.Stop` and a transfer together, 2 INVITEs | locks, no orphaned callee, everything released and reported once, no second dial, refinement of `UACDialog` |
| `outbound_liveness` | EndCall or `Client.Stop`, a BYE of the callee, 2 INVITEs | every call ends and both locks come free; `Client.Stop` returns |
| `room_safety` | 1 track, 2 losses of the connection, 2 closers | no audio before acceptance, no track missed after it, current SID, session left |
| `media_timeout` | windows 6, 3 and 2, 14 ticks | the timeout is neither late nor early |
| `media_port` | queues of 1, a handshake of 2 packets, with and without DTLS and ICE | the readers of the socket follow each other, `Close` returns, the session is taken down |
| `service_shutdown` | 2 calls of each direction, either signal | a drain hangs up on no counted call; `Run` returns |

`inbound_shutdown` expects a counterexample: it is a place where the code does
not do what its comments say, and the finding in `PROJECT.json` quotes them.

### Deviations that are stated and not run

These formulas are kept in their modules. Each states what a comment or a test
says, and TLC finds a counterexample when it is added to the run named here.

| Formula | Run | What the code does |
|---|---|---|
| `CancelledNotAccepted` | `inbound_safety` | the ringing goroutine answers a CANCEL with 200 (`inbound.go:1955`); a handler past `waitSubscribe` still accepts the INVITE and the call ends with a BYE, where `service_test.go:893` expects a 487 |
| `NoAckMeansNoAck` | `inbound_safety` | `Accept` takes the ACK from the transaction and leaves `acked` unset (`inbound.go:2059`), so a later media timeout ends the call as "no ACK received" |
| `ChallengeTimeoutFinalizes` | `auth_safety` | timers of two 407s on one Call-ID share `authResolved` (`inbound.go:169`), so one of the states is never finalized by its timer |
| `OwnResult` | `transfer_safety` | a NOTIFY handler that read `referCseq` before a transfer gave up hands its result to the next one (`inbound.go:2262`) |
| `ClearedOnClose` | `room_safety` | "room is cleared on close" (`room.go:210`) fails when `Connect` stores the room after the close (`room.go:398`) |

### What the properties except

An exception is a behaviour of the code that the model has, named by a history
variable or a state, so that the property still says something about all the
others.

| Property | Excepts |
|---|---|
| `CallEnds` (inbound) | the pin prompt, which has no time limit |
| `AnsweredEndsWithBye` | a leg whose transport refused a response |
| `AnsweredIsHungUp` | an answer that comes after the watcher's grace period or the close of the client (`missed`); a call closed before it was dialled (`early`), for which the second `close()` does nothing |
| `ReleasedOnce` | the entry in `activeCalls` of a call closed before it was registered |
| `EndReported` | the deferred update of `createSIPParticipant` overwrites the last status (`client.go:420`) |
| `NoTrackMissed` | a request lost with a connection that was then resumed |
| `ParticipantCurrent` | a session replaced while `Connect` stores the SID of the one before |
| `SessionLeft` | a close while `Connect` is joining |
| `NoEarlyTimeout` | `SetTimeout` between the loads of one pass of the loop |
| `OneReader`, `SessionReleased` | `SetConfig` waiting for `p.mu` and getting it before the fuse breaks |
| `OneReader` | one packet, which `readLoop` takes from `DrainPort` when `Close` could not wake it in time; the UDP mux of the ICE agent, which nothing closes before the socket is (`dtls_srtp.go:139`) |
| `CloseReturns`, `SessionReleased` | an agent or mux published after `Close` looked for it |

**Bounds.** Rings only matter before and after a final response, so 2 of them
(one sent by `StartRinging`, one by the goroutine) show every order. The retry
loop of `Accept` has the cases first, repeated and last attempt; one retry has
them all. A table of one handshake makes every second Call-ID an eviction;
three INVITEs are a challenge, its answer and one that interferes. Two
transfers are needed for a stale result, and two requests for a shared one. A
NOTIFY handler is a slot that is used again, so one slot still delivers any
number of NOTIFYs, one at a time. The authentication loop of an outbound
INVITE has the cases challenged and last attempt; two INVITEs have both. Of the
three requests that close or transfer an outbound call any two may meet, beside
the dialling goroutine, the watcher and the BYE handler; all three at once run
the same `close()` one after the other under `c.mu`. Two
losses of the connection make one recovery interrupt another's subscriptions.
The windows of the media timeout keep the order of the defaults, and 14 ticks
let every window pass after every arming. With a queue of one packet and a
handshake of two, a packet of each kind can be in the way of the other. Two
calls of each direction let one end while the other enters its table between
the counts.

Deadlock is checked in the runs of the calls, of admission and of transfers,
which have a step of their own for the states in which all work is over. It is
not checked in `room_safety`, `media_timeout`, `media_port` and
`service_shutdown`: a closed room or port, a loop that fired and a process that
ended have no step left.

**Fairness.** The Go scheduler runs every runnable goroutine, and every timer
fires: the goroutines and timers get weak fairness. The ringing goroutine's
`select` gets strong fairness for its stop case, because Go chooses among ready
cases at random. Nothing is assumed of callers, peers, rooms or requests.
`CallEnds` excepts the pin prompt, which the code does not bound. In
`Transfer`, `close()` is fair only once the call's context is cancelled, which
is what `inbound_liveness` establishes of it. In `OutboundCall` the ringing
timeout, the maximal call duration, the transaction and REFER timers and the
watcher's grace period are fair, and so is every goroutine that waits for a free
lock; the callee, the room and the RPCs are not. In `MediaPort` the goroutines
and the context's deadline are fair, `discardLoop` once it is told to stop;
nothing forces a call to close its port, and no packet has to come. `DrainPort`
is fair because its duration is capped; a configuration that switches the cap
off (`config.go:223`) makes the release of the socket depend on the peer.
In `ServiceShutdown` only `Stop` and `Run` are fair: no signal has to come and
no call has to end. `room_safety`, `media_timeout` and `auth_safety` state no
liveness and assume no fairness; `ChallengeSettled` says as an invariant what
must have been reported when handlers and timers of a Call-ID are through.

## Proofs

TLAPS checks the modules `*Steps` and `*Proofs`. Every theorem holds for all
values of the constants, under the assumptions that the modules state for them
(`ASSUME`, evaluated by TLC in every run): bounds are natural numbers, queue
sizes, handshake flights and default timeouts are positive, sets of
configurations, events, replies, statuses and requests range over the values
the code knows, and the calls of the process are a finite set. The tracks of a
room are any set.

| Specification | Invariance | Safety theorems |
|---|---|---|
| `InboundCall` | `Invariance` | `TypeCorrect`, `OneFinalHolds`, `OneTerminationHolds`, `NoUnexplainedEndHolds`, `AnsweredEndsWithByeHolds`, `ReleasedByHandlerHolds`, `NoRingingAfterFinalHolds`; refinement `DialogRefined` |
| `InviteAuth` | `AuthInvariance` | `AdmittedAnsweredChallengeHolds`, `FinalizedOnceHolds`, `TableSoundHolds`, `ChallengeSettledHolds` |
| `Transfer` | `TransferInvariance` | `SameOutcomeHolds`, `OneReceiverHolds`, `SuccessWasNotifiedHolds`, `AudioRestoredHolds`, `ResultWinsHolds` |
| `OutboundCall` | `OutboundInvariance` | `LocksHeldHolds`, `AnsweredIsHungUpHolds`, `ReleasedOnceHolds`, `NoRedialHolds`, `EndReportedHolds`; refinement `UACRefined` |
| `Room` | `RoomInvariance` | `NoEarlyAudioHolds`, `NoTrackMissedHolds`, `ParticipantCurrentHolds`, `SessionLeftHolds` |
| `MediaPort` | `PortInvariance` | `OneReaderHolds` |
| `MediaTimeout` | `TimeoutInvariance` | `PromptTimeoutHolds`, `NoEarlyTimeoutHolds` |
| `ServiceShutdown` | `ShutdownInvariance` | `CountedCallsFinishHolds` |

A theorem `XHolds` states the property `X` that a run checks (`OneFinal` and
`OneTermination` follow from the `IInv` that `inbound_safety` checks). Each
specification has its own inductive invariant (`IInv`; `PortInv`, `TimeoutInv`
and `ShutdownInv` in the last three), which TLC accepts when it is added as an
`INVARIANT` to the run of that specification; `inbound_safety` always checks
it.

**Inbound call.** `OneFinal` is not inductive: that no second response is sent
depends on who holds `c.mu` and on where the handler is. `IInv` adds, in named
parts:

- `LegInv`: a dropped leg has neither transaction nor dialog, and a
  transaction that carried a final response is dead or under `Accept`'s lock,
  so whoever else finds `inviteTx` set may respond;
- `LockInv`: the lock is held exactly by `Accept` and by a BYE under way, and
  `Accept` waits only after its 200 went out;
- `AnswerInv`: where the handler can be after the answer, and that an answered
  leg without BYE is kept;
- `CloseInv`: `close()` belongs to the one that won `c.done`, and no return of
  the handler precedes a `close()`;
- `ReleaseInv`: what the handler's `close()` has given back so far.

`DialogRefined` shows that every step is a step or a stutter of `UASDialog`
under the mapping `Abstract`, and `NoRingingAfterFinalHolds` that no 180
follows a final response.

**Admission.** `IInv` is `TableSound` with three parts. `InviteInv` says where
a handler can be, which entry it holds and whose credentials it has checked.
`NonceInv` says that the nonce of an entry was sent to an INVITE of its
Call-ID; it speaks of all entries ever allocated, because a handler may hold
one that was evicted. `SettleInv` says that `authResolved` is set only with a
handler behind it that will finalize its state, or has, and that every entry
that was taken has such a handler or a timer. That is why the overwritten
`Store(true)` loses no report altogether. The lemma `GetInvite` states what the
lookup does with a sound table, the eviction included.

**Transfers.** `WorkerInv` ties the place of each worker to its outcome and to
the requests that share it, `RequestInv` says what a waiting request will read,
`NotifyInv` that a NOTIFY handler parks only when no transfer is there to take
its result, and `AudioInv` that the writer is in the room, with the transfer
that took it, or gone with one that succeeded. `ResultWins` is an action
property and follows from `NotifyInv` step by step.

**Outbound call.** `LocksHeld` and the others need to know what the
goroutines have seen of one another. `IInv` has:

- `LockInv` and `PcInv`: who may hold the locks, run `close()` and read the
  transaction, and where each goroutine can be;
- `OnceInv`: the body of `stopped.Once` runs for a call that others can see or
  that `newCall` gives up; before that the call is `Private`, and after it
  everything is released;
- `ReportInv`: an error invites another try only if no INVITE was sent, and
  `ensureClosed` has written the last status or `newCall` returned the error;
- `LegInv`: which responses, acknowledgements and BYEs go with which place of
  the dialling goroutine and of the watcher;
- `HangUpInv`: a callee that is up has its answer still to be read, or the
  watcher or `close()` has its BYE to send.

A step lemma states a step by what it reads and assigns, without the action, so
that one lemma serves all actions that take the step (`DialMoves` serves most steps of the dialling goroutine);
`OutboundCallProofs` has one lemma per action. `Verdict` and `AfterInviteIs`
say what `classifyInviteError` and `afterInvite` return for every error.
`UACRefined` shows that every step of the call is a step or a stutter of
`UACDialog`: of the INVITE's final response, the ACK, the watcher, the callee's
BYE and the two places that send one, each is a lemma, and all other steps
leave the dialog alone (`CallOnly`, `DialogKept`).

**Room.** None of the four properties is inductive, since each speaks of
states in which everybody is through. `IInv` says what is still to come:

- `TrackInv`: an audio track of an open room is requested already, or
  `Pending`: its own callback, the list `Subscribe` goes through, the goroutine
  of the current session, or a recovery that will start one has it to do.
  Publishing and setting the flag in either order leaves one of the first two;
- `SessionInv`: a reconnect has a SID larger than the one `onReconnecting`
  kept, which is why `onReconnected` takes no replaced session for a resumed one;
- `CloseInv`: one caller of `CloseWithReason` takes the handle away and leaves
  the session with it, unless `Connect` has still to store it;
- `OpenInv`: nothing is subscribed, and no callback or goroutine is about to,
  before `Subscribe` has set the flag in a room that is ready;
- `PidInv`: the cached participant is current until a recovery that has still
  to refresh it.

Each part has a frame lemma with the variables it reads, and each goroutine a
step lemma with a case for every action.

**Media port.** `OneReader` needs `ReaderInv`: whoever is past
`stopDiscarding`, in `SetConfig` or in `Close`, has seen the end of
`discardLoop`; a socket that is drained belongs to a closed `udpConn`; and a
`readLoop` that has taken a packet from `DrainPort` is not in a read. The lemma
`TakesOne` draws the last conclusion from it: the packet ended the read, and the
next call of `Read` is refused. `DtlsInv` bounds the flights of the handshake
and says that there is no `readLoop` before the session.

**Media timeout.** `TimeoutInv` has `PassInv`, that what a pass of the loop has
read is current unless the timeout was armed during the pass, and then a kick is
there or will be; and `SleepInv`, that the loop sleeps neither beyond the
deadline nor longer than the general timeout. The second half is the cap in
`timeoutLoop`: without it a packet that comes during the sleep would move the
deadline before the waking.

**Shutdown.** `ShutdownInv` says that the loop is left by SIGINT or with both tables
counted empty, and that nothing is closed before that. `EmptyTable` is the
fact about cardinalities it needs.

Only model-checked:

- all liveness (`inbound_liveness`, `transfer_liveness`, `outbound_liveness`,
  `CloseReturns`, `SessionReleased`, `RunReturns`): fairness and ENABLED are out
  of the prover's reach;
- `ShutdownReleases`, which does not hold, and the formulas of the table of
  deviations.

## Not modelled

- Wording, headers, SDP contents, attributes, metrics, logs and traces.
- `processInvite` on requests that cannot be parsed, which change no state, and
  its re-INVITE branch for outbound calls. The rejection cache is taken to be
  enabled, its default.
- The branch of `pinPrompt` for a closed DTMF channel: nothing closes it.
- In `InboundCall`, events that arrive after the handler's last `select`, which
  nobody reads.
- Of the outbound call: keep-alive re-INVITEs, DTMF to dial, the dial tone, and
  the NOTIFY handlers of its transfers, which `Transfer` models for inbound
  calls; there the wait for the result has an outcome of its own.
  Nor a 2xx other than 200, which `Invite` takes for a refusal and neither
  acknowledges nor hangs up (`outbound.go:1016`); the models answer with 200.
- The refusal of a transfer by `validateCallProvider`, which changes no state.
- Of the media timeout, the error counts of the single streams: they are one.
- Of the room: data messages, DTMF and the mixer's samples. Of the media port:
  packet statistics, codecs, SDP. Of DTLS: cryptography and the accept side of
  the queues.
- The silence filler: sequential arithmetic on packet headers with no state
  shared between goroutines, covered by unit tests.
- Configuration, start-up, listeners, RPC plumbing and the test clients.
- Everything `PROJECT.json` lists as `not_modelled` or `partly`.

## Plan

1. The composition of `Room` with `InboundCall` and `OutboundCall`, in place of
   the four states of a room that they know.
2. The NOTIFY handlers of an outbound call, with `Transfer` over either leg.
