---------------------------- MODULE OutboundCall ----------------------------
(***************************************************************************)
(* One outbound call: createSIPParticipant of pkg/sip/client.go and        *)
(* outboundCall of pkg/sip/outbound.go, with Client.Stop, the EndCall RPC, *)
(* the BYE handler and a transfer running beside the dialling goroutine.   *)
(* Each of them may run close(), one at a time because all but newCall     *)
(* hold c.mu for it; stopped.Once lets only the first do the work.         *)
(*                                                                         *)
(* A select is one action per case.  The ringing timeout, the maximal call *)
(* duration, the retry and transaction timers always fire in the end; the  *)
(* media timeout is an event of the environment.                           *)
(***************************************************************************)
EXTENDS OutboundCallState

Init ==
  /\ SipInit
  /\ \E R \in Requests :
       pc = [p \in Actors |-> CASE p = "dial" -> "request"
                                [] p \in R \cup {"bye"} -> "idle"
                                [] OTHER -> "done"]
  /\ mu = "free"
  /\ wait \in BOOLEAN
  /\ ret = "none" /\ retry = FALSE /\ invited = FALSE
  /\ ctx = FALSE /\ canceller = FALSE
  /\ media = "none" /\ room = "none" /\ rpc = FALSE /\ topic = FALSE
  /\ active = FALSE /\ target = FALSE
  /\ once = "none" /\ stopped = FALSE /\ early = FALSE /\ unlisted = FALSE
  /\ terms = 0 /\ sessionEnds = 0
  /\ started = FALSE /\ infoError = FALSE /\ status = "none" /\ ended = FALSE
  /\ stale = FALSE
  /\ output = FALSE /\ muted = "none"
-----------------------------------------------------------------------------
(* close(): its first run breaks stopped, the others do nothing.           *)

(* What a goroutine does once close() returned and c.mu is released.       *)
AfterClose(p) == CASE p = "dial" -> "ensureClosed"
                   [] p = "stop" -> "closeClient"
                   [] OTHER -> "done"

(* An error is kept in the call state unless there is one already.         *)
setErrStatus(err) ==
  /\ infoError' = (infoError \/ err)
  /\ status' = IF err /\ ~infoError THEN "error" ELSE status

(* The body of stopped.Once up to stopSIP.  report: end.Report is set.     *)
(* unlisted: a goroutine got here before newCall registered the call.      *)
close(p, report) ==
  /\ once' = p
  /\ terms' = terms + 1
  /\ setErrStatus(report)
  /\ unlisted' = (p # "dial" /\ At("dial", "register"))
  /\ Goto(p, "hangup")
  /\ UNCHANGED <<stopped, early, sessionEnds, ended, stale>>

(* Mutant of CloseWith: c.mu is not locked.                                *)
CloseWith_NoLock(p) ==
  /\ At(p, "lock")
  /\ IF once = "none"
     THEN mu' = p /\ close(p, FALSE)
     ELSE Goto(p, AfterClose(p)) /\ UNCHANGED <<mu, closeVars, stateVars>>
  /\ UNCHANGED <<sipVars, requestVars, dialVars, linkVars, tableVars>>

(* Close, CloseWith and closeWithTimeout: c.mu, then close().              *)
CloseWith(p) ==
  /\ At(p, "lock")
  /\ mu = "free"
  /\ IF once = "none"
     THEN mu' = p /\ close(p, FALSE)
     ELSE Goto(p, AfterClose(p)) /\ UNCHANGED <<mu, closeVars, stateVars>>
  /\ UNCHANGED <<sipVars, requestVars, dialVars, linkVars, tableVars>>

(* The fuse breaks before, during or after the body: the model leaves the  *)
(* point open.                                                             *)
StoppedBreaks ==
  /\ once # "none" /\ ~stopped
  /\ stopped' = TRUE
  /\ UNCHANGED <<sipVars, pc, mu, requestVars, dialVars, linkVars, tableVars,
                 once, early, unlisted, terms, sessionEnds, stateVars>>

(* stopSIP: BYE before the media and the room are closed.                  *)
stopSIP(p) ==
  /\ At(p, "hangup")
  /\ ccClose(p)
  /\ Goto(p, IF ByeWaits THEN "byeWait" ELSE "release")
  /\ UNCHANGED <<mu, requestVars, dialVars, linkVars, tableVars, closeVars,
                 stateVars>>

stopSIPAnswered(p) ==
  /\ At(p, "byeWait")
  /\ ByeAnswered(p)
  /\ Goto(p, "release")
  /\ UNCHANGED <<mu, requestVars, dialVars, linkVars, tableVars, closeVars,
                 stateVars>>

(* Mutant of closeRelease: the call stays in activeCalls.                  *)
closeRelease_StaysActive(p) ==
  /\ At(p, "release")
  /\ media' = IF media = "none" THEN "none" ELSE "closed"
  /\ room' = IF room = "none" THEN "none" ELSE "left"
  /\ output' = FALSE
  /\ rpc' = FALSE
  /\ topic' = FALSE
  /\ sessionEnds' = sessionEnds + 1
  /\ stopped' = TRUE
  /\ mu' = IF mu = p THEN "free" ELSE mu
  /\ IF p = "dial" /\ mu # p
     THEN Goto(p, "done") /\ ret' = "error" /\ retry' = TRUE
     ELSE Goto(p, AfterClose(p)) /\ UNCHANGED <<ret, retry>>
  /\ UNCHANGED <<sipVars, wait, invited, dialVars, muted, active, target, once,
                 early, unlisted, terms, stateVars>>

(* The rest of the body and the release of c.mu.  newCall runs close()     *)
(* without the lock and returns its error.                                 *)
closeRelease(p) ==
  /\ At(p, "release")
  /\ media' = IF media = "none" THEN "none" ELSE "closed"
  /\ room' = IF room = "none" THEN "none" ELSE "left"
  /\ output' = FALSE
  /\ rpc' = FALSE
  /\ active' = FALSE
  /\ topic' = FALSE
  /\ sessionEnds' = sessionEnds + 1
  /\ stopped' = TRUE
  /\ mu' = IF mu = p THEN "free" ELSE mu
  /\ IF p = "dial" /\ mu # p
     THEN Goto(p, "done") /\ ret' = "error" /\ retry' = TRUE
     ELSE Goto(p, AfterClose(p)) /\ UNCHANGED <<ret, retry>>
  /\ UNCHANGED <<sipVars, wait, invited, dialVars, muted, target, once, early,
                 unlisted, terms, stateVars>>

Closer(p) ==
  \/ CloseWith(p)
  \/ stopSIP(p)
  \/ stopSIPAnswered(p)
  \/ closeRelease(p)
-----------------------------------------------------------------------------
(* createSIPParticipant and newCall.                                       *)

(* Unhealthy, or a bad request: refused before there is a call state.      *)
createRefused ==
  /\ At("dial", "request")
  /\ Goto("dial", "done")
  /\ ret' = "done"
  /\ UNCHANGED <<sipVars, mu, wait, retry, invited, dialVars, linkVars,
                 tableVars, closeVars, stateVars>>

createSIPParticipant ==
  /\ At("dial", "request")
  /\ Goto("dial", "media")
  /\ UNCHANGED <<sipVars, mu, requestVars, dialVars, linkVars, tableVars,
                 closeVars, stateVars>>

(* NewMediaPort, then connectToRoom.  A failure closes the call with a     *)
(* report, without c.mu.                                                   *)
newCallMedia ==
  /\ At("dial", "media")
  /\ \/ /\ media' = "open"
        /\ Goto("dial", "join")
        /\ UNCHANGED <<closeVars, stateVars>>
     \/ /\ close("dial", TRUE)
        /\ UNCHANGED media
  /\ UNCHANGED <<sipVars, mu, requestVars, dialVars, room, rpc, output, muted,
                 tableVars>>

(* lkRoom stays nil when Connect or NewParticipantTrack fails, and is set  *)
(* when only the registration of an RPC fails.                             *)
connectToRoom ==
  /\ At("dial", "join")
  /\ topic' = TRUE
  /\ \/ /\ room' = "joined" /\ rpc' = TRUE
        /\ Goto("dial", "register")
        /\ UNCHANGED <<closeVars, stateVars>>
     \/ /\ room' \in {"none", "joined"} /\ UNCHANGED rpc
        /\ close("dial", TRUE)
  /\ UNCHANGED <<sipVars, mu, requestVars, dialVars, media, output, muted,
                 active, target>>

newCallRegister ==
  /\ At("dial", "register")
  /\ active' = TRUE
  /\ Goto("dial", "created")
  /\ UNCHANGED <<sipVars, mu, requestVars, dialVars, linkVars, topic, target,
                 closeVars, stateVars>>

(* call.Participant() needs c.mu for reading.                              *)
startDial ==
  /\ At("dial", "created")
  /\ mu = "free"
  /\ wait
  /\ Goto("dial", "dial")
  /\ UNCHANGED <<sipVars, mu, requestVars, dialVars, linkVars, tableVars,
                 closeVars, stateVars>>

(* Without WaitUntilAnswered the dialling goes on in a goroutine and the   *)
(* request returns.                                                        *)
DialAsync ==
  /\ At("dial", "created")
  /\ mu = "free"
  /\ ~wait
  /\ Goto("dial", "dial")
  /\ ret' = "joined"
  /\ UNCHANGED <<sipVars, mu, wait, retry, invited, dialVars, linkVars,
                 tableVars, closeVars, stateVars>>

(* The deferred update of createSIPParticipant.                            *)
createReturns ==
  /\ ret \in {"joined", "error"}
  /\ ret' = "done"
  /\ status' = ret
  /\ infoError' = (infoError \/ ret = "error")
  /\ stale' = (ended /\ ret = "joined")
  /\ UNCHANGED <<sipVars, pc, mu, wait, retry, invited, dialVars, linkVars,
                 tableVars, closeVars, ended>>
-----------------------------------------------------------------------------
(* Dial: connectSIP holds c.mu until the call is up or closed.             *)

connectSIP ==
  /\ At("dial", "dial")
  /\ mu = "free"
  /\ mu' = "dial"
  /\ canceller' = TRUE
  /\ early' = (once # "none")
  /\ Goto("dial", "offer")
  /\ UNCHANGED <<sipVars, requestVars, ctx, started, linkVars, tableVars,
                 once, stopped, unlisted, terms, sessionEnds, stateVars>>

(* sipSignal: the offer, then the INVITE is counted as sent.               *)
sipSignal ==
  /\ At("dial", "offer")
  /\ \/ Goto("dial", "invite") /\ invited' = TRUE
     \/ Goto("dial", "fail") /\ UNCHANGED invited
  /\ UNCHANGED <<sipVars, mu, wait, ret, retry, dialVars, linkVars, tableVars,
                 closeVars, stateVars>>

(* The context of sipSignal ends: the ringing timeout, or the goroutine    *)
(* that watches the room and the call.                                     *)
ringingTimeout ==
  /\ canceller /\ ~ctx
  /\ ctx' = TRUE
  /\ UNCHANGED <<sipVars, pc, mu, requestVars, canceller, started, linkVars,
                 tableVars, closeVars, stateVars>>

cancelDial ==
  /\ canceller /\ ~ctx
  /\ room # "joined" \/ stopped
  /\ ctx' = TRUE
  /\ UNCHANGED <<sipVars, pc, mu, requestVars, canceller, started, linkVars,
                 tableVars, closeVars, stateVars>>

Invite ==
  /\ At("dial", "invite")
  /\ \/ attemptInvite /\ Goto("dial", "await")
     \/ attemptFails /\ Goto("dial", "inviteErr")
  /\ UNCHANGED dialRest

(* sipResponse, one action per case of its select.                         *)
InviteCancelled ==
  /\ At("dial", "await")
  /\ responseCancelled(ctx)
  /\ Goto("dial", "inviteErr")
  /\ UNCHANGED dialRest

InviteTimedOut ==
  /\ At("dial", "await")
  /\ responseTimedOut(ctx)
  /\ Goto("dial", "inviteErr")
  /\ UNCHANGED dialRest

InviteProvisional ==
  /\ At("dial", "await")
  /\ responseProvisional
  /\ UNCHANGED <<pc, dialRest>>

InviteAnswered ==
  /\ At("dial", "await")
  /\ responseFinal("200", FALSE)
  /\ Goto("dial", "answer")
  /\ UNCHANGED dialRest

(* A refusal, an answer without a tag, a challenge that cannot be met.     *)
InviteFailed ==
  /\ At("dial", "await")
  /\ \E r \in {"refusal", "bad200", "401"} : responseFinal(r, FALSE)
  /\ Goto("dial", "inviteErr")
  /\ UNCHANGED dialRest

InviteChallenged ==
  /\ At("dial", "await")
  /\ responseFinal("401", TRUE)
  /\ Goto("dial", "invite")
  /\ UNCHANGED dialRest

(* sipSignal closes the dialog itself when Invite failed.                  *)
InviteErrClose ==
  /\ At("dial", "inviteErr")
  /\ ccClose("dial")
  /\ Goto("dial", IF ByeWaits THEN "errWait" ELSE "fail")
  /\ UNCHANGED dialRest

InviteErrClosed ==
  /\ At("dial", "errWait")
  /\ ByeAnswered("dial")
  /\ Goto("dial", "fail")
  /\ UNCHANGED dialRest

(* SetAnswer and SetConfig; a closed media port accepts no configuration.  *)
setAnswer ==
  /\ At("dial", "answer")
  /\ \/ media = "open" /\ Goto("dial", "ack")
     \/ Goto("dial", "fail")
  /\ UNCHANGED <<sipVars, dialRest>>

ackAnswer ==
  /\ At("dial", "ack")
  /\ \/ AckInviteOK /\ Goto("dial", "acked")
     \/ ccmu = "free" /\ UNCHANGED sipVars /\ Goto("dial", "fail")
  /\ UNCHANGED dialRest

(* Aborted while the callee answered, or the initial DTMF failed.          *)
answerAborted ==
  /\ At("dial", "acked")
  /\ Goto("dial", "fail")
  /\ UNCHANGED <<sipVars, dialRest>>

(* The rest of dialSIP and connectSIP: connectMedia, started, Subscribe.   *)
callEstablished ==
  /\ At("dial", "acked")
  /\ ~ctx
  /\ canceller' = FALSE
  /\ started' = TRUE
  /\ output' = TRUE
  /\ mu' = "free"
  /\ Goto("dial", "active")
  /\ UNCHANGED <<sipVars, requestVars, ctx, media, room, rpc, muted, tableVars,
                 closeVars, stateVars>>

(* Errors that describe their own verdict: whose failure it is, whether it *)
(* becomes info.Error, and whether the error returned invites the caller   *)
(* to try again.                                                           *)
SelfClassifying == {"SDPError", "noResponse", "noFinalResponse",
                    "carrierBlocked"}
ClassifyInvite(e) ==
  [result |-> IF e = "noResponse" THEN "indeterminate" ELSE "client",
   report |-> TRUE,
   retry |-> FALSE]

(* What dialSIP fails with.  Before the INVITE that is the offer.          *)
InviteErrors ==
  IF ~invited THEN {"offer"}
  ELSE SelfClassifying
       \cup {"status4xx", "status5xx", "rateLimited", "status6xx",
             "SIPRequestTimeout", "DeadlineExceeded", "Canceled", "AddrError",
             "DNSError", "OpError", "auth", "other"}

(* The verdict of any error; only those of the server invite a retry.      *)
(* External: which codes the caller retries; afterInvite says of the other *)
(* results that they "already map to non-retryable codes".                 *)
classifyInviteError(e) ==
  LET result ==
        CASE e \in {"offer", "DeadlineExceeded", "OpError", "other"} -> "server"
          [] e = "status5xx" -> "upstream"
          [] OTHER -> "client"
  IN  IF e \in SelfClassifying THEN ClassifyInvite(e)
      ELSE [result |-> result,
            report |-> e \notin {"status4xx", "status6xx",
                                 "SIPRequestTimeout", "Canceled"},
            retry |-> result = "server"]

afterInvite(f) == [f EXCEPT !.retry = @ /\ f.result # "server"]

(* Mutant of dialFailed: the error is not passed to afterInvite.           *)
dialFailed_Retries ==
  /\ At("dial", "fail")
  /\ canceller' = FALSE
  /\ \E e \in InviteErrors :
       LET res == classifyInviteError(e)
       IN  /\ retry' = res.retry
           /\ IF once = "none"
              THEN close("dial", res.report) /\ UNCHANGED mu
              ELSE /\ Goto("dial", "ensureClosed")
                   /\ mu' = "free"
                   /\ UNCHANGED <<closeVars, stateVars>>
  /\ UNCHANGED <<sipVars, wait, ret, invited, ctx, started, linkVars,
                 tableVars>>

(* connectSIP failed.                                                      *)
dialFailed ==
  /\ At("dial", "fail")
  /\ canceller' = FALSE
  /\ \E e \in InviteErrors :
       LET f == classifyInviteError(e)
           res == IF invited THEN afterInvite(f) ELSE f
       IN  /\ retry' = res.retry
           /\ IF once = "none"
              THEN close("dial", res.report) /\ UNCHANGED mu
              ELSE /\ Goto("dial", "ensureClosed")
                   /\ mu' = "free"
                   /\ UNCHANGED <<closeVars, stateVars>>
  /\ UNCHANGED <<sipVars, wait, ret, invited, ctx, started, linkVars,
                 tableVars>>

dialSucceeded ==
  /\ At("dial", "active")
  /\ status' = IF room = "left" THEN status ELSE "active"
  /\ ret' = IF wait THEN "joined" ELSE ret
  /\ Goto("dial", "wait")
  /\ UNCHANGED <<sipVars, mu, wait, retry, invited, dialVars, linkVars,
                 tableVars, closeVars, infoError, ended, stale>>

(* waitClose: the room ended, or the maximal duration of the call passed.  *)
waitEnds ==
  /\ At("dial", "wait")
  /\ Goto("dial", "lock")
  /\ UNCHANGED <<sipVars, dialRest>>

waitMediaTimeout ==
  /\ "mediaTimeout" \in Events
  /\ At("dial", "wait")
  /\ media = "open"
  /\ Goto("dial", "timeout")
  /\ UNCHANGED <<sipVars, dialRest>>

(* closeWithTimeout, and setErrStatus if somebody else closed the call.    *)
closeWithTimeout ==
  /\ At("dial", "timeout")
  /\ mu = "free"
  /\ IF once = "none"
     THEN mu' = "dial" /\ close("dial", TRUE)
     ELSE /\ Goto("dial", "ensureClosed")
          /\ setErrStatus(TRUE)
          /\ UNCHANGED <<mu, closeVars, ended, stale>>
  /\ UNCHANGED <<sipVars, requestVars, dialVars, linkVars, tableVars>>

waitClosed ==
  /\ At("dial", "wait")
  /\ stopped
  /\ Goto("dial", "ensureClosed")
  /\ UNCHANGED <<sipVars, dialRest>>

(* Mutant of ensureClosed: the status is written for errors only.          *)
ensureClosed_ErrorsOnly ==
  /\ At("dial", "ensureClosed")
  /\ status' = IF infoError THEN "error" ELSE status
  /\ ended' = TRUE
  /\ ret' = IF wait /\ ret = "none" THEN "error" ELSE ret
  /\ Goto("dial", "done")
  /\ UNCHANGED <<sipVars, mu, wait, retry, invited, dialVars, linkVars,
                 tableVars, closeVars, infoError, stale>>

(* Dial also runs it when connectSIP failed, and then returns the error.   *)
ensureClosed ==
  /\ At("dial", "ensureClosed")
  /\ status' = IF infoError THEN "error" ELSE "disconnected"
  /\ ended' = TRUE
  /\ ret' = IF wait /\ ret = "none" THEN "error" ELSE ret
  /\ Goto("dial", "done")
  /\ UNCHANGED <<sipVars, mu, wait, retry, invited, dialVars, linkVars,
                 tableVars, closeVars, infoError, stale>>
-----------------------------------------------------------------------------
(* The room, and the EndCall RPC of its participants.                      *)

RoomDisconnects ==
  /\ "roomEnds" \in Events
  /\ room = "joined"
  /\ room' = "stopped"
  /\ rpc' = FALSE
  /\ UNCHANGED <<sipVars, pc, mu, requestVars, dialVars, media, output, muted,
                 tableVars, closeVars, stateVars>>

EndCall ==
  /\ At("rpc", "idle")
  /\ rpc
  /\ Goto("rpc", "lock")
  /\ UNCHANGED <<sipVars, dialRest>>

(* Client.Stop                                                             *)
StopBegins ==
  /\ At("stop", "idle")
  /\ closing' = TRUE
  /\ Goto("stop", "snapshot")
  /\ UNCHANGED <<ccmu, inviteOk, malformed, tries, tx, resp, watcher, peer,
                 acks, byes, byeRcvd, byeIn, expired, missed, cliClosed,
                 dialRest>>

StopSnapshot ==
  /\ At("stop", "snapshot")
  /\ target' = active
  /\ active' = FALSE
  /\ Goto("stop", IF active THEN "lock" ELSE "closeClient")
  /\ UNCHANGED <<sipVars, mu, requestVars, dialVars, linkVars, topic,
                 closeVars, stateVars>>

StopClosesClient ==
  /\ At("stop", "closeClient")
  /\ cliClosed' = TRUE
  /\ Goto("stop", "done")
  /\ UNCHANGED <<ccmu, inviteOk, malformed, tries, tx, resp, watcher, peer,
                 acks, byes, byeRcvd, byeIn, expired, missed, closing,
                 dialRest>>

(* onBye: a BYE for a call that is not in activeCalls is not ours.         *)
onBye ==
  /\ byeIn
  /\ byeIn' = FALSE
  /\ Goto("bye", IF active THEN "accept" ELSE "done")
  /\ UNCHANGED <<ccmu, inviteOk, malformed, tries, tx, resp, watcher, peer,
                 acks, byes, byeRcvd, expired, missed, closing, cliClosed,
                 dialRest>>

onByeAccept ==
  /\ At("bye", "accept")
  /\ AcceptBye
  /\ Goto("bye", "lock")
  /\ UNCHANGED dialRest
-----------------------------------------------------------------------------
(* transferCall: a transfer request of the call's RPC topic.               *)

transferCall ==
  /\ At("xfer", "idle")
  /\ topic
  /\ \/ started /\ ~stopped /\ Goto("xfer", "swap")
     \/ Goto("xfer", "refer")
  /\ UNCHANGED <<sipVars, dialRest>>

(* With a dial tone the room's audio is taken from the SIP leg first.      *)
transferMute ==
  /\ At("xfer", "swap")
  /\ muted' = IF output THEN "writer" ELSE "nil"
  /\ output' = FALSE
  /\ Goto("xfer", "refer")
  /\ UNCHANGED <<sipVars, mu, requestVars, dialVars, media, room, rpc,
                 tableVars, closeVars, stateVars>>

(* REFER needs an established call and a client that is not stopping.      *)
transferRefer ==
  /\ At("xfer", "refer")
  /\ ccmu = "free"
  /\ Goto("xfer", IF inviteOk /\ ~closing THEN "referWait" ELSE "restore")
  /\ UNCHANGED <<sipVars, dialRest>>

(* The transfer failed, timed out, or the call or the client is closing.   *)
transferFailed ==
  /\ At("xfer", "referWait")
  /\ Goto("xfer", "restore")
  /\ UNCHANGED <<sipVars, dialRest>>

(* The deferred function puts the writer back, unless the call stopped;    *)
(* then it closes it, and there may be none to close.                      *)
transferRestore ==
  /\ At("xfer", "restore")
  /\ IF muted # "none" /\ ~stopped
     THEN output' = (muted = "writer") /\ Goto("xfer", "done")
     ELSE Goto("xfer", IF muted = "nil" THEN "panic" ELSE "done")
          /\ UNCHANGED output
  /\ UNCHANGED <<sipVars, mu, requestVars, dialVars, media, room, rpc, muted,
                 tableVars, closeVars, stateVars>>

(* Success: a timer gives the callee a moment to hang up first.            *)
transferDone ==
  /\ At("xfer", "referWait")
  /\ Goto("xfer", IF muted = "nil" THEN "panic" ELSE "byeTimer")
  /\ UNCHANGED <<sipVars, dialRest>>

transferCloses ==
  /\ At("xfer", "byeTimer")
  /\ Goto("xfer", "lock")
  /\ UNCHANGED <<sipVars, dialRest>>
-----------------------------------------------------------------------------
Dialer ==
  \/ createSIPParticipant \/ newCallMedia \/ connectToRoom \/ newCallRegister
  \/ startDial \/ DialAsync \/ connectSIP \/ sipSignal \/ Invite
  \/ InviteCancelled \/ InviteTimedOut \/ InviteAnswered \/ InviteFailed
  \/ InviteChallenged \/ InviteErrClose \/ InviteErrClosed
  \/ setAnswer \/ ackAnswer \/ answerAborted \/ callEstablished
  \/ dialFailed \/ dialSucceeded
  \/ waitEnds \/ waitClosed \/ closeWithTimeout \/ ensureClosed

Stopper == StopSnapshot \/ StopClosesClient

Transferrer ==
  transferMute \/ transferRefer \/ transferFailed \/ transferRestore
  \/ transferDone \/ transferCloses

Idle == {"idle", "done", "panic"}
(* Every goroutine of the call has returned.                               *)
Over ==
  /\ \A p \in Actors : pc[p] \in Idle
  /\ watcher \in {"none", "done"}
  /\ ret = "done"
  /\ ~byeIn

(* Nothing more happens once the call is over and the callee is silent.    *)
Rest ==
  /\ Over
  /\ peer \notin {"called"} \cup PeerUp
  /\ UNCHANGED vars

Next ==
  \/ createRefused \/ createReturns \/ InviteProvisional
  \/ Dialer
  \/ waitMediaTimeout
  \/ ringingTimeout \/ cancelDial
  \/ (Watcher \/ Environment) /\ UNCHANGED callVars
  \/ \E p \in Actors : Closer(p)
  \/ StoppedBreaks
  \/ RoomDisconnects \/ EndCall
  \/ StopBegins \/ Stopper
  \/ onBye \/ onByeAccept
  \/ transferCall \/ Transferrer
  \/ Rest

Spec == Init /\ [][Next]_vars

(* Every goroutine runs, a free lock is taken in the end, and the timers   *)
(* fire: ringing, call duration, transaction and REFER timeouts, the grace *)
(* period.  Nothing is assumed of the callee, the room or the RPCs.        *)
Fairness ==
  /\ WF_vars(Dialer)
  /\ WF_vars(ringingTimeout)
  /\ WF_vars(createReturns)
  /\ WF_vars((WatchAnswer \/ WatchBye \/ WatchEnds) /\ UNCHANGED callVars)
  /\ \A p \in Actors : WF_vars(Closer(p))
  /\ WF_vars(Stopper)
  /\ WF_vars(onBye)
  /\ WF_vars(onByeAccept)
  /\ WF_vars(Transferrer)

FairSpec == Spec /\ Fairness
-----------------------------------------------------------------------------
(* Properties                                                              *)

(* c.mu and cc.mu are held by the goroutine whose code is between Lock and *)
(* Unlock, a call has one closer at work at most, and the SIP leg has a    *)
(* live transaction only while somebody reads its responses.               *)
LocksHeld == TypeOK /\ LockInv

(* Once every goroutine of the call returned, a callee that answered has   *)
(* been hung up on or has hung up itself (watchCancelledInvite: "so the    *)
(* answered call is not orphaned").  Except: the answer came when nobody   *)
(* read the transaction any more, the client was already closed, or the    *)
(* call had been closed before it was dialled, when close() does nothing.  *)
AnsweredIsHungUp ==
  Over /\ peer \in PeerUp => missed \/ early

(* However a created call ended, whoever closed it and wherever it was     *)
(* interrupted, exactly one termination and one session end were reported, *)
(* media, room and transfer topic are released, and the call is not in     *)
(* activeCalls, unless it was closed before newCall registered it.         *)
ReleasedOnce ==
  Over /\ status # "none" =>
    /\ terms = 1 /\ sessionEnds = 1
    /\ media # "open"
    /\ room \in {"none", "left"}
    /\ ~topic
    /\ active => unlisted

(* createSIPParticipant never invites its caller to try again once an      *)
(* INVITE may have reached the callee (afterInvite: "so a fallback-capable *)
(* SDK won't re-dial and place a duplicate call").                         *)
NoRedial == ret \in {"error", "done"} /\ retry => peer = "idle" /\ tries = 0

(* The last status reported for a call that ended is an end: error or      *)
(* disconnected.  Except: createSIPParticipant returned after the call was *)
(* over, and its deferred update wrote PARTICIPANT_JOINED over it.         *)
EndReported ==
  Over /\ status # "none" => status \in {"error", "disconnected"} \/ stale

(* The callee sees one ACK at most, only in a dialog that stands, and one  *)
(* BYE at most, whichever goroutines race to close the call.               *)
UAC == INSTANCE UACDialog WITH
  phase <- IF byes > 0 \/ byeRcvd THEN "left"
           ELSE IF inviteOk \/ acks > 0 THEN "answered" ELSE "calling",
  late <- watcher # "none" /\ acks > 0
ImplementsUAC == UAC!Dialog

(* Every call ends: the dialling goroutine returns, the watcher stops and  *)
(* both locks are free, although Dial holds c.mu while the phone rings.    *)
CallEnds ==
  <>[](At("dial", "done") /\ watcher \in {"none", "done"}
       /\ mu = "free" /\ ccmu = "free")

(* Client.Stop returns: a call that is being dialled gives up c.mu.        *)
StopReturns == At("stop", "snapshot") ~> At("stop", "done")
=============================================================================
