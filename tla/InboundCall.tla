---------------------------- MODULE InboundCall ----------------------------
(***************************************************************************)
(* One inbound call, inboundCall of pkg/sip/inbound.go, from its           *)
(* registration in Server.byLocalTag to the end of processInvite.  Four    *)
(* goroutines share it: the INVITE handler (handleInvite), the ringing     *)
(* goroutine of SipInbound, the BYE handler (onBye) and Server.Stop, which *)
(* shuts registered calls down.  The handler and Server.Stop may both run  *)
(* close(), so its steps take the closer p as a parameter.                 *)
(*                                                                         *)
(* A select is one action that takes any ready case.  Timers that always   *)
(* fire in the end (the audio bridge delay, the ringing timeout, the       *)
(* maximal call duration, the retry and transaction timers) are choices    *)
(* that are always ready; the media timeout, which media can hold off for  *)
(* ever, is an event of the environment.                                   *)
(***************************************************************************)
EXTENDS SipInbound

VARIABLES
  pc,           \* where the closers are: the handler and Server.Stop
  end,          \* the termination each closer passes to close()
  retErr,       \* the error result handleInvite is about to return
  pinPrompt,    \* the dispatch asked for a pin
  done,         \* c.done
  closer,       \* who won the compare-and-swap of c.done
  term,         \* the last termination reported to the call monitor
  terms,        \* how many were reported
  ctxDone,      \* c.ctx is cancelled
  media,        \* c.media: "none", "open" or "closed"
  timeoutOn,    \* media.EnableTimeout(true) was called
  timedOut,     \* media.Timeout() is ready
  room,         \* lkRoom: "idle", "joined", "stopped" by LiveKit, or "left"
  roomClosed,   \* the room.closed fuse
  registered,   \* the call is in Server.byLocalTag
  topic,        \* the transfer RPC topic of the call is registered
  endCall,      \* an EndCall request is in the c.endCall channel
  byeReq,       \* the BYE handler: "none", "answered", "dropped", "returned"
  infoError,    \* info.Error of the call state is set
  status,       \* info.CallStatus of the call state
  sessionEnds,  \* how often OnSessionEnd was started
  ackByTx       \* Accept took the ACK from inviteTx.Acks()

callVars == <<pc, end, retErr, pinPrompt, done, closer, term, terms, ctxDone,
              media, timeoutOn, timedOut, room, roomClosed, registered, topic,
              endCall, byeReq, infoError, status, sessionEnds, ackByTx>>
vars == <<sipVars, callVars>>

ClosePCs == {"close", "signal", "bye", "release", "unregister", "cancel"}
HandlerPCs == ClosePCs \cup
  {"ring", "dispatch", "refuse", "flood", "media", "accept", "acceptSend",
   "acceptWait", "waitMedia", "pin", "join", "connect", "publish",
   "waitSubscribe", "activate", "waitEnd", "return", "finish", "done", "panic"}
StopPCs == ClosePCs \cup {"idle", "done", "panic"}
(* Terminations no property tells apart share a name: "rejected" is a      *)
(* refusal before the media, "wrong-pin" any refusal of a pin.             *)
Terms == {"none", "rejected", "flood", "media-failed", "accept-failed",
          "no-ack", "cancelled", "hangup", "rpc", "room-closed",
          "media-timeout", "participant-failed", "publish-failed",
          "cannot-subscribe", "wrong-pin", "shutdown", "other"}

CallTypeOK ==
  /\ pc \in [Callers -> HandlerPCs \cup StopPCs]
  /\ pc["handler"] \in HandlerPCs
  /\ pc["stop"] \in StopPCs
  /\ end \in [Callers -> Terms]
  /\ retErr \in BOOLEAN
  /\ pinPrompt \in BOOLEAN
  /\ done \in BOOLEAN
  /\ closer \in Callers \cup {"none"}
  /\ term \in Terms
  /\ terms \in Nat
  /\ ctxDone \in BOOLEAN
  /\ media \in {"none", "open", "closed"}
  /\ timeoutOn \in BOOLEAN
  /\ timedOut \in BOOLEAN
  /\ room \in {"idle", "joined", "stopped", "left"}
  /\ roomClosed \in BOOLEAN
  /\ registered \in BOOLEAN
  /\ topic \in BOOLEAN
  /\ endCall \in BOOLEAN
  /\ byeReq \in {"none", "answered", "dropped", "returned"}
  /\ infoError \in BOOLEAN
  /\ status \in {"incoming", "active", "error", "disconnected"}
  /\ sessionEnds \in Nat
  /\ ackByTx \in BOOLEAN

TypeOK == SipTypeOK /\ CallTypeOK

(* newInboundCall: the call is in byLocalTag, its room object exists.      *)
Init ==
  /\ SipInit
  /\ pc = [p \in Callers |-> IF p = "handler" THEN "ring" ELSE "idle"]
  /\ end = [p \in Callers |-> IF p = "handler" THEN "none" ELSE "shutdown"]
  /\ retErr = FALSE /\ pinPrompt = FALSE
  /\ done = FALSE /\ closer = "none"
  /\ term = "none" /\ terms = 0
  /\ ctxDone = FALSE
  /\ media = "none" /\ timeoutOn = FALSE /\ timedOut = FALSE
  /\ room = "idle" /\ roomClosed = FALSE
  /\ registered = TRUE /\ topic = FALSE
  /\ endCall = FALSE
  /\ byeReq = "none"
  /\ infoError = FALSE /\ status = "incoming"
  /\ sessionEnds = 0
  /\ ackByTx = FALSE
-----------------------------------------------------------------------------
Goto(p, label) == pc' = [pc EXCEPT ![p] = label]

closeVars == <<done, closer, term, terms>>
mediaVars == <<media, timeoutOn, timedOut>>
roomVars == <<room, roomClosed>>
serverVars == <<registered, topic, sessionEnds>>
outcomeVars == <<end, retErr, infoError>>

(* The handler is about to run close() with termination t; it will then    *)
(* return an error iff err.                                                *)
EndWith(t, err) ==
  /\ Goto("handler", "close")
  /\ end' = [end EXCEPT !["handler"] = t]
  /\ retErr' = err

closeWith(t, err) == EndWith(t, err) /\ UNCHANGED infoError

(* closeWithHangup and closeWithCancelled: the Reason header of the BYE    *)
(* that ended the call, if it was not a normal one, becomes info.Error.    *)
closeWithReason(t, err) ==
  /\ EndWith(t, err)
  /\ \E abnormal \in BOOLEAN :
       infoError' = (infoError \/ (abnormal /\ byeReq = "returned"))

(* mediaTimeout: a missing ACK makes it an error of its own.               *)
mediaTimeout ==
  IF acked
    THEN EndWith("media-timeout", FALSE) /\ infoError' = TRUE
    ELSE EndWith("no-ack", TRUE) /\ UNCHANGED infoError

(* room.CloseWithReason: only the first close leaves the LiveKit session.  *)
CloseRoom ==
  /\ roomClosed' = TRUE
  /\ room' = IF ~roomClosed /\ room \in {"joined", "stopped"} THEN "left" ELSE room

RoomStopped == room \in {"stopped", "left"}

(* The context of the handler: cancelled, or, once the room was joined     *)
(* under it, past the maximal call duration.                               *)
CtxEnded == ctxDone \/ room # "idle"
-----------------------------------------------------------------------------
(* handleInvite, up to the media.                                          *)
Ring ==
  /\ pc["handler"] = "ring"
  /\ StartRinging
  /\ Goto("handler", "dispatch")
  /\ UNCHANGED <<outcomeVars, pinPrompt, closeVars, ctxDone, mediaVars,
                 roomVars, serverVars, endCall, byeReq, status, ackByTx>>

(* Another goroutine dropped the transaction before StartRinging read it:  *)
(* the nil dereference ends the process, Server.Stop included.             *)
RingPanics ==
  /\ pc["handler"] = "ring"
  /\ mu = "free"
  /\ ~inviteTx
  /\ pc' = [p \in Callers |-> "panic"]
  /\ UNCHANGED <<sipVars, outcomeVars, pinPrompt, closeVars, ctxDone,
                 mediaVars, roomVars, serverVars, endCall, byeReq, status, ackByTx>>

(* What EvaluateSIPDispatchRules may answer, "error" for a failed request; *)
(* a legacy answer may ask for a pin, too.                                 *)
DispatchReplies == {"error", "accept", "legacy", "legacyPin", "requestPin",
                    "reject", "drop", "unexpected"}

(* The DispatchResult the handler of the service makes of it.              *)
DispatchCall(reply) ==
  CASE reply = "error" -> "ServiceUnavailable"
    [] reply \in {"accept", "legacy"} -> "Accept"
    [] reply \in {"legacyPin", "requestPin"} -> "RequestPin"
    [] reply = "drop" -> "NoRuleDrop"
    [] OTHER -> "NoRuleReject"

DispatchAccept ==
  /\ pc["handler"] = "dispatch"
  /\ pinPrompt' \in BOOLEAN
  /\ \E reply \in DispatchReplies :
       DispatchCall(reply) = IF pinPrompt' THEN "RequestPin" ELSE "Accept"
  /\ Goto("handler", "media")
  /\ UNCHANGED <<sipVars, outcomeVars, closeVars, ctxDone, mediaVars, roomVars,
                 serverVars, endCall, byeReq, status, ackByTx>>

(* No rule, no service, a bad media configuration or an unknown result.    *)
DispatchReject ==
  /\ pc["handler"] = "dispatch"
  /\ end' = [end EXCEPT !["handler"] = "rejected"]
  /\ retErr' = TRUE
  /\ Goto("handler", "refuse")
  /\ UNCHANGED <<sipVars, infoError, pinPrompt, closeVars, ctxDone, mediaVars,
                 roomVars, serverVars, endCall, byeReq, status, ackByTx>>

DispatchDrop ==
  /\ pc["handler"] = "dispatch"
  /\ \E reply \in DispatchReplies : DispatchCall(reply) = "NoRuleDrop"
  /\ end' = [end EXCEPT !["handler"] = "flood"]
  /\ retErr' = TRUE
  /\ Goto("handler", "flood")
  /\ UNCHANGED <<sipVars, infoError, pinPrompt, closeVars, ctxDone, mediaVars,
                 roomVars, serverVars, endCall, byeReq, status, ackByTx>>

Refuse ==
  /\ pc["handler"] = "refuse"
  /\ RespondAndDrop
  /\ Goto("handler", "close")
  /\ UNCHANGED <<outcomeVars, pinPrompt, closeVars, ctxDone, mediaVars,
                 roomVars, serverVars, endCall, byeReq, status, ackByTx>>

DropFlood ==
  /\ pc["handler"] = "flood"
  /\ Drop
  /\ Goto("handler", "close")
  /\ UNCHANGED <<outcomeVars, pinPrompt, closeVars, ctxDone, mediaVars,
                 roomVars, serverVars, endCall, byeReq, status, ackByTx>>

(* runMediaConn holds c.mmu from end to end, so it is one step.            *)
RunMedia ==
  /\ pc["handler"] = "media"
  /\ media' = "open"
  /\ timeoutOn' = FALSE
  /\ Goto("handler", IF pinPrompt THEN "accept" ELSE "join")
  /\ UNCHANGED <<sipVars, outcomeVars, pinPrompt, closeVars, ctxDone, timedOut,
                 roomVars, serverVars, endCall, byeReq, status, ackByTx>>

(* It fails before the port is there, or with the port already in c.media. *)
RunMediaFails ==
  /\ pc["handler"] = "media"
  /\ media' \in {media, "open"}
  /\ end' = [end EXCEPT !["handler"] = "media-failed"]
  /\ retErr' = TRUE
  /\ Goto("handler", "refuse")
  /\ UNCHANGED <<sipVars, infoError, pinPrompt, closeVars, ctxDone, timeoutOn,
                 timedOut, roomVars, serverVars, endCall, byeReq, status, ackByTx>>
-----------------------------------------------------------------------------
(* acceptCall.                                                             *)
EnableTimeout == timeoutOn' = TRUE /\ UNCHANGED <<media, timedOut>>

Accept ==
  /\ pc["handler"] = "accept"
  /\ AcceptBegin
  /\ Goto("handler", "acceptSend")
  /\ UNCHANGED <<outcomeVars, pinPrompt, closeVars, ctxDone, mediaVars,
                 roomVars, serverVars, endCall, byeReq, status, ackByTx>>

(* Mutant of AcceptTooLate: an early return without a close().             *)
AcceptTooLate_NoClose ==
  /\ pc["handler"] = "accept"
  /\ mu = "free"
  /\ ~inviteTx
  /\ Goto("handler", "return")
  /\ retErr' = TRUE
  /\ UNCHANGED <<sipVars, end, infoError, pinPrompt, closeVars, ctxDone, mediaVars,
                 roomVars, serverVars, endCall, byeReq, status, ackByTx>>

(* "call already rejected".                                                *)
AcceptTooLate ==
  /\ pc["handler"] = "accept"
  /\ mu = "free"
  /\ ~inviteTx
  /\ closeWith("accept-failed", TRUE)
  /\ UNCHANGED <<sipVars, pinPrompt, closeVars, ctxDone, mediaVars, roomVars,
                 serverVars, endCall, byeReq, status, ackByTx>>

SendOk ==
  /\ pc["handler"] = "acceptSend"
  /\ AcceptSend
  /\ Goto("handler", "acceptWait")
  /\ UNCHANGED <<outcomeVars, pinPrompt, closeVars, ctxDone, mediaVars,
                 roomVars, serverVars, endCall, byeReq, status, ackByTx>>

SendOkReliable ==
  /\ pc["handler"] = "acceptSend"
  /\ AcceptSendOnce
  /\ EnableTimeout
  /\ Goto("handler", "waitMedia")
  /\ UNCHANGED <<outcomeVars, pinPrompt, closeVars, ctxDone, roomVars,
                 serverVars, endCall, byeReq, status, ackByTx>>

SendOkFails ==
  /\ pc["handler"] = "acceptSend"
  /\ AcceptSendFails
  /\ closeWith("accept-failed", TRUE)
  /\ UNCHANGED <<pinPrompt, closeVars, ctxDone, mediaVars, roomVars,
                 serverVars, endCall, byeReq, status, ackByTx>>

(* The ACK is seen by onAck, which breaks the fuse, or comes out of        *)
(* inviteTx.Acks(), which does not.                                        *)
AckArrives ==
  /\ pc["handler"] = "acceptWait"
  /\ \/ acked /\ UNCHANGED ackByTx
     \/ "ack" \in Events /\ ackByTx' = TRUE
  /\ AcceptEnd
  /\ EnableTimeout
  /\ Goto("handler", "waitMedia")
  /\ UNCHANGED <<outcomeVars, pinPrompt, closeVars, ctxDone, roomVars,
                 serverVars, endCall, byeReq, status>>

RetryOk ==
  /\ pc["handler"] = "acceptWait"
  /\ tries <= maxRetries
  /\ Goto("handler", "acceptSend")
  /\ UNCHANGED <<sipVars, outcomeVars, pinPrompt, closeVars, ctxDone, mediaVars,
                 roomVars, serverVars, endCall, byeReq, status, ackByTx>>

(* The retries are used up: an error only with InboundWaitACK.             *)
GiveUpOnAck ==
  /\ pc["handler"] = "acceptWait"
  /\ tries > maxRetries
  /\ AcceptEnd
  /\ IF conf.waitACK
       THEN closeWith("no-ack", TRUE) /\ UNCHANGED mediaVars
       ELSE /\ EnableTimeout
            /\ Goto("handler", "waitMedia")
            /\ UNCHANGED outcomeVars
  /\ UNCHANGED <<pinPrompt, closeVars, ctxDone, roomVars, serverVars,
                 endCall, byeReq, status, ackByTx>>
-----------------------------------------------------------------------------
(* The selects of the handler.  With media timeouts off until the call is  *)
(* accepted, the media.Timeout() case of waitSubscribe is never ready.     *)
WaitSubscribe ==
  /\ pc["handler"] = "waitSubscribe"
  /\ \/ cancelled /\ closeWithReason("cancelled", FALSE) /\ UNCHANGED endCall
     \/ CtxEnded /\ closeWithReason("hangup", FALSE) /\ UNCHANGED endCall
     \/ RoomStopped /\ closeWithReason("hangup", TRUE) /\ UNCHANGED endCall
     \/ endCall /\ closeWith("rpc", TRUE) /\ endCall' = FALSE
     \/ closeWith("cannot-subscribe", TRUE) /\ UNCHANGED endCall
     \/ Goto("handler", "accept") /\ UNCHANGED <<outcomeVars, endCall>>
  /\ UNCHANGED <<sipVars, pinPrompt, closeVars, ctxDone, mediaVars, roomVars,
                 serverVars, byeReq, status, ackByTx>>

WaitMedia ==
  /\ pc["handler"] = "waitMedia"
  /\ \/ cancelled /\ closeWithReason("cancelled", FALSE) /\ UNCHANGED endCall
     \/ CtxEnded /\ closeWithReason("hangup", FALSE) /\ UNCHANGED endCall
     \/ RoomStopped /\ closeWithReason("hangup", TRUE) /\ UNCHANGED endCall
     \/ timedOut /\ mediaTimeout /\ UNCHANGED endCall
     \/ endCall /\ closeWith("rpc", FALSE) /\ endCall' = FALSE
     \/ /\ Goto("handler", IF pinPrompt THEN "pin" ELSE "activate")
        /\ UNCHANGED <<outcomeVars, endCall>>
  /\ UNCHANGED <<sipVars, pinPrompt, closeVars, ctxDone, mediaVars, roomVars,
                 serverVars, byeReq, status, ackByTx>>

(* pinPrompt listens neither to the room nor to EndCall.                   *)
PinInterrupted ==
  /\ pc["handler"] = "pin"
  /\ \/ cancelled /\ closeWithReason("cancelled", FALSE)
     \/ ctxDone /\ closeWithReason("hangup", FALSE)
     \/ timedOut /\ mediaTimeout
  /\ UNCHANGED <<sipVars, pinPrompt, closeVars, ctxDone, mediaVars, roomVars,
                 serverVars, endCall, byeReq, status, ackByTx>>

(* The digits of a pin: accepted, wrong or too long, or not verifiable.    *)
PinEntered ==
  /\ pc["handler"] = "pin"
  /\ \/ Goto("handler", "join") /\ UNCHANGED outcomeVars
     \/ closeWith("wrong-pin", TRUE)
  /\ UNCHANGED <<sipVars, pinPrompt, closeVars, ctxDone, mediaVars, roomVars,
                 serverVars, endCall, byeReq, status, ackByTx>>

(* Mutant of WaitForCallEnd: no case for the context of the call.          *)
WaitForCallEnd_NoCtx ==
  /\ pc["handler"] = "waitEnd"
  /\ \/ endCall /\ closeWith("rpc", FALSE) /\ endCall' = FALSE
     \/ RoomStopped /\ closeWith("room-closed", FALSE) /\ UNCHANGED endCall
     \/ timedOut /\ mediaTimeout /\ UNCHANGED endCall
  /\ UNCHANGED <<sipVars, pinPrompt, closeVars, ctxDone, mediaVars, roomVars,
                 serverVars, byeReq, status, ackByTx>>

WaitForCallEnd ==
  /\ pc["handler"] = "waitEnd"
  /\ \/ CtxEnded /\ closeWithReason("hangup", FALSE) /\ UNCHANGED endCall
     \/ endCall /\ closeWith("rpc", FALSE) /\ endCall' = FALSE
     \/ RoomStopped /\ closeWith("room-closed", FALSE) /\ UNCHANGED endCall
     \/ timedOut /\ mediaTimeout /\ UNCHANGED endCall
  /\ UNCHANGED <<sipVars, pinPrompt, closeVars, ctxDone, mediaVars, roomVars,
                 serverVars, byeReq, status, ackByTx>>
-----------------------------------------------------------------------------
(* joinRoom, publishTrack and Subscribe.                                   *)
Join ==
  /\ pc["handler"] = "join"
  /\ ~ctxDone
  /\ topic' = TRUE
  /\ Goto("handler", "connect")
  /\ UNCHANGED <<sipVars, outcomeVars, pinPrompt, closeVars, ctxDone, mediaVars,
                 roomVars, registered, sessionEnds, endCall, byeReq, status, ackByTx>>

(* The context is done, or the topic cannot be registered.                 *)
JoinFails ==
  /\ pc["handler"] = "join"
  /\ closeWith("participant-failed", TRUE)
  /\ UNCHANGED <<sipVars, pinPrompt, closeVars, ctxDone, mediaVars, roomVars,
                 serverVars, endCall, byeReq, status, ackByTx>>

(* Room.Connect never looks at the closed fuse.                            *)
Connect ==
  /\ pc["handler"] = "connect"
  /\ room' = "joined"
  /\ \/ Goto("handler", "publish") /\ UNCHANGED outcomeVars
     \/ closeWith("participant-failed", TRUE)
  /\ UNCHANGED <<sipVars, pinPrompt, closeVars, ctxDone, mediaVars, roomClosed,
                 serverVars, endCall, byeReq, status, ackByTx>>

ConnectFails ==
  /\ pc["handler"] = "connect"
  /\ closeWith("participant-failed", TRUE)
  /\ UNCHANGED <<sipVars, pinPrompt, closeVars, ctxDone, mediaVars, roomVars,
                 serverVars, endCall, byeReq, status, ackByTx>>

Publish ==
  /\ pc["handler"] = "publish"
  /\ room \in {"joined", "stopped"}
  /\ Goto("handler", IF pinPrompt THEN "activate" ELSE "waitSubscribe")
  /\ UNCHANGED <<sipVars, outcomeVars, pinPrompt, closeVars, ctxDone, mediaVars,
                 roomVars, serverVars, endCall, byeReq, status, ackByTx>>

PublishFails ==
  /\ pc["handler"] = "publish"
  /\ CloseRoom
  /\ closeWith("publish-failed", TRUE)
  /\ UNCHANGED <<sipVars, pinPrompt, closeVars, ctxDone, mediaVars, serverVars,
                 endCall, byeReq, status, ackByTx>>

Activate ==
  /\ pc["handler"] = "activate"
  /\ status' = "active"
  /\ Goto("handler", "waitEnd")
  /\ UNCHANGED <<sipVars, outcomeVars, pinPrompt, closeVars, ctxDone, mediaVars,
                 roomVars, serverVars, endCall, byeReq, ackByTx>>
-----------------------------------------------------------------------------
(* close(), run by p.                                                      *)
AfterClose(p) == IF p = "handler" THEN "return" ELSE "done"

ResultOf(t) == IF t = "cancelled" THEN "terminated" ELSE "error"

CloseFirst(p) ==
  /\ pc[p] = "close"
  /\ ~done
  /\ done' = TRUE
  /\ closer' = p
  /\ term' = end[p]
  /\ terms' = terms + 1
  /\ Goto(p, "signal")
  /\ UNCHANGED <<sipVars, outcomeVars, pinPrompt, ctxDone, mediaVars, roomVars,
                 serverVars, endCall, byeReq, status, ackByTx>>

CloseAgain(p) ==
  /\ pc[p] = "close"
  /\ done
  /\ Goto(p, AfterClose(p))
  /\ UNCHANGED <<sipVars, outcomeVars, pinPrompt, closeVars, ctxDone, mediaVars,
                 roomVars, serverVars, endCall, byeReq, status, ackByTx>>

CloseWithStatus(p) ==
  /\ pc[p] = "signal"
  /\ \/ sendBye(p) /\ Goto(p, "bye")
     \/ sendStatus(ResultOf(end[p])) /\ Goto(p, "release")
     \/ closeDropped /\ Goto(p, "release")
  /\ UNCHANGED <<outcomeVars, pinPrompt, closeVars, ctxDone, mediaVars, roomVars,
                 serverVars, endCall, byeReq, status, ackByTx>>

ByeDone(p) ==
  /\ pc[p] = "bye"
  /\ byeDone(p)
  /\ Goto(p, "release")
  /\ UNCHANGED <<outcomeVars, pinPrompt, closeVars, ctxDone, mediaVars, roomVars,
                 serverVars, endCall, byeReq, status, ackByTx>>

(* Mutant of closeMedia: the room is not closed.                           *)
closeMedia_KeepsRoom(p) ==
  /\ pc[p] = "release"
  /\ media' = IF media = "open" THEN "closed" ELSE media
  /\ Goto(p, "unregister")
  /\ UNCHANGED <<sipVars, outcomeVars, pinPrompt, closeVars, ctxDone, timeoutOn,
                 timedOut, roomVars, serverVars, endCall, byeReq, status, ackByTx>>

closeMedia(p) ==
  /\ pc[p] = "release"
  /\ CloseRoom
  /\ media' = IF media = "open" THEN "closed" ELSE media
  /\ Goto(p, "unregister")
  /\ UNCHANGED <<sipVars, outcomeVars, pinPrompt, closeVars, ctxDone, timeoutOn,
                 timedOut, serverVars, endCall, byeReq, status, ackByTx>>

Unregister(p) ==
  /\ pc[p] = "unregister"
  /\ registered' = FALSE
  /\ topic' = FALSE
  /\ sessionEnds' = sessionEnds + 1
  /\ Goto(p, "cancel")
  /\ UNCHANGED <<sipVars, outcomeVars, pinPrompt, closeVars, ctxDone, mediaVars,
                 roomVars, endCall, byeReq, status, ackByTx>>

(* Mutant of CancelCtx: the context is left alive.                         *)
CancelCtx_Forgotten(p) ==
  /\ pc[p] = "cancel"
  /\ Goto(p, AfterClose(p))
  /\ UNCHANGED <<sipVars, outcomeVars, pinPrompt, closeVars, ctxDone, mediaVars,
                 roomVars, serverVars, endCall, byeReq, status, ackByTx>>

CancelCtx(p) ==
  /\ pc[p] = "cancel"
  /\ ctxDone' = TRUE
  /\ Goto(p, AfterClose(p))
  /\ UNCHANGED <<sipVars, outcomeVars, pinPrompt, closeVars, mediaVars, roomVars,
                 serverVars, endCall, byeReq, status, ackByTx>>

Close(p) ==
  \/ CloseFirst(p)
  \/ CloseAgain(p)
  \/ CloseWithStatus(p)
  \/ ByeDone(p)
  \/ closeMedia(p)
  \/ Unregister(p)
  \/ CancelCtx(p)

(* The deferred closeWithTerm("other") of handleInvite.                    *)
Return ==
  /\ pc["handler"] = "return"
  /\ IF done
       THEN Goto("handler", "finish") /\ UNCHANGED end
       ELSE /\ Goto("handler", "close")
            /\ end' = [end EXCEPT !["handler"] = "other"]
  /\ UNCHANGED <<sipVars, retErr, infoError, pinPrompt, closeVars, ctxDone,
                 mediaVars, roomVars, serverVars, endCall, byeReq, status, ackByTx>>

(* The deferred update of processInvite.                                   *)
Finish ==
  /\ pc["handler"] = "finish"
  /\ status' = IF retErr /\ ~infoError THEN "error" ELSE "disconnected"
  /\ Goto("handler", "done")
  /\ UNCHANGED <<sipVars, outcomeVars, pinPrompt, closeVars, ctxDone, mediaVars,
                 roomVars, serverVars, endCall, byeReq, ackByTx>>
-----------------------------------------------------------------------------
(* onBye for a registered call: 200 to the BYE, then c.mu, then cancel.    *)
RecvBye ==
  /\ "bye" \in Events
  /\ byeReq = "none"
  /\ registered
  /\ byeReq' = "answered"
  /\ UNCHANGED <<sipVars, pc, outcomeVars, pinPrompt, closeVars, ctxDone, mediaVars,
                 roomVars, serverVars, endCall, status, ackByTx>>

ByeDrop ==
  /\ byeReq = "answered"
  /\ AcceptBye
  /\ byeReq' = "dropped"
  /\ UNCHANGED <<pc, outcomeVars, pinPrompt, closeVars, ctxDone, mediaVars,
                 roomVars, serverVars, endCall, status, ackByTx>>

(* Mutant of Bye: the BYE handler does not cancel the call.                *)
Bye_NoCancel ==
  /\ byeReq = "dropped"
  /\ byeReq' = "returned"
  /\ UNCHANGED <<sipVars, pc, outcomeVars, pinPrompt, closeVars, ctxDone, mediaVars,
                 roomVars, serverVars, endCall, status, ackByTx>>

Bye ==
  /\ byeReq = "dropped"
  /\ ctxDone' = TRUE
  /\ byeReq' = "returned"
  /\ UNCHANGED <<sipVars, pc, outcomeVars, pinPrompt, closeVars, mediaVars,
                 roomVars, serverVars, endCall, status, ackByTx>>

(* Server.Stop takes byLocalTag over and shuts its calls down.             *)
Stop ==
  /\ "stop" \in Events
  /\ pc["stop"] = "idle"
  /\ registered
  /\ registered' = FALSE
  /\ Goto("stop", "close")
  /\ UNCHANGED <<sipVars, outcomeVars, pinPrompt, closeVars, ctxDone, mediaVars,
                 roomVars, topic, sessionEnds, endCall, byeReq, status, ackByTx>>

(* ACKs, media timeouts, room events and hang-ups that come when the       *)
(* handler is past its last select are read by nobody and left out.        *)
Listening == pc["handler"] \notin ClosePCs \cup {"refuse", "flood", "return", "finish", "done"}

(* onAck for a registered call.                                            *)
RecvAck ==
  /\ Listening
  /\ final = "ok"
  /\ registered
  /\ ~acked
  /\ AcceptAck
  /\ UNCHANGED callVars

Cancel == RecvCancel /\ UNCHANGED callVars

(* The timeout loop of the media port.                                     *)
MediaTimesOut ==
  /\ "mediaTimeout" \in Events
  /\ Listening
  /\ media = "open"
  /\ timeoutOn
  /\ ~timedOut
  /\ timedOut' = TRUE
  /\ UNCHANGED <<sipVars, pc, outcomeVars, pinPrompt, closeVars, ctxDone, media,
                 timeoutOn, roomVars, serverVars, endCall, byeReq, status, ackByTx>>

(* LiveKit ends the session: OnDisconnected breaks the stopped fuse.       *)
RoomDisconnects ==
  /\ "roomDisconnect" \in Events
  /\ Listening
  /\ room = "joined"
  /\ room' = "stopped"
  /\ UNCHANGED <<sipVars, pc, outcomeVars, pinPrompt, closeVars, ctxDone, mediaVars,
                 roomClosed, serverVars, endCall, byeReq, status, ackByTx>>

(* EndCall over the room's RPC; the channel holds one request.             *)
EndCall ==
  /\ "endCall" \in Events
  /\ Listening
  /\ room = "joined"
  /\ ~endCall
  /\ endCall' = TRUE
  /\ UNCHANGED <<sipVars, pc, outcomeVars, pinPrompt, closeVars, ctxDone, mediaVars,
                 roomVars, serverVars, byeReq, status, ackByTx>>

(* A transfer succeeded and the peer did not hang up: c.Close().           *)
TransferHangup ==
  /\ "transfer" \in Events
  /\ Listening
  /\ inviteOk
  /\ ~ctxDone
  /\ ctxDone' = TRUE
  /\ UNCHANGED <<sipVars, pc, outcomeVars, pinPrompt, closeVars, mediaVars,
                 roomVars, serverVars, endCall, byeReq, status, ackByTx>>
-----------------------------------------------------------------------------
Ended == pc["handler"] \in {"done", "panic"}

(* Every goroutine of the call has returned, or the process died.          *)
Terminated ==
  /\ \/ pc["handler"] = "panic"
     \/ /\ pc["handler"] = "done"
        /\ pc["stop"] \in {"idle", "done"}
        /\ ringer = "exited"
        /\ byeReq \in {"none", "returned"}
  /\ UNCHANGED vars

Handler ==
  \/ Ring \/ RingPanics
  \/ DispatchAccept \/ DispatchReject \/ DispatchDrop \/ Refuse \/ DropFlood
  \/ RunMedia \/ RunMediaFails
  \/ Accept \/ AcceptTooLate \/ SendOk \/ SendOkReliable \/ SendOkFails
  \/ AckArrives \/ RetryOk \/ GiveUpOnAck
  \/ WaitSubscribe \/ WaitMedia \/ PinInterrupted \/ WaitForCallEnd
  \/ Join \/ JoinFails \/ Connect \/ ConnectFails \/ Publish \/ PublishFails
  \/ Activate \/ Return \/ Finish

Ringer ==
  \/ RingStop /\ UNCHANGED callVars
  \/ RingCancel /\ UNCHANGED callVars
  \/ RingTick /\ UNCHANGED callVars
  \/ RingAgain /\ UNCHANGED callVars

Environment ==
  \/ PinEntered \/ RecvBye \/ Stop \/ RecvAck \/ Cancel \/ MediaTimesOut
  \/ RoomDisconnects \/ EndCall \/ TransferHangup

Next ==
  \/ Handler
  \/ \E p \in Callers : Close(p)
  \/ Ringer
  \/ ByeDrop
  \/ Bye
  \/ Environment
  \/ Terminated

Spec == Init /\ [][Next]_vars

(* The goroutines of the server run; nothing is asked of the environment.  *)
(* Go's select chooses among ready cases at random, so the ringing         *)
(* goroutine does not take its ticker for ever while stop is closed.       *)
Fairness ==
  /\ WF_vars(Handler \/ Close("handler"))
  /\ WF_vars(Close("stop"))
  /\ WF_vars(Ringer)
  /\ SF_vars(RingStop /\ UNCHANGED callVars)
  /\ WF_vars(ByeDrop \/ Bye)

FairSpec == Spec /\ Fairness
-----------------------------------------------------------------------------
(* The INVITE gets at most one final response, whoever closes the call and *)
(* whenever: respond, Accept and sendStatus only act on a live inviteTx.   *)
OneFinal == finals <= 1

(* c.done makes close() run once: one termination is reported to the call  *)
(* monitor and one OnSessionEnd is started, however Server.Stop and the    *)
(* handler race ("concurrent paths cannot double-emit", Shutdown).         *)
OneTermination == terms <= 1 /\ sessionEnds <= terms

(* Every return of handleInvite comes after a close() with a reason of its *)
(* own: the deferred closeWithTerm("other") never decides the termination. *)
NoUnexplainedEnd == term # "other"

(* A call the caller saw answered is ended on the wire: when the handler   *)
(* and Server.Stop are through with it, a BYE was sent or received, unless *)
(* the transport had failed.                                               *)
AnsweredEndsWithBye ==
  (final = "ok" /\ pc["handler"] = "done" /\ pc["stop"] \in {"idle", "done"})
    => byeSent \/ byeReq # "none" \/ txFailed

(* When the handler's own close() ended the call, nothing stays behind it: *)
(* no RTP port, no LiveKit session, no transfer topic, no byLocalTag entry. *)
ReleasedByHandler ==
  (closer = "handler" /\ pc["handler"] = "done")
    => /\ media # "open"
       /\ room \notin {"joined", "stopped"}
       /\ ~topic
       /\ ~registered

(* The promise of Shutdown, "Shutdown force-closes the call": once         *)
(* Server.Stop closed the call and its handler returned, nothing stays.    *)
ShutdownReleases ==
  (closer = "stop" /\ pc["stop"] = "done" /\ pc["handler"] = "done")
    => media # "open" /\ room # "joined" /\ ~topic

(* A caller whose CANCEL the server took (c.cancelled is closed, the CANCEL *)
(* got its 200) before the INVITE was answered is not answered with a 200. *)
CancelledNotAccepted == [][(cancelled /\ final = "none") => final' # "ok"]_vars

(* errNoACK, "no ACK received for 200 OK", is the reason of a call's end   *)
(* only if Accept did not take an ACK for that 200.                        *)
NoAckMeansNoAck == term = "no-ack" => ~ackByTx

(* No 180 follows a final response, although the ringing goroutine may     *)
(* have a tick in hand when Accept or drop stops it.                       *)
NoRingingAfterFinal == [][rings' # rings => final = "none"]_vars

Phase ==
  IF ~invite THEN "ended" ELSE IF final = "ok" THEN "confirmed" ELSE "proceeding"

Abstract == INSTANCE UASDialog WITH
  phase <- Phase, byeRcvd <- (byeReq # "none"), lost <- txFailed

(* The leg implements the dialog of module UASDialog.                      *)
ImplementsDialog == Abstract!Dialog

(* The call ends: every wait of the handler is bounded by a timer, except  *)
(* the pin prompt, which a caller can keep open as long as media flows.    *)
CallEnds == <>Ended \/ <>[](pc["handler"] = "pin")

(* A BYE ends the call from wherever the handler is, the pin prompt        *)
(* included, and even when it had to wait for c.mu behind Accept.          *)
ByeEndsCall == byeReq = "answered" ~> Ended

(* Server.Stop ends the call: its Shutdown returns and so does the handler. *)
StopEndsCall == pc["stop"] = "close" ~> (pc["stop"] \in {"done", "panic"} /\ Ended)

(* The ringing goroutine never outlives the call: whatever ends it, or      *)
(* answers it, drop or Accept have stopped the ringing.                    *)
RingerExits == ringer # "idle" ~> ringer = "exited"
-----------------------------------------------------------------------------
(* The inductive invariant behind the safety properties, in named parts.   *)
Closing == {"signal", "bye", "release", "unregister", "cancel"}
Returned == {"return", "finish", "done"}

(* The leg: a dropped one has neither transaction nor dialog, a kept one   *)
(* has one of them, and a transaction that already carried a final         *)
(* response is dead or still under Accept's lock.                          *)
LegInv ==
  /\ invite <=> (inviteTx \/ inviteOk)
  /\ inviteOk => final = "ok" /\ ~inviteTx
  /\ finals = IF final = "none" THEN 0 ELSE 1
  /\ inviteTx /\ final # "none" => final = "ok" /\ (txFailed \/ mu = "handler")

(* c.mu is held across steps exactly by Accept and by a BYE under way.     *)
LockInv ==
  /\ mu = "handler" <=> pc["handler"] \in {"acceptSend", "acceptWait", "bye"}
  /\ mu = "stop" <=> pc["stop"] = "bye"
  /\ pc["handler"] \in {"acceptSend", "acceptWait"} => inviteTx /\ ~txFailed
  /\ pc["handler"] = "acceptSend" => conf.udp \/ conf.waitACK \/ final = "none"
  /\ pc["handler"] = "acceptWait" => final = "ok" /\ (conf.udp \/ conf.waitACK)
  /\ txFailed => pc["handler"] \in ClosePCs \cup Returned

(* Where the handler can be once the INVITE was answered, and why an       *)
(* answered leg is kept.                                                   *)
AnswerInv ==
  /\ final = "ok" => pc["handler"] \notin
       {"ring", "dispatch", "refuse", "flood", "media", "accept", "panic"}
  /\ final = "ok" /\ ~pinPrompt => pc["handler"] \notin
       {"join", "connect", "publish", "waitSubscribe"}
  /\ IF pinPrompt THEN pc["handler"] # "waitSubscribe" ELSE pc["handler"] # "pin"
  /\ final = "ok" /\ ~byeSent /\ byeReq = "none" /\ ~txFailed => invite

(* close() belongs to the one that won c.done, and the handler does not    *)
(* return without a close().                                               *)
CloseInv ==
  /\ terms = IF done THEN 1 ELSE 0
  /\ done <=> closer # "none"
  /\ \A p \in Callers : pc[p] \in Closing => closer = p
  /\ closer = "handler" => pc["handler"] \in Closing \cup Returned
  /\ closer = "stop" => pc["stop"] \in Closing \cup {"done", "panic"}
  /\ pc["handler"] \in Returned => done
  /\ pc["stop"] = "done" => done
  /\ end["handler"] # "other" /\ end["stop"] = "shutdown" /\ term # "other"
  /\ \A p \in Callers : closer = p /\ pc[p] \notin {"signal", "panic"} => ~invite
  /\ sessionEnds <= terms
  /\ \A p \in Callers : closer = p /\ pc[p] \in Closing \ {"cancel"} => sessionEnds = 0

(* What the handler's own close() has given back so far.                   *)
ReleaseInv ==
  /\ closer # "stop" /\ roomClosed =>
       /\ room \notin {"joined", "stopped"}
       /\ pc["handler"] \in ClosePCs \cup Returned
  /\ closer = "handler" /\ pc["handler"] \notin {"signal", "bye", "release"} =>
       media # "open" /\ room \notin {"joined", "stopped"}
  /\ closer = "handler" /\ pc["handler"] \in Returned \cup {"cancel"} =>
       ~topic /\ ~registered

(* The conjunction TLC checks and the proofs carry through every step.     *)
IInv == TypeOK /\ LegInv /\ LockInv /\ AnswerInv /\ CloseInv /\ ReleaseInv
=============================================================================
