------------------------- MODULE InboundHandlerSteps -------------------------
(***************************************************************************)
(* The initial state of InboundCall satisfies its inductive invariant      *)
(* IInv, and the steps of handleInvite keep it, for every value of the     *)
(* constants.                                                              *)
(*                                                                         *)
(* A case of a step lemma is one action: first the type invariant, then    *)
(* the parts about the leg (LegInv, LockInv, AnswerInv) and about close()  *)
(* (CloseInv, ReleaseInv).  A flag that is assigned FALSE is typed in a    *)
(* step of its own.                                                        *)
(***************************************************************************)
EXTENDS InboundCall, TLAPS

USE SMTT(30)
USE DEF vars, sipVars, callVars, legVars, ringVars, wireVars, outcomeVars,
        closeVars, mediaVars, roomVars, serverVars, Callers, Goto

(* The types the non-type parts need, with the sets of labels left opaque. *)
LEMMA Pcs ==
  ASSUME TypeOK
  PROVE  /\ pc \in [Callers -> HandlerPCs \cup StopPCs]
         /\ end \in [Callers -> Terms]
         /\ sessionEnds \in Nat
  BY Zenon DEF TypeOK, CallTypeOK

(* A step that leaves the leg alone keeps its types.                       *)
LEMMA SipKept ==
  ASSUME SipTypeOK, UNCHANGED sipVars
  PROVE  SipTypeOK'
  BY DEF SipTypeOK

(* A step that leaves the call alone keeps the call's.                     *)
LEMMA CallKept ==
  ASSUME CallTypeOK, UNCHANGED callVars
  PROVE  CallTypeOK'
  BY DEF CallTypeOK

(* The flags each helper assigns stay Boolean.                             *)
LEMMA DropFlags == drop =>
    /\ invite' \in BOOLEAN /\ inviteTx' \in BOOLEAN
    /\ inviteOk' \in BOOLEAN /\ ringing' \in BOOLEAN
  BY Zenon DEF drop, stopRinging

(* accepted() leaves its two flags Boolean.                               *)
LEMMA AcceptedFlags == accepted => inviteOk' \in BOOLEAN /\ inviteTx' \in BOOLEAN
  BY Zenon DEF accepted

(* The error result of an exit path is Boolean.                            *)
LEMMA ErrFlag ==
  ASSUME NEW t, NEW err \in BOOLEAN, EndWith(t, err)
  PROVE  retErr' \in BOOLEAN
  BY Zenon DEF EndWith

(* closeWith and closeWithReason leave both outcome flags Boolean.         *)
LEMMA CloseFlags ==
  ASSUME NEW t, NEW err \in BOOLEAN, infoError \in BOOLEAN,
         closeWith(t, err) \/ closeWithReason(t, err)
  PROVE  retErr' \in BOOLEAN /\ infoError' \in BOOLEAN
  BY ErrFlag, Zenon DEF closeWith, closeWithReason

(* So does mediaTimeout.                                                   *)
LEMMA MediaTimeoutFlags ==
  ASSUME infoError \in BOOLEAN, mediaTimeout
  PROVE  retErr' \in BOOLEAN /\ infoError' \in BOOLEAN
  BY ErrFlag, Zenon DEF mediaTimeout

(* What the types say of the place of the two callers of close() and of    *)
(* the termination each of them would report.                              *)
Placed ==
  /\ pc \in [Callers -> HandlerPCs \cup StopPCs]
  /\ pc["handler"] \in HandlerPCs
  /\ pc["stop"] \in StopPCs
  /\ end \in [Callers -> Terms]

(* The handler goes on to a label of its own, or ends the call.            *)
LEMMA HandlerPlaced ==
  ASSUME Placed, NEW l \in HandlerPCs, Goto("handler", l),
         \/ UNCHANGED end
         \/ \E t \in Terms : end' = [end EXCEPT !["handler"] = t]
  PROVE  Placed'
  BY Zenon DEF Placed

(* Every exit of a wait ends the call with one of the terminations.        *)
LEMMA ExitPlaced ==
  ASSUME Placed, NEW t \in Terms, NEW err, EndWith(t, err)
  PROVE  Placed'
  <1>1. "close" \in HandlerPCs
    BY Zenon DEF HandlerPCs, ClosePCs
  <1> QED BY Zenon, <1>1, HandlerPlaced DEF EndWith

(* A step of one of the waits keeps the types of the call.                 *)
LEMMA WaitTyped ==
  ASSUME CallTypeOK, Placed', retErr' \in BOOLEAN, infoError' \in BOOLEAN,
         endCall' \in BOOLEAN,
         UNCHANGED <<pinPrompt, closeVars, ctxDone, mediaVars, roomVars,
                     serverVars, byeReq, status, ackByTx>>
  PROVE  CallTypeOK'
  BY DEF CallTypeOK, Placed

(* newInboundCall builds a well-typed call.                                *)
LEMMA TypeInit == Init => TypeOK
  <1> SUFFICES ASSUME Init PROVE TypeOK
    OBVIOUS
  <1>1. SipTypeOK
    <2>1. /\ invite \in BOOLEAN /\ inviteTx \in BOOLEAN /\ inviteOk \in BOOLEAN
          /\ ringing \in BOOLEAN /\ cancelReq \in BOOLEAN /\ cancelled \in BOOLEAN
          /\ acked \in BOOLEAN /\ byeSent \in BOOLEAN /\ txFailed \in BOOLEAN
      BY Zenon DEF Init, SipInit
    <2> QED BY Zenon, <2>1, ConfsAssumption DEF Init, SipInit, SipTypeOK,
         Finals
  <1>2. CallTypeOK
    <2>1. /\ retErr \in BOOLEAN /\ pinPrompt \in BOOLEAN /\ done \in BOOLEAN
          /\ ctxDone \in BOOLEAN /\ timeoutOn \in BOOLEAN /\ timedOut \in BOOLEAN
          /\ roomClosed \in BOOLEAN /\ registered \in BOOLEAN /\ topic \in BOOLEAN
          /\ endCall \in BOOLEAN /\ infoError \in BOOLEAN /\ ackByTx \in BOOLEAN
      BY Zenon DEF Init
    <2> QED BY Zenon, <2>1 DEF Init, CallTypeOK, HandlerPCs, StopPCs,
         ClosePCs, Terms
  <1> QED BY Zenon, <1>1, <1>2 DEF TypeOK

(* newInboundCall establishes the inductive invariant.                     *)
LEMMA IInvInit == Init => IInv
  <1> SUFFICES ASSUME Init PROVE IInv
    OBVIOUS
  <1>1. TypeOK
    BY Zenon, TypeInit
  <1>2. LegInv /\ LockInv /\ AnswerInv
    BY Zenon DEF Init, SipInit, LegInv, LockInv, AnswerInv, Returned, ClosePCs
  <1>3. CloseInv /\ ReleaseInv
    BY DEF Init, SipInit, CloseInv, ReleaseInv, Closing, Returned, ClosePCs
  <1> QED BY Zenon, <1>1, <1>2, <1>3 DEF IInv

(* The steps of handleInvite and processInvite, close() excepted. *)
LEMMA HandlerStep ==
  ASSUME IInv, Handler
  PROVE  IInv'
  <1> TypeOK /\ LegInv /\ LockInv /\ AnswerInv /\ CloseInv /\ ReleaseInv
    BY Zenon DEF IInv
  <1>pc. /\ pc \in [Callers -> HandlerPCs \cup StopPCs]
         /\ end \in [Callers -> Terms]
         /\ sessionEnds \in Nat
    BY Zenon, Pcs
  <1>1. CASE Ring
    <2>1. TypeOK'
      BY <1>1 DEF Ring, StartRinging, sendRinging, TypeOK, SipTypeOK,
           CallTypeOK, Finals, HandlerPCs, StopPCs, ClosePCs, Terms
    <2>2. LegInv' /\ LockInv' /\ AnswerInv' /\ CloseInv' /\ ReleaseInv'
      BY ZenonT(30), <1>1, <1>pc DEF Ring, StartRinging, sendRinging, LegInv,
           LockInv, AnswerInv, CloseInv, Closing, Returned, ClosePCs,
           ReleaseInv
    <2> QED BY Zenon, <2>1, <2>2 DEF IInv
  <1>2. CASE RingPanics
    <2>1. TypeOK'
      BY <1>2, SipKept DEF RingPanics, TypeOK, CallTypeOK, HandlerPCs,
           StopPCs, ClosePCs, Terms
    <2>2. LegInv' /\ LockInv' /\ AnswerInv' /\ CloseInv' /\ ReleaseInv'
      BY Zenon, <1>2, <1>pc DEF RingPanics, LegInv, LockInv, AnswerInv,
           CloseInv, Closing, Returned, ClosePCs, ReleaseInv
    <2> QED BY Zenon, <2>1, <2>2 DEF IInv
  <1>3. CASE DispatchAccept
    <2>1. TypeOK'
      BY <1>3, SipKept DEF DispatchAccept, TypeOK, CallTypeOK, HandlerPCs,
           StopPCs, ClosePCs, Terms
    <2>2. LegInv' /\ LockInv' /\ AnswerInv' /\ CloseInv' /\ ReleaseInv'
      <3>1. LegInv' /\ LockInv' /\ AnswerInv'
        BY Zenon, <1>3, <1>pc DEF DispatchAccept, LegInv, LockInv, ClosePCs,
             Returned, AnswerInv
      <3>2. CloseInv' /\ ReleaseInv'
        BY ZenonT(30), <1>3, <1>pc DEF DispatchAccept, CloseInv, Closing, Returned,
             ReleaseInv, ClosePCs
      <3> QED BY Zenon, <3>1, <3>2
    <2> QED BY Zenon, <2>1, <2>2 DEF IInv
  <1>4. CASE DispatchReject
    <2>1. TypeOK'
      BY <1>4, SipKept DEF DispatchReject, TypeOK, CallTypeOK, HandlerPCs,
           StopPCs, ClosePCs, Terms
    <2>2. LegInv' /\ LockInv' /\ AnswerInv' /\ CloseInv' /\ ReleaseInv'
      BY ZenonT(30), <1>4, <1>pc DEF DispatchReject, LegInv, LockInv, AnswerInv,
           CloseInv, Closing, Returned, ClosePCs, ReleaseInv
    <2> QED BY Zenon, <2>1, <2>2 DEF IInv
  <1>5. CASE DispatchDrop
    <2>1. TypeOK'
      BY <1>5, SipKept DEF DispatchDrop, TypeOK, CallTypeOK, HandlerPCs,
           StopPCs, ClosePCs, Terms
    <2>2. LegInv' /\ LockInv' /\ AnswerInv' /\ CloseInv' /\ ReleaseInv'
      BY ZenonT(30), <1>5, <1>pc DEF DispatchDrop, LegInv, LockInv, AnswerInv,
           CloseInv, Closing, Returned, ClosePCs, ReleaseInv
    <2> QED BY Zenon, <2>1, <2>2 DEF IInv
  <1>6. CASE Refuse
    <2>1. TypeOK'
      BY <1>6, DropFlags DEF Refuse, RespondAndDrop, SendFinal, TypeOK,
           SipTypeOK, CallTypeOK, Finals, HandlerPCs, StopPCs, ClosePCs, Terms
    <2>2. LegInv' /\ LockInv' /\ AnswerInv' /\ CloseInv' /\ ReleaseInv'
      <3>1. LegInv' /\ LockInv' /\ AnswerInv'
        BY <1>6, <1>pc DEF Refuse, RespondAndDrop, SendFinal, drop,
             stopRinging, LegInv, LockInv, ClosePCs, Returned, AnswerInv
      <3>2. CloseInv' /\ ReleaseInv'
        BY Zenon, <1>6, <1>pc DEF Refuse, RespondAndDrop, SendFinal, drop,
             stopRinging, CloseInv, Closing, Returned, ReleaseInv, ClosePCs
      <3> QED BY Zenon, <3>1, <3>2
    <2> QED BY Zenon, <2>1, <2>2 DEF IInv
  <1>7. CASE DropFlood
    <2>1. TypeOK'
      BY <1>7, DropFlags DEF DropFlood, Drop, TypeOK, SipTypeOK, CallTypeOK,
           Finals, HandlerPCs, StopPCs, ClosePCs, Terms
    <2>2. LegInv' /\ LockInv' /\ AnswerInv' /\ CloseInv' /\ ReleaseInv'
      BY ZenonT(30), <1>7, <1>pc DEF DropFlood, Drop, drop, stopRinging, LegInv,
           LockInv, AnswerInv, CloseInv, Closing, Returned, ClosePCs,
           ReleaseInv
    <2> QED BY Zenon, <2>1, <2>2 DEF IInv
  <1>8. CASE RunMedia
    <2>1. TypeOK'
      <3>1. timeoutOn' \in BOOLEAN
        BY Zenon, <1>8 DEF RunMedia
      <3> QED BY <1>8, <3>1, SipKept DEF RunMedia, TypeOK, CallTypeOK,
           HandlerPCs, StopPCs, ClosePCs, Terms
    <2>2. LegInv' /\ LockInv' /\ AnswerInv' /\ CloseInv' /\ ReleaseInv'
      BY ZenonT(30), <1>8, <1>pc DEF RunMedia, LegInv, LockInv, AnswerInv,
           CloseInv, Closing, Returned, ClosePCs, ReleaseInv
    <2> QED BY Zenon, <2>1, <2>2 DEF IInv
  <1>9. CASE RunMediaFails
    <2>1. TypeOK'
      BY <1>9, SipKept DEF RunMediaFails, TypeOK, CallTypeOK, HandlerPCs,
           StopPCs, ClosePCs, Terms
    <2>2. LegInv' /\ LockInv' /\ AnswerInv' /\ CloseInv' /\ ReleaseInv'
      BY ZenonT(30), <1>9, <1>pc DEF RunMediaFails, LegInv, LockInv, AnswerInv,
           CloseInv, Closing, Returned, ClosePCs, ReleaseInv
    <2> QED BY Zenon, <2>1, <2>2 DEF IInv
  <1>10. CASE Accept
    <2>1. TypeOK'
      <3>1. ringing' \in BOOLEAN
        BY Zenon, <1>10 DEF Accept, AcceptBegin, stopRinging
      <3> QED BY <1>10, <3>1 DEF Accept, AcceptBegin, stopRinging, TypeOK,
           SipTypeOK, CallTypeOK, Finals, HandlerPCs, StopPCs, ClosePCs, Terms
    <2>2. LegInv' /\ LockInv' /\ AnswerInv' /\ CloseInv' /\ ReleaseInv'
      BY ZenonT(30), <1>10, <1>pc DEF Accept, AcceptBegin, stopRinging, LegInv,
           LockInv, AnswerInv, CloseInv, Closing, Returned, ClosePCs,
           ReleaseInv
    <2> QED BY Zenon, <2>1, <2>2 DEF IInv
  <1>11. CASE AcceptTooLate
    <2>1. TypeOK'
      BY <1>11, SipKept DEF AcceptTooLate, closeWith, EndWith, TypeOK,
           CallTypeOK, HandlerPCs, StopPCs, ClosePCs, Terms
    <2>2. LegInv' /\ LockInv' /\ AnswerInv' /\ CloseInv' /\ ReleaseInv'
      BY Zenon, <1>11, <1>pc DEF AcceptTooLate, closeWith, EndWith, LegInv,
           LockInv, AnswerInv, CloseInv, Closing, Returned, ClosePCs,
           ReleaseInv
    <2> QED BY Zenon, <2>1, <2>2 DEF IInv
  <1>12. CASE SendOk
    <2>1. TypeOK'
      BY <1>12 DEF SendOk, AcceptSend, SendFinal, TypeOK, SipTypeOK,
           CallTypeOK, Finals, HandlerPCs, StopPCs, ClosePCs, Terms
    <2>2. LegInv' /\ LockInv' /\ AnswerInv' /\ CloseInv' /\ ReleaseInv'
      <3>1. LegInv' /\ LockInv' /\ AnswerInv'
        BY <1>12, <1>pc DEF SendOk, AcceptSend, SendFinal, LegInv, LockInv,
             ClosePCs, Returned, AnswerInv
      <3>2. CloseInv' /\ ReleaseInv'
        BY Zenon, <1>12, <1>pc DEF SendOk, AcceptSend, SendFinal, CloseInv,
             Closing, Returned, ReleaseInv, ClosePCs
      <3> QED BY Zenon, <3>1, <3>2
    <2> QED BY Zenon, <2>1, <2>2 DEF IInv
  <1>13. CASE SendOkReliable
    <2>1. TypeOK'
      BY <1>13, AcceptedFlags DEF SendOkReliable, AcceptSendOnce, SendFinal,
           accepted, EnableTimeout, TypeOK, SipTypeOK, CallTypeOK, Finals,
           HandlerPCs, StopPCs, ClosePCs, Terms
    <2>2. LegInv' /\ LockInv' /\ AnswerInv' /\ CloseInv' /\ ReleaseInv'
      <3>1. LegInv' /\ LockInv' /\ AnswerInv'
        BY <1>13, <1>pc DEF SendOkReliable, AcceptSendOnce, SendFinal,
             accepted, EnableTimeout, LegInv, LockInv, ClosePCs, Returned,
             AnswerInv
      <3>2. CloseInv' /\ ReleaseInv'
        BY Zenon, <1>13, <1>pc DEF SendOkReliable, AcceptSendOnce, SendFinal,
             accepted, EnableTimeout, CloseInv, Closing, Returned, ReleaseInv,
             ClosePCs
      <3> QED BY Zenon, <3>1, <3>2
    <2> QED BY Zenon, <2>1, <2>2 DEF IInv
  <1>14. CASE SendOkFails
    <2>1. TypeOK'
      BY <1>14 DEF SendOkFails, AcceptSendFails, closeWith, EndWith, TypeOK,
           SipTypeOK, CallTypeOK, Finals, HandlerPCs, StopPCs, ClosePCs, Terms
    <2>2. LegInv' /\ LockInv' /\ AnswerInv' /\ CloseInv' /\ ReleaseInv'
      BY ZenonT(30), <1>14, <1>pc DEF SendOkFails, AcceptSendFails, closeWith,
           EndWith, LegInv, LockInv, AnswerInv, CloseInv, Closing, Returned,
           ClosePCs, ReleaseInv
    <2> QED BY Zenon, <2>1, <2>2 DEF IInv
  <1>15. CASE AckArrives
    <2>1. TypeOK'
      <3>1. ackByTx' \in BOOLEAN
        BY Zenon, <1>15 DEF AckArrives, TypeOK, CallTypeOK
      <3> QED BY <1>15, <3>1, AcceptedFlags DEF AckArrives, AcceptEnd,
           accepted, EnableTimeout, TypeOK, SipTypeOK, CallTypeOK, Finals,
           HandlerPCs, StopPCs, ClosePCs, Terms
    <2>2. LegInv' /\ LockInv' /\ AnswerInv' /\ CloseInv' /\ ReleaseInv'
      BY ZenonT(30), <1>15, <1>pc DEF AckArrives, AcceptEnd, accepted,
           EnableTimeout, LegInv, LockInv, AnswerInv, CloseInv, Closing,
           Returned, ClosePCs, ReleaseInv
    <2> QED BY Zenon, <2>1, <2>2 DEF IInv
  <1>16. CASE RetryOk
    <2>1. TypeOK'
      BY <1>16, SipKept DEF RetryOk, TypeOK, CallTypeOK, HandlerPCs, StopPCs,
           ClosePCs, Terms
    <2>2. LegInv' /\ LockInv' /\ AnswerInv' /\ CloseInv' /\ ReleaseInv'
      <3>1. LegInv' /\ LockInv' /\ AnswerInv'
        BY Zenon, <1>16, <1>pc DEF RetryOk, LegInv, LockInv, ClosePCs,
             Returned, AnswerInv
      <3>2. CloseInv' /\ ReleaseInv'
        BY Zenon, <1>16, <1>pc DEF RetryOk, CloseInv, Closing, Returned,
             ReleaseInv, ClosePCs
      <3> QED BY Zenon, <3>1, <3>2
    <2> QED BY Zenon, <2>1, <2>2 DEF IInv
  <1>17. CASE GiveUpOnAck
    <2>1. TypeOK'
      <3>1. SipTypeOK'
        BY <1>17, AcceptedFlags, CallKept DEF GiveUpOnAck, AcceptEnd,
             accepted, TypeOK, SipTypeOK, Finals
      <3>2. CASE conf.waitACK
        BY <1>17, <3>1, <3>2, SipKept DEF GiveUpOnAck, closeWith, EndWith,
             TypeOK, CallTypeOK, HandlerPCs, StopPCs, ClosePCs, Terms
      <3>3. CASE ~conf.waitACK
        BY <1>17, <3>1, <3>3, SipKept DEF GiveUpOnAck, EnableTimeout, TypeOK,
             CallTypeOK, HandlerPCs, StopPCs, ClosePCs, Terms
      <3> QED BY Zenon, <3>2, <3>3
    <2>2. LegInv' /\ LockInv' /\ AnswerInv' /\ CloseInv' /\ ReleaseInv'
      <3>1. LegInv' /\ LockInv' /\ AnswerInv'
        BY ZenonT(30), <1>17, <1>pc DEF GiveUpOnAck, AcceptEnd, accepted,
             EnableTimeout, closeWith, EndWith, LegInv, LockInv, ClosePCs,
             Returned, AnswerInv
      <3>2. CloseInv' /\ ReleaseInv'
        BY ZenonT(30), <1>17, <1>pc DEF GiveUpOnAck, AcceptEnd, accepted,
             EnableTimeout, closeWith, EndWith, CloseInv, Closing, Returned,
             ReleaseInv, ClosePCs
      <3> QED BY Zenon, <3>1, <3>2
    <2> QED BY Zenon, <2>1, <2>2 DEF IInv
  <1>18. CASE WaitSubscribe
    <2>1. TypeOK'
      <3>1. retErr' \in BOOLEAN /\ infoError' \in BOOLEAN
        BY Zenon, <1>18, CloseFlags, MediaTimeoutFlags DEF WaitSubscribe, TypeOK, CallTypeOK
      <3>2. endCall' \in BOOLEAN
        BY Zenon, <1>18 DEF WaitSubscribe, TypeOK, CallTypeOK
      <3>3. Placed
        BY Zenon DEF TypeOK, CallTypeOK, Placed
      <3>4. Placed'
        BY Zenon, <1>18, <3>3, ExitPlaced, HandlerPlaced DEF WaitSubscribe,
             closeWith, closeWithReason, Terms, HandlerPCs
      <3>5. SipTypeOK'
        BY Zenon, <1>18, SipKept DEF WaitSubscribe, TypeOK
      <3>6. CallTypeOK'
        BY Zenon, <1>18, <3>1, <3>2, <3>4, WaitTyped DEF WaitSubscribe, TypeOK
      <3> QED BY Zenon, <3>5, <3>6 DEF TypeOK
    <2>2. LegInv' /\ LockInv' /\ AnswerInv' /\ CloseInv' /\ ReleaseInv'
      <3>1. LegInv' /\ LockInv' /\ AnswerInv'
        BY Zenon, <1>18, <1>pc DEF WaitSubscribe, closeWith, closeWithReason,
             EndWith, LegInv, LockInv, ClosePCs, Returned, AnswerInv
      <3>2. CloseInv' /\ ReleaseInv'
        BY ZenonT(30), <1>18, <1>pc DEF WaitSubscribe, closeWith, closeWithReason,
             EndWith, CloseInv, Closing, Returned, ReleaseInv, ClosePCs
      <3> QED BY Zenon, <3>1, <3>2
    <2> QED BY Zenon, <2>1, <2>2 DEF IInv
  <1>19. CASE WaitMedia
    <2>1. TypeOK'
      <3>1. retErr' \in BOOLEAN /\ infoError' \in BOOLEAN
        BY Zenon, <1>19, CloseFlags, MediaTimeoutFlags DEF WaitMedia, TypeOK, CallTypeOK
      <3>2. endCall' \in BOOLEAN
        BY Zenon, <1>19 DEF WaitMedia, TypeOK, CallTypeOK
      <3>3. Placed
        BY Zenon DEF TypeOK, CallTypeOK, Placed
      <3>4. Placed'
        BY Zenon, <1>19, <3>3, ExitPlaced, HandlerPlaced DEF WaitMedia,
             closeWith, closeWithReason, mediaTimeout, Terms, HandlerPCs
      <3>5. SipTypeOK'
        BY Zenon, <1>19, SipKept DEF WaitMedia, TypeOK
      <3>6. CallTypeOK'
        BY Zenon, <1>19, <3>1, <3>2, <3>4, WaitTyped DEF WaitMedia, TypeOK
      <3> QED BY Zenon, <3>5, <3>6 DEF TypeOK
    <2>2. LegInv' /\ LockInv' /\ AnswerInv' /\ CloseInv' /\ ReleaseInv'
      <3>1. LegInv' /\ LockInv' /\ AnswerInv'
        BY ZenonT(30), <1>19, <1>pc DEF WaitMedia, closeWith, closeWithReason,
             mediaTimeout, EndWith, LegInv, LockInv, ClosePCs, Returned,
             AnswerInv
      <3>2. CloseInv' /\ ReleaseInv'
        BY ZenonT(30), <1>19, <1>pc DEF WaitMedia, closeWith, closeWithReason,
             mediaTimeout, EndWith, CloseInv, Closing, Returned, ReleaseInv,
             ClosePCs
      <3> QED BY Zenon, <3>1, <3>2
    <2> QED BY Zenon, <2>1, <2>2 DEF IInv
  <1>20. CASE PinInterrupted
    <2>1. TypeOK'
      <3>1. retErr' \in BOOLEAN /\ infoError' \in BOOLEAN
        BY Zenon, <1>20, CloseFlags, MediaTimeoutFlags DEF PinInterrupted, TypeOK, CallTypeOK
      <3>2. endCall' \in BOOLEAN
        BY Zenon, <1>20 DEF PinInterrupted, TypeOK, CallTypeOK
      <3>3. Placed
        BY Zenon DEF TypeOK, CallTypeOK, Placed
      <3>4. Placed'
        BY Zenon, <1>20, <3>3, ExitPlaced DEF PinInterrupted,
             closeWithReason, mediaTimeout, Terms
      <3>5. SipTypeOK'
        BY Zenon, <1>20, SipKept DEF PinInterrupted, TypeOK
      <3>6. CallTypeOK'
        BY Zenon, <1>20, <3>1, <3>2, <3>4, WaitTyped DEF PinInterrupted, TypeOK
      <3> QED BY Zenon, <3>5, <3>6 DEF TypeOK
    <2>2. LegInv' /\ LockInv' /\ AnswerInv' /\ CloseInv' /\ ReleaseInv'
      <3>1. LegInv' /\ LockInv' /\ AnswerInv'
        BY ZenonT(30), <1>20, <1>pc DEF PinInterrupted, closeWithReason,
             mediaTimeout, EndWith, LegInv, LockInv, ClosePCs, Returned,
             AnswerInv
      <3>2. CloseInv' /\ ReleaseInv'
        BY ZenonT(30), <1>20, <1>pc DEF PinInterrupted, closeWithReason,
             mediaTimeout, EndWith, CloseInv, Closing, Returned, ReleaseInv,
             ClosePCs
      <3> QED BY Zenon, <3>1, <3>2
    <2> QED BY Zenon, <2>1, <2>2 DEF IInv
  <1>21. CASE WaitForCallEnd
    <2>1. TypeOK'
      <3>1. retErr' \in BOOLEAN /\ infoError' \in BOOLEAN
        BY Zenon, <1>21, CloseFlags, MediaTimeoutFlags DEF WaitForCallEnd, TypeOK, CallTypeOK
      <3>2. endCall' \in BOOLEAN
        BY Zenon, <1>21 DEF WaitForCallEnd, TypeOK, CallTypeOK
      <3>3. Placed
        BY Zenon DEF TypeOK, CallTypeOK, Placed
      <3>4. Placed'
        BY Zenon, <1>21, <3>3, ExitPlaced DEF WaitForCallEnd,
             closeWith, closeWithReason, mediaTimeout, Terms
      <3>5. SipTypeOK'
        BY Zenon, <1>21, SipKept DEF WaitForCallEnd, TypeOK
      <3>6. CallTypeOK'
        BY Zenon, <1>21, <3>1, <3>2, <3>4, WaitTyped DEF WaitForCallEnd, TypeOK
      <3> QED BY Zenon, <3>5, <3>6 DEF TypeOK
    <2>2. LegInv' /\ LockInv' /\ AnswerInv' /\ CloseInv' /\ ReleaseInv'
      <3>1. LegInv' /\ LockInv' /\ AnswerInv'
        BY ZenonT(30), <1>21, <1>pc DEF WaitForCallEnd, closeWith, closeWithReason,
             mediaTimeout, EndWith, LegInv, LockInv, ClosePCs, Returned,
             AnswerInv
      <3>2. CloseInv' /\ ReleaseInv'
        BY ZenonT(30), <1>21, <1>pc DEF WaitForCallEnd, closeWith, closeWithReason,
             mediaTimeout, EndWith, CloseInv, Closing, Returned, ReleaseInv,
             ClosePCs
      <3> QED BY Zenon, <3>1, <3>2
    <2> QED BY Zenon, <2>1, <2>2 DEF IInv
  <1>22. CASE Join
    <2>1. TypeOK'
      BY <1>22, SipKept DEF Join, TypeOK, CallTypeOK, HandlerPCs, StopPCs,
           ClosePCs, Terms
    <2>2. LegInv' /\ LockInv' /\ AnswerInv' /\ CloseInv' /\ ReleaseInv'
      <3>1. LegInv' /\ LockInv' /\ AnswerInv'
        BY Zenon, <1>22, <1>pc DEF Join, LegInv, LockInv, ClosePCs, Returned,
             AnswerInv
      <3>2. CloseInv' /\ ReleaseInv'
        BY Zenon, <1>22, <1>pc DEF Join, CloseInv, Closing, Returned,
             ReleaseInv, ClosePCs
      <3> QED BY Zenon, <3>1, <3>2
    <2> QED BY Zenon, <2>1, <2>2 DEF IInv
  <1>23. CASE JoinFails
    <2>1. TypeOK'
      BY <1>23, SipKept DEF JoinFails, closeWith, EndWith, TypeOK, CallTypeOK,
           HandlerPCs, StopPCs, ClosePCs, Terms
    <2>2. LegInv' /\ LockInv' /\ AnswerInv' /\ CloseInv' /\ ReleaseInv'
      <3>1. LegInv' /\ LockInv' /\ AnswerInv'
        BY Zenon, <1>23, <1>pc DEF JoinFails, closeWith, EndWith, LegInv,
             LockInv, ClosePCs, Returned, AnswerInv
      <3>2. CloseInv' /\ ReleaseInv'
        BY Zenon, <1>23, <1>pc DEF JoinFails, closeWith, EndWith, CloseInv,
             Closing, Returned, ReleaseInv, ClosePCs
      <3> QED BY Zenon, <3>1, <3>2
    <2> QED BY Zenon, <2>1, <2>2 DEF IInv
  <1>24. CASE Connect
    <2>1. TypeOK'
      <3>1. retErr' \in BOOLEAN /\ infoError' \in BOOLEAN
        BY Zenon, <1>24, CloseFlags, MediaTimeoutFlags DEF Connect, TypeOK, CallTypeOK
      <3>2. endCall' \in BOOLEAN
        BY Zenon, <1>24 DEF Connect, TypeOK, CallTypeOK
      <3> QED BY <1>24, <3>1, <3>2, SipKept DEF Connect, closeWith, EndWith,
           TypeOK, CallTypeOK, HandlerPCs, StopPCs, ClosePCs, Terms
    <2>2. LegInv' /\ LockInv' /\ AnswerInv' /\ CloseInv' /\ ReleaseInv'
      <3>1. LegInv' /\ LockInv' /\ AnswerInv'
        BY Zenon, <1>24, <1>pc DEF Connect, closeWith, EndWith, LegInv,
             LockInv, ClosePCs, Returned, AnswerInv
      <3>2. CloseInv' /\ ReleaseInv'
        BY ZenonT(30), <1>24, <1>pc DEF Connect, closeWith, EndWith, CloseInv,
             Closing, Returned, ReleaseInv, ClosePCs
      <3> QED BY Zenon, <3>1, <3>2
    <2> QED BY Zenon, <2>1, <2>2 DEF IInv
  <1>25. CASE ConnectFails
    <2>1. TypeOK'
      BY <1>25, SipKept DEF ConnectFails, closeWith, EndWith, TypeOK,
           CallTypeOK, HandlerPCs, StopPCs, ClosePCs, Terms
    <2>2. LegInv' /\ LockInv' /\ AnswerInv' /\ CloseInv' /\ ReleaseInv'
      <3>1. LegInv' /\ LockInv' /\ AnswerInv'
        BY Zenon, <1>25, <1>pc DEF ConnectFails, closeWith, EndWith, LegInv,
             LockInv, ClosePCs, Returned, AnswerInv
      <3>2. CloseInv' /\ ReleaseInv'
        BY Zenon, <1>25, <1>pc DEF ConnectFails, closeWith, EndWith, CloseInv,
             Closing, Returned, ReleaseInv, ClosePCs
      <3> QED BY Zenon, <3>1, <3>2
    <2> QED BY Zenon, <2>1, <2>2 DEF IInv
  <1>26. CASE Publish
    <2>1. TypeOK'
      BY <1>26, SipKept DEF Publish, TypeOK, CallTypeOK, HandlerPCs, StopPCs,
           ClosePCs, Terms
    <2>2. LegInv' /\ LockInv' /\ AnswerInv' /\ CloseInv' /\ ReleaseInv'
      <3>1. LegInv' /\ LockInv' /\ AnswerInv'
        BY Zenon, <1>26, <1>pc DEF Publish, LegInv, LockInv, ClosePCs,
             Returned, AnswerInv
      <3>2. CloseInv' /\ ReleaseInv'
        BY Zenon, <1>26, <1>pc DEF Publish, CloseInv, Closing, Returned,
             ReleaseInv, ClosePCs
      <3> QED BY Zenon, <3>1, <3>2
    <2> QED BY Zenon, <2>1, <2>2 DEF IInv
  <1>27. CASE PublishFails
    <2>1. TypeOK'
      BY <1>27, SipKept DEF PublishFails, CloseRoom, closeWith, EndWith,
           TypeOK, CallTypeOK, HandlerPCs, StopPCs, ClosePCs, Terms
    <2>2. LegInv' /\ LockInv' /\ AnswerInv' /\ CloseInv' /\ ReleaseInv'
      <3>1. LegInv' /\ LockInv' /\ AnswerInv'
        BY Zenon, <1>27, <1>pc DEF PublishFails, CloseRoom, closeWith,
             EndWith, LegInv, LockInv, ClosePCs, Returned, AnswerInv
      <3>2. CloseInv' /\ ReleaseInv'
        BY Zenon, <1>27, <1>pc DEF PublishFails, CloseRoom, closeWith,
             EndWith, CloseInv, Closing, Returned, ReleaseInv, ClosePCs
      <3> QED BY Zenon, <3>1, <3>2
    <2> QED BY Zenon, <2>1, <2>2 DEF IInv
  <1>28. CASE Activate
    <2>1. TypeOK'
      BY <1>28, SipKept DEF Activate, TypeOK, CallTypeOK, HandlerPCs, StopPCs,
           ClosePCs, Terms
    <2>2. LegInv' /\ LockInv' /\ AnswerInv' /\ CloseInv' /\ ReleaseInv'
      BY ZenonT(30), <1>28, <1>pc DEF Activate, LegInv, LockInv, AnswerInv,
           CloseInv, Closing, Returned, ClosePCs, ReleaseInv
    <2> QED BY Zenon, <2>1, <2>2 DEF IInv
  <1>29. CASE Return
    <2>1. TypeOK'
      BY <1>29, SipKept DEF Return, TypeOK, CallTypeOK, HandlerPCs, StopPCs,
           ClosePCs, Terms
    <2>2. LegInv' /\ LockInv' /\ AnswerInv' /\ CloseInv' /\ ReleaseInv'
      <3>1. LegInv' /\ LockInv' /\ AnswerInv'
        BY ZenonT(30), <1>29, <1>pc DEF Return, LegInv, LockInv, ClosePCs,
             Returned, AnswerInv
      <3>2. CloseInv' /\ ReleaseInv'
        BY ZenonT(30), <1>29, <1>pc DEF Return, CloseInv, Closing, Returned,
             ReleaseInv, ClosePCs
      <3> QED BY Zenon, <3>1, <3>2
    <2> QED BY Zenon, <2>1, <2>2 DEF IInv
  <1>30. CASE Finish
    <2>1. TypeOK'
      BY <1>30, SipKept DEF Finish, TypeOK, CallTypeOK, HandlerPCs, StopPCs,
           ClosePCs, Terms
    <2>2. LegInv' /\ LockInv' /\ AnswerInv' /\ CloseInv' /\ ReleaseInv'
      <3>1. LegInv' /\ LockInv' /\ AnswerInv'
        BY Zenon, <1>30, <1>pc DEF Finish, LegInv, LockInv, ClosePCs,
             Returned, AnswerInv
      <3>2. CloseInv' /\ ReleaseInv'
        BY Zenon, <1>30, <1>pc DEF Finish, CloseInv, Closing, Returned,
             ReleaseInv, ClosePCs
      <3> QED BY Zenon, <3>1, <3>2
    <2> QED BY Zenon, <2>1, <2>2 DEF IInv
  <1> QED BY Zenon, <1>1, <1>2, <1>3, <1>4, <1>5, <1>6, <1>7, <1>8, <1>9,
       <1>10, <1>11, <1>12, <1>13, <1>14, <1>15, <1>16, <1>17, <1>18, <1>19, <1>20,
       <1>21, <1>22, <1>23, <1>24, <1>25, <1>26, <1>27, <1>28, <1>29, <1>30
       DEF Handler
==============================================================================
