-------------------------- MODULE InboundCallProofs --------------------------
(***************************************************************************)
(* The other steps of an inbound call, close() and the goroutines around   *)
(* handleInvite, keep the inductive invariant IInv of InboundCall; the     *)
(* safety properties that follow from it; and, as facts about single steps *)
(* in the states of IInv, that the leg implements the abstract dialog of   *)
(* UASDialog and that no 180 follows a final response.  The cases are laid *)
(* out as in InboundHandlerSteps.                                          *)
(***************************************************************************)
EXTENDS InboundHandlerSteps

USE SMTT(30)
USE DEF vars, sipVars, callVars, legVars, ringVars, wireVars, outcomeVars,
        closeVars, mediaVars, roomVars, serverVars, Callers, Goto

(* The steps of close(), whoever runs it. *)
LEMMA CloseStep ==
  ASSUME IInv, NEW p \in Callers, Close(p)
  PROVE  IInv'
  <1> TypeOK /\ LegInv /\ LockInv /\ AnswerInv /\ CloseInv /\ ReleaseInv
    BY Zenon DEF IInv
  <1>pc. /\ pc \in [Callers -> HandlerPCs \cup StopPCs]
         /\ end \in [Callers -> Terms]
         /\ sessionEnds \in Nat
    BY Zenon, Pcs
  <1>1. CASE CloseFirst(p)
    <2>1. TypeOK'
      BY <1>1, SipKept DEF CloseFirst, TypeOK, CallTypeOK, HandlerPCs,
           StopPCs, ClosePCs, Terms
    <2>2. LegInv' /\ LockInv' /\ AnswerInv' /\ CloseInv' /\ ReleaseInv'
      <3>1. LegInv' /\ LockInv' /\ AnswerInv'
        BY ZenonT(30), <1>1, <1>pc DEF CloseFirst, LegInv, LockInv, ClosePCs,
             Returned, AnswerInv
      <3>2. CloseInv' /\ ReleaseInv'
        BY <1>1, <1>pc DEF CloseFirst, CloseInv, Closing, Returned,
             ReleaseInv, ClosePCs
      <3> QED BY Zenon, <3>1, <3>2
    <2> QED BY Zenon, <2>1, <2>2 DEF IInv
  <1>2. CASE CloseAgain(p)
    <2>1. TypeOK'
      BY <1>2, SipKept DEF CloseAgain, AfterClose, TypeOK, CallTypeOK,
           HandlerPCs, StopPCs, ClosePCs, Terms
    <2>2. LegInv' /\ LockInv' /\ AnswerInv' /\ CloseInv' /\ ReleaseInv'
      <3>1. LegInv' /\ LockInv' /\ AnswerInv'
        BY Zenon, <1>2, <1>pc DEF CloseAgain, AfterClose, LegInv, LockInv,
             ClosePCs, Returned, AnswerInv
      <3>2. CloseInv' /\ ReleaseInv'
        BY ZenonT(30), <1>2, <1>pc DEF CloseAgain, AfterClose, CloseInv, Closing,
             Returned, ReleaseInv, ClosePCs
      <3> QED BY Zenon, <3>1, <3>2
    <2> QED BY Zenon, <2>1, <2>2 DEF IInv
  <1>3. CASE CloseWithStatus(p)
    <2>1. TypeOK'
      <3>1. CASE sendBye(p) /\ Goto(p, "bye")
        BY <1>3, <3>1, DropFlags DEF CloseWithStatus, sendBye, TypeOK,
             SipTypeOK, CallTypeOK, Finals, HandlerPCs, StopPCs, ClosePCs,
             Terms
      <3>2. CASE sendStatus(ResultOf(end[p])) /\ Goto(p, "release")
        BY <1>3, <3>2, DropFlags DEF CloseWithStatus, sendStatus, SendFinal,
             ResultOf, TypeOK, SipTypeOK, CallTypeOK, Finals, HandlerPCs,
             StopPCs, ClosePCs, Terms
      <3>3. CASE closeDropped /\ Goto(p, "release")
        BY <1>3, <3>3, DropFlags DEF CloseWithStatus, closeDropped, Drop,
             TypeOK, SipTypeOK, CallTypeOK, Finals, HandlerPCs, StopPCs,
             ClosePCs, Terms
      <3> QED BY Zenon, <1>3, <3>1, <3>2, <3>3 DEF CloseWithStatus
    <2>2. LegInv'
      BY <1>3, <1>pc DEF CloseWithStatus, sendBye, sendStatus, closeDropped,
           SendFinal, ResultOf, Drop, drop, stopRinging, LegInv, LockInv
    <2>3. LockInv'
      BY <1>3, <1>pc DEF CloseWithStatus, sendBye, sendStatus, closeDropped,
           SendFinal, ResultOf, Drop, drop, stopRinging, LegInv, LockInv,
           ClosePCs, Returned
    <2>4. AnswerInv'
      BY ZenonT(30), <1>3, <1>pc DEF CloseWithStatus, sendBye, sendStatus,
           closeDropped, SendFinal, ResultOf, Drop, drop, stopRinging, LegInv,
           AnswerInv
    <2>5. CloseInv' /\ ReleaseInv'
      BY ZenonT(30), <1>3, <1>pc DEF CloseWithStatus, sendBye, sendStatus,
           closeDropped, SendFinal, ResultOf, Drop, drop, stopRinging, LegInv,
           CloseInv, ReleaseInv, Closing, Returned, ClosePCs
    <2> QED BY Zenon, <2>1, <2>2, <2>3, <2>4, <2>5 DEF IInv
  <1>4. CASE ByeDone(p)
    <2>1. TypeOK'
      BY <1>4 DEF ByeDone, byeDone, TypeOK, SipTypeOK, CallTypeOK, Finals,
           HandlerPCs, StopPCs, ClosePCs, Terms
    <2>2. LegInv' /\ LockInv' /\ AnswerInv' /\ CloseInv' /\ ReleaseInv'
      <3>1. LegInv' /\ LockInv' /\ AnswerInv'
        BY ZenonT(30), <1>4, <1>pc DEF ByeDone, byeDone, LegInv, LockInv, ClosePCs,
             Returned, AnswerInv, CloseInv, Closing, ReleaseInv
      <3>2. CloseInv' /\ ReleaseInv'
        BY ZenonT(30), <1>4, <1>pc DEF ByeDone, byeDone, CloseInv, Closing,
             Returned, ReleaseInv, ClosePCs
      <3> QED BY Zenon, <3>1, <3>2
    <2> QED BY Zenon, <2>1, <2>2 DEF IInv
  <1>5. CASE closeMedia(p)
    <2>1. TypeOK'
      BY <1>5, SipKept DEF closeMedia, CloseRoom, TypeOK, CallTypeOK,
           HandlerPCs, StopPCs, ClosePCs, Terms
    <2>2. LegInv' /\ LockInv' /\ AnswerInv' /\ CloseInv' /\ ReleaseInv'
      <3>1. LegInv' /\ LockInv' /\ AnswerInv'
        BY ZenonT(30), <1>5, <1>pc DEF closeMedia, CloseRoom, LegInv, LockInv,
             ClosePCs, Returned, AnswerInv
      <3>2. CloseInv' /\ ReleaseInv'
        BY ZenonT(30), <1>5, <1>pc DEF closeMedia, CloseRoom, CloseInv, Closing,
             Returned, ReleaseInv, ClosePCs
      <3> QED BY Zenon, <3>1, <3>2
    <2> QED BY Zenon, <2>1, <2>2 DEF IInv
  <1>6. CASE Unregister(p)
    <2>1. TypeOK'
      <3>1. registered' \in BOOLEAN /\ topic' \in BOOLEAN
        BY Zenon, <1>6 DEF Unregister
      <3> QED BY <1>6, <3>1, SipKept DEF Unregister, TypeOK, CallTypeOK,
           HandlerPCs, StopPCs, ClosePCs, Terms
    <2>2. LegInv' /\ LockInv' /\ AnswerInv' /\ CloseInv' /\ ReleaseInv'
      <3>1. LegInv' /\ LockInv' /\ AnswerInv'
        BY ZenonT(30), <1>6, <1>pc DEF Unregister, LegInv, LockInv, ClosePCs,
             Returned, AnswerInv
      <3>2. CloseInv' /\ ReleaseInv'
        BY <1>6, <1>pc DEF Unregister, CloseInv, Closing, Returned,
             ReleaseInv, ClosePCs
      <3> QED BY Zenon, <3>1, <3>2
    <2> QED BY Zenon, <2>1, <2>2 DEF IInv
  <1>7. CASE CancelCtx(p)
    <2>1. TypeOK'
      BY <1>7, SipKept DEF CancelCtx, AfterClose, TypeOK, CallTypeOK,
           HandlerPCs, StopPCs, ClosePCs, Terms
    <2>2. LegInv' /\ LockInv' /\ AnswerInv' /\ CloseInv' /\ ReleaseInv'
      <3>1. LegInv' /\ LockInv' /\ AnswerInv'
        BY Zenon, <1>7, <1>pc DEF CancelCtx, AfterClose, LegInv, LockInv,
             ClosePCs, Returned, AnswerInv
      <3>2. CloseInv' /\ ReleaseInv'
        BY ZenonT(30), <1>7, <1>pc DEF CancelCtx, AfterClose, CloseInv, Closing,
             Returned, ReleaseInv, ClosePCs
      <3> QED BY Zenon, <3>1, <3>2
    <2> QED BY Zenon, <2>1, <2>2 DEF IInv
  <1> QED BY Zenon, <1>1, <1>2, <1>3, <1>4, <1>5, <1>6, <1>7 DEF Close

(* What the parts of the invariant other than TypeOK read.                 *)
readVars == <<invite, inviteTx, inviteOk, final, finals, txFailed, mu, pc, conf,
              pinPrompt, byeSent, byeReq, terms, term, done, closer, end,
              sessionEnds, roomClosed, room, media, topic, registered>>

(* A step that changes none of these keeps those parts.                    *)
LEMMA Frame ==
  ASSUME LegInv, LockInv, AnswerInv, CloseInv, ReleaseInv, UNCHANGED readVars
  PROVE  LegInv' /\ LockInv' /\ AnswerInv' /\ CloseInv' /\ ReleaseInv'
  <1>1. LegInv' /\ LockInv' /\ AnswerInv'
    BY Zenon DEF LegInv, LockInv, AnswerInv, readVars
  <1>2. CloseInv' /\ ReleaseInv'
    BY Zenon DEF CloseInv, ReleaseInv, readVars
  <1> QED BY Zenon, <1>1, <1>2

(* The ringing goroutine. *)
LEMMA RingerStep ==
  ASSUME IInv, Ringer
  PROVE  IInv'
  <1> TypeOK /\ LegInv /\ LockInv /\ AnswerInv /\ CloseInv /\ ReleaseInv
    BY Zenon DEF IInv
  <1>pc. /\ pc \in [Callers -> HandlerPCs \cup StopPCs]
         /\ end \in [Callers -> Terms]
         /\ sessionEnds \in Nat
    BY Zenon, Pcs
  <1>1. CASE RingStop /\ UNCHANGED callVars
    <2>1. TypeOK'
      BY <1>1, CallKept DEF RingStop, TypeOK, SipTypeOK
    <2>2. LegInv' /\ LockInv' /\ AnswerInv' /\ CloseInv' /\ ReleaseInv'
      BY Zenon, <1>1, Frame DEF RingStop, readVars
    <2> QED BY Zenon, <2>1, <2>2 DEF IInv
  <1>2. CASE RingCancel /\ UNCHANGED callVars
    <2>1. TypeOK'
      <3>1. cancelReq' \in BOOLEAN
        BY Zenon, <1>2 DEF RingCancel
      <3> QED BY <1>2, <3>1, CallKept DEF RingCancel, TypeOK, SipTypeOK
    <2>2. LegInv' /\ LockInv' /\ AnswerInv' /\ CloseInv' /\ ReleaseInv'
      BY Zenon, <1>2, Frame DEF RingCancel, readVars
    <2> QED BY Zenon, <2>1, <2>2 DEF IInv
  <1>3. CASE RingTick /\ UNCHANGED callVars
    <2>1. TypeOK'
      BY <1>3, CallKept DEF RingTick, TypeOK, SipTypeOK
    <2>2. LegInv' /\ LockInv' /\ AnswerInv' /\ CloseInv' /\ ReleaseInv'
      BY Zenon, <1>3, Frame DEF RingTick, readVars
    <2> QED BY Zenon, <2>1, <2>2 DEF IInv
  <1>4. CASE RingAgain /\ UNCHANGED callVars
    <2>1. TypeOK'
      BY <1>4, CallKept DEF RingAgain, sendRinging, TypeOK, SipTypeOK
    <2>2. LegInv' /\ LockInv' /\ AnswerInv' /\ CloseInv' /\ ReleaseInv'
      BY Zenon, <1>4, Frame DEF RingAgain, sendRinging, readVars
    <2> QED BY Zenon, <2>1, <2>2 DEF IInv
  <1> QED BY Zenon, <1>1, <1>2, <1>3, <1>4 DEF Ringer

(* The BYE handler. *)
LEMMA ByeStep ==
  ASSUME IInv, ByeDrop \/ Bye
  PROVE  IInv'
  <1> TypeOK /\ LegInv /\ LockInv /\ AnswerInv /\ CloseInv /\ ReleaseInv
    BY Zenon DEF IInv
  <1>pc. /\ pc \in [Callers -> HandlerPCs \cup StopPCs]
         /\ end \in [Callers -> Terms]
         /\ sessionEnds \in Nat
    BY Zenon, Pcs
  <1>1. CASE ByeDrop
    <2>1. TypeOK'
      BY <1>1, DropFlags DEF ByeDrop, AcceptBye, Drop, TypeOK, SipTypeOK,
           CallTypeOK
    <2>2. LegInv' /\ LockInv' /\ AnswerInv'
      BY Zenon, <1>1, <1>pc DEF ByeDrop, AcceptBye, Drop, drop, stopRinging,
           LegInv, LockInv, AnswerInv
    <2>3. CloseInv' /\ ReleaseInv'
      BY ZenonT(30), <1>1, <1>pc DEF ByeDrop, AcceptBye, Drop, drop, stopRinging,
           CloseInv, ReleaseInv
    <2> QED BY Zenon, <2>1, <2>2, <2>3 DEF IInv
  <1>2. CASE Bye
    <2>1. TypeOK'
      BY <1>2, SipKept DEF Bye, TypeOK, CallTypeOK
    <2>2. LegInv' /\ LockInv' /\ AnswerInv'
      BY Zenon, <1>2, <1>pc DEF Bye, LegInv, LockInv, AnswerInv
    <2>3. CloseInv' /\ ReleaseInv'
      BY ZenonT(30), <1>2, <1>pc DEF Bye, CloseInv, ReleaseInv
    <2> QED BY Zenon, <2>1, <2>2, <2>3 DEF IInv
  <1> QED BY Zenon, <1>1, <1>2

(* Everything that comes from outside the call. *)
LEMMA EnvironmentStep ==
  ASSUME IInv, Environment
  PROVE  IInv'
  <1> TypeOK /\ LegInv /\ LockInv /\ AnswerInv /\ CloseInv /\ ReleaseInv
    BY Zenon DEF IInv
  <1>pc. /\ pc \in [Callers -> HandlerPCs \cup StopPCs]
         /\ end \in [Callers -> Terms]
         /\ sessionEnds \in Nat
    BY Zenon, Pcs
  <1>1. CASE PinEntered
    <2>1. TypeOK'
      <3>1. retErr' \in BOOLEAN /\ infoError' \in BOOLEAN
        BY Zenon, <1>1, CloseFlags, MediaTimeoutFlags DEF PinEntered, TypeOK, CallTypeOK
      <3>2. endCall' \in BOOLEAN
        BY Zenon, <1>1 DEF PinEntered, TypeOK, CallTypeOK
      <3> QED BY <1>1, <3>1, <3>2, SipKept DEF PinEntered, closeWith, EndWith,
           TypeOK, CallTypeOK, HandlerPCs, StopPCs, ClosePCs, Terms
    <2>2. LegInv' /\ LockInv' /\ AnswerInv'
      BY ZenonT(30), <1>1, <1>pc DEF PinEntered, closeWith, EndWith, LegInv,
           LockInv, AnswerInv, Returned, ClosePCs
    <2>3. CloseInv' /\ ReleaseInv'
      BY ZenonT(30), <1>1, <1>pc DEF PinEntered, closeWith, EndWith, CloseInv,
           Closing, Returned, ClosePCs, ReleaseInv
    <2> QED BY Zenon, <2>1, <2>2, <2>3 DEF IInv
  <1>2. CASE RecvBye
    <2>1. TypeOK'
      BY <1>2, SipKept DEF RecvBye, TypeOK, CallTypeOK
    <2>2. LegInv' /\ LockInv' /\ AnswerInv'
      BY Zenon, <1>2, <1>pc DEF RecvBye, LegInv, LockInv, AnswerInv
    <2>3. CloseInv' /\ ReleaseInv'
      BY Zenon, <1>2, <1>pc DEF RecvBye, CloseInv, ReleaseInv
    <2> QED BY Zenon, <2>1, <2>2, <2>3 DEF IInv
  <1>3. CASE Stop
    <2>1. TypeOK'
      <3>1. registered' \in BOOLEAN
        BY Zenon, <1>3 DEF Stop
      <3> QED BY <1>3, <3>1, SipKept DEF Stop, TypeOK, CallTypeOK, HandlerPCs,
           StopPCs, ClosePCs, Terms
    <2>2. LegInv' /\ LockInv' /\ AnswerInv'
      BY Zenon, <1>3, <1>pc DEF Stop, LegInv, LockInv, AnswerInv, Returned,
           ClosePCs
    <2>3. CloseInv' /\ ReleaseInv'
      BY Zenon, <1>3, <1>pc DEF Stop, CloseInv, Closing, Returned, ClosePCs,
           ReleaseInv
    <2> QED BY Zenon, <2>1, <2>2, <2>3 DEF IInv
  <1>4. CASE RecvAck
    <2>1. TypeOK'
      BY <1>4, CallKept DEF RecvAck, AcceptAck, TypeOK, SipTypeOK
    <2>2. LegInv' /\ LockInv' /\ AnswerInv' /\ CloseInv' /\ ReleaseInv'
      BY Zenon, <1>4, Frame DEF RecvAck, AcceptAck, readVars
    <2> QED BY Zenon, <2>1, <2>2 DEF IInv
  <1>5. CASE Cancel
    <2>1. TypeOK'
      BY <1>5, CallKept DEF Cancel, RecvCancel, TypeOK, SipTypeOK
    <2>2. LegInv' /\ LockInv' /\ AnswerInv' /\ CloseInv' /\ ReleaseInv'
      BY Zenon, <1>5, Frame DEF Cancel, RecvCancel, readVars
    <2> QED BY Zenon, <2>1, <2>2 DEF IInv
  <1>6. CASE MediaTimesOut
    <2>1. TypeOK'
      BY <1>6, SipKept DEF MediaTimesOut, TypeOK, CallTypeOK
    <2>2. LegInv' /\ LockInv' /\ AnswerInv' /\ CloseInv' /\ ReleaseInv'
      BY Zenon, <1>6, Frame DEF MediaTimesOut, readVars
    <2> QED BY Zenon, <2>1, <2>2 DEF IInv
  <1>7. CASE RoomDisconnects
    <2>1. TypeOK'
      BY <1>7, SipKept DEF RoomDisconnects, TypeOK, CallTypeOK
    <2>2. LegInv' /\ LockInv' /\ AnswerInv'
      BY ZenonT(30), <1>7, <1>pc DEF RoomDisconnects, LegInv, LockInv, AnswerInv
    <2>3. CloseInv' /\ ReleaseInv'
      BY Zenon, <1>7, <1>pc DEF RoomDisconnects, CloseInv, ReleaseInv
    <2> QED BY Zenon, <2>1, <2>2, <2>3 DEF IInv
  <1>8. CASE EndCall
    <2>1. TypeOK'
      BY <1>8, SipKept DEF EndCall, TypeOK, CallTypeOK
    <2>2. LegInv' /\ LockInv' /\ AnswerInv' /\ CloseInv' /\ ReleaseInv'
      BY Zenon, <1>8, Frame DEF EndCall, readVars
    <2> QED BY Zenon, <2>1, <2>2 DEF IInv
  <1>9. CASE TransferHangup
    <2>1. TypeOK'
      BY <1>9, SipKept DEF TransferHangup, TypeOK, CallTypeOK
    <2>2. LegInv' /\ LockInv' /\ AnswerInv' /\ CloseInv' /\ ReleaseInv'
      BY Zenon, <1>9, Frame DEF TransferHangup, readVars
    <2> QED BY Zenon, <2>1, <2>2 DEF IInv
  <1> QED BY Zenon, <1>1, <1>2, <1>3, <1>4, <1>5, <1>6, <1>7, <1>8, <1>9 DEF
       Environment

(* A step that changes nothing keeps it.                                   *)
LEMMA StutterStep ==
  ASSUME IInv, UNCHANGED vars
  PROVE  IInv'
  <1> TypeOK /\ LegInv /\ LockInv /\ AnswerInv /\ CloseInv /\ ReleaseInv
    BY Zenon DEF IInv
  <1>1. TypeOK'
    BY SipKept DEF TypeOK, CallTypeOK
  <1>2. LegInv' /\ LockInv' /\ AnswerInv' /\ CloseInv' /\ ReleaseInv'
    BY Zenon, Frame DEF readVars
  <1> QED BY Zenon, <1>1, <1>2 DEF IInv

(* Every reachable state of an inbound call, under any interleaving of its *)
(* handler, its ringing goroutine, a BYE and Server.Stop, satisfies the    *)
(* inductive invariant.                                                    *)
THEOREM Invariance == Spec => []IInv
  <1>1. IInv /\ [Next]_vars => IInv'
    BY Zenon, HandlerStep, CloseStep, RingerStep, ByeStep, EnvironmentStep,
         StutterStep DEF Next, Terminated
  <1> QED BY <1>1, IInvInit, PTL DEF Spec
-----------------------------------------------------------------------------
(* Type correctness of the leg and of the call.                            *)
THEOREM TypeCorrect == Spec => []TypeOK
  <1>1. IInv => TypeOK
    BY Zenon DEF IInv
  <1> QED BY <1>1, Invariance, PTL

(* The INVITE never gets two final responses, although respond, Accept and *)
(* sendStatus are reached from the handler and from Server.Stop.           *)
THEOREM OneFinalHolds == Spec => []OneFinal
  <1>1. IInv => OneFinal
    BY DEF IInv, LegInv, OneFinal
  <1> QED BY <1>1, Invariance, PTL

(* However Server.Stop and the handler race for close(), one termination   *)
(* is reported and at most one OnSessionEnd is started.                    *)
THEOREM OneTerminationHolds == Spec => []OneTermination
  <1>1. IInv => OneTermination
    BY DEF IInv, CloseInv, OneTermination
  <1> QED BY <1>1, Invariance, PTL

(* handleInvite's deferred closeWithTerm("other") never names the end.     *)
THEOREM NoUnexplainedEndHolds == Spec => []NoUnexplainedEnd
  <1>1. IInv => NoUnexplainedEnd
    BY Zenon DEF IInv, CloseInv, NoUnexplainedEnd
  <1> QED BY <1>1, Invariance, PTL

(* An answered call is ended with a BYE, sent or received, unless the      *)
(* transport failed: close() drops the leg of a call that won c.done, and  *)
(* an answered leg is dropped only with a BYE.                             *)
THEOREM AnsweredEndsWithByeHolds == Spec => []AnsweredEndsWithBye
  <1>1. IInv => AnsweredEndsWithBye
    <2> SUFFICES ASSUME IInv, final = "ok", pc["handler"] = "done",
                        pc["stop"] \in {"idle", "done"}
                 PROVE  byeSent \/ byeReq # "none" \/ txFailed
      BY Zenon DEF AnsweredEndsWithBye
    <2>1. done /\ closer \in Callers
      BY Zenon DEF IInv, CloseInv, Returned, TypeOK, CallTypeOK
    <2>2. ~invite
      BY Zenon, <2>1 DEF IInv, CloseInv, Closing
    <2> QED BY Zenon, <2>2 DEF IInv, AnswerInv
  <1> QED BY <1>1, Invariance, PTL

(* A call closed by its own handler leaves no port, session, topic or      *)
(* byLocalTag entry behind.                                                *)
THEOREM ReleasedByHandlerHolds == Spec => []ReleasedByHandler
  <1>1. IInv => ReleasedByHandler
    BY Zenon DEF IInv, ReleaseInv, ReleasedByHandler, Returned
  <1> QED BY <1>1, Invariance, PTL
-----------------------------------------------------------------------------
(* The variables the refinement mapping reads.                             *)
legView == <<invite, final, byeSent, byeReq, txFailed>>

(* A step that changes none of them stutters in the dialog.                *)
LEMMA Stutter ==
  ASSUME UNCHANGED legView
  PROVE  UNCHANGED Abstract!dialogVars
  BY Zenon DEF legView, Abstract!dialogVars, Phase

(* Letting go of the transaction of a call that was not answered, of an    *)
(* answered call whose BYE is here, or of a dead transaction.              *)
LEMMA DropStep ==
  ASSUME IInv, drop, UNCHANGED <<final, byeSent, byeReq, txFailed>>,
         final = "ok" => byeReq # "none" \/ txFailed \/ ~invite
  PROVE  [Abstract!DialogNext]_Abstract!dialogVars
  <1>1. CASE ~invite
    <2>1. ~invite'
      BY Zenon DEF drop
    <2> QED BY Zenon, <1>1, <2>1 DEF Phase, Abstract!dialogVars
  <1>2. CASE invite /\ final = "ok"
    <2>1. Abstract!Leave
      BY Zenon, <1>2 DEF drop, Phase, Abstract!Leave
    <2> QED BY Zenon, <2>1 DEF Abstract!DialogNext
  <1>3. CASE invite /\ final # "ok"
    <2>1. Abstract!Abandon
      BY Zenon, <1>3 DEF drop, Phase, Abstract!Abandon
    <2> QED BY Zenon, <2>1 DEF Abstract!DialogNext
  <1> QED BY Zenon, <1>1, <1>2, <1>3

(* A final response to an INVITE whose transaction the call still holds,   *)
(* by respond or sendStatus: a rejection, or nothing on a dead one.        *)
LEMMA RejectStep ==
  ASSUME IInv, NEW code \in {"error", "terminated"}, mu = "free", inviteTx,
         SendFinal(code), drop, UNCHANGED <<byeSent, byeReq, txFailed>>
  PROVE  [Abstract!DialogNext]_Abstract!dialogVars
  <1>1. CASE txFailed
    BY Zenon, <1>1, DropStep DEF SendFinal
  <1>2. CASE ~txFailed
    <2>1. final = "none" /\ invite
      BY Zenon, <1>2 DEF IInv, LegInv
    <2>2. Abstract!Reject
      BY Zenon, <1>2, <2>1 DEF SendFinal, drop, Phase, Abstract!Reject,
           Abstract!Rejections
    <2> QED BY Zenon, <2>2 DEF Abstract!DialogNext
  <1> QED BY Zenon, <1>1, <1>2

(* The first 200 confirms the dialog; repeating it stutters.               *)
LEMMA AnswerStep ==
  ASSUME IInv, inviteTx, final' = "ok", final \in {"none", "ok"},
         UNCHANGED <<invite, byeSent, byeReq, txFailed>>
  PROVE  [Abstract!DialogNext]_Abstract!dialogVars
  <1>1. invite
    BY Zenon DEF IInv, LegInv
  <1>2. CASE final = "ok"
    BY Zenon, <1>2, Stutter DEF legView
  <1>3. CASE final = "none"
    <2>1. Abstract!Answer
      BY Zenon, <1>1, <1>3 DEF Phase, Abstract!Answer
    <2> QED BY Zenon, <2>1 DEF Abstract!DialogNext
  <1> QED BY Zenon, <1>2, <1>3

(* Of the steps of the handler, those that send a response to the INVITE   *)
(* or drop the leg.                                                        *)
LEMMA HandlerDialog ==
  ASSUME IInv, Handler
  PROVE  [Abstract!DialogNext]_Abstract!dialogVars
  <1>1. CASE Refuse
    <2>1. CASE inviteTx
      BY Zenon, <1>1, <2>1, RejectStep DEF Refuse, RespondAndDrop
    <2>2. CASE ~inviteTx
      <3>1. final # "ok"
        BY Zenon, <1>1 DEF Refuse, IInv, AnswerInv
      <3> QED BY Zenon, <1>1, <2>2, <3>1, DropStep DEF Refuse, RespondAndDrop
    <2> QED BY Zenon, <2>1, <2>2
  <1>2. CASE DropFlood
    <2>1. final # "ok"
      BY Zenon, <1>2 DEF DropFlood, IInv, AnswerInv
    <2> QED BY Zenon, <1>2, <2>1, DropStep DEF DropFlood, Drop
  <1>3. CASE SendOk
    <2>1. inviteTx /\ final \in {"none", "ok"}
      BY Zenon, <1>3 DEF SendOk, IInv, LegInv, LockInv
    <2>2. final' = "ok"
      BY Zenon, <1>3, <2>1 DEF SendOk, AcceptSend, SendFinal
    <2> QED BY Zenon, <1>3, <2>1, <2>2, AnswerStep DEF SendOk, AcceptSend
  <1>4. CASE SendOkReliable
    <2>1. inviteTx /\ final = "none"
      BY Zenon, <1>4 DEF SendOkReliable, AcceptSendOnce, IInv, LockInv
    <2>2. final' = "ok"
      BY Zenon, <1>4, <2>1 DEF SendOkReliable, AcceptSendOnce, SendFinal
    <2> QED BY Zenon, <1>4, <2>1, <2>2, AnswerStep DEF SendOkReliable,
         AcceptSendOnce
  <1>5. CASE SendOkFails
    <2>1. invite /\ ~txFailed
      BY Zenon, <1>5 DEF SendOkFails, IInv, LegInv, LockInv
    <2>2. Abstract!TransportFailure
      BY Zenon, <1>5, <2>1 DEF SendOkFails, AcceptSendFails, Phase,
           Abstract!TransportFailure
    <2> QED BY Zenon, <2>2 DEF Abstract!DialogNext
  <1>6. CASE Ring \/ Accept \/ AckArrives \/ GiveUpOnAck
    <2>1. UNCHANGED legView
      BY <1>6, ZenonT(60) DEF Ring, StartRinging, Accept, AcceptBegin, AckArrives, GiveUpOnAck,
                  AcceptEnd, accepted, legView
    <2> QED BY Zenon, <2>1, Stutter
  <1>7. CASE \/ RingPanics \/ DispatchAccept \/ DispatchReject \/ DispatchDrop
             \/ RunMedia \/ RunMediaFails \/ AcceptTooLate \/ RetryOk
             \/ WaitSubscribe \/ WaitMedia \/ PinInterrupted \/ WaitForCallEnd
    <2>1. UNCHANGED legView
      BY <1>7, ZenonT(60) DEF RingPanics, DispatchAccept, DispatchReject, DispatchDrop, RunMedia,
                  RunMediaFails, AcceptTooLate, RetryOk, WaitSubscribe, WaitMedia,
                  PinInterrupted, WaitForCallEnd, legView
    <2> QED BY Zenon, <2>1, Stutter
  <1>8. CASE \/ Join \/ JoinFails \/ Connect \/ ConnectFails \/ Publish
             \/ PublishFails \/ Activate \/ Return \/ Finish
    <2>1. UNCHANGED legView
      BY <1>8, ZenonT(60) DEF Join, JoinFails, Connect, ConnectFails, Publish, PublishFails,
                  Activate, Return, Finish, legView
    <2> QED BY Zenon, <2>1, Stutter
  <1> QED BY Zenon, <1>1, <1>2, <1>3, <1>4, <1>5, <1>6, <1>7, <1>8 DEF Handler

(* Of the steps of close(), CloseWithStatus.                               *)
LEMMA CloseDialog ==
  ASSUME IInv, NEW p \in Callers, Close(p)
  PROVE  [Abstract!DialogNext]_Abstract!dialogVars
  <1>1. CASE CloseWithStatus(p)
    <2>1. CASE sendBye(p)
      <3>1. Abstract!HangUp
        BY Zenon, <1>1, <2>1 DEF CloseWithStatus, sendBye, drop, Phase, IInv,
             LegInv, Abstract!HangUp
      <3> QED BY Zenon, <3>1 DEF Abstract!DialogNext
    <2>2. CASE sendStatus(ResultOf(end[p]))
      <3>1. ResultOf(end[p]) \in {"error", "terminated"}
        BY Zenon DEF ResultOf
      <3> QED BY Zenon, <1>1, <2>2, <3>1, RejectStep DEF CloseWithStatus,
           sendStatus
    <2>3. CASE closeDropped
      <3>1. ~invite
        BY Zenon, <2>3 DEF closeDropped, IInv, LegInv
      <3> QED BY Zenon, <1>1, <2>3, <3>1, DropStep DEF CloseWithStatus,
           closeDropped, Drop
    <2> QED BY Zenon, <1>1, <2>1, <2>2, <2>3 DEF CloseWithStatus
  <1>2. CASE \/ CloseFirst(p) \/ CloseAgain(p) \/ ByeDone(p) \/ closeMedia(p)
             \/ Unregister(p) \/ CancelCtx(p)
    <2>1. UNCHANGED legView
      BY <1>2, ZenonT(60) DEF CloseFirst, CloseAgain, ByeDone, byeDone, closeMedia,
                  Unregister, CancelCtx, legView
    <2> QED BY Zenon, <2>1, Stutter
  <1> QED BY Zenon, <1>1, <1>2 DEF Close

(* A BYE of the caller is answered at once and drops the leg later, under  *)
(* c.mu.                                                                   *)
LEMMA ByeDialog ==
  ASSUME IInv, RecvBye \/ ByeDrop \/ Bye
  PROVE  [Abstract!DialogNext]_Abstract!dialogVars
  <1>1. CASE RecvBye
    <2>1. Abstract!RemoteBye
      BY Zenon, <1>1 DEF RecvBye, Phase, Abstract!RemoteBye
    <2> QED BY Zenon, <2>1 DEF Abstract!DialogNext
  <1>2. CASE ByeDrop
    <2>1. CASE ~invite
      BY Zenon, <1>2, <2>1 DEF ByeDrop, AcceptBye, Drop, drop, Phase,
           Abstract!dialogVars
    <2>2. CASE invite /\ final = "ok"
      <3>1. Abstract!Leave
        BY Zenon, <1>2, <2>2 DEF ByeDrop, AcceptBye, Drop, drop, Phase,
             Abstract!Leave
      <3> QED BY Zenon, <3>1 DEF Abstract!DialogNext
    <2>3. CASE invite /\ final # "ok"
      <3>1. Abstract!Abandon
        BY Zenon, <1>2, <2>3 DEF ByeDrop, AcceptBye, Drop, drop, Phase,
             Abstract!Abandon
      <3> QED BY Zenon, <3>1 DEF Abstract!DialogNext
    <2> QED BY Zenon, <2>1, <2>2, <2>3
  <1>3. CASE Bye
    <2>1. Phase' = Phase /\ (byeReq # "none")' = (byeReq # "none")
      BY Zenon, <1>3 DEF Bye, Phase
    <2> QED BY Zenon, <1>3, <2>1 DEF Bye, Abstract!dialogVars
  <1> QED BY Zenon, <1>1, <1>2, <1>3

(* The ringing goroutine and the rest of the environment do not touch it.  *)
LEMMA OtherDialog ==
  ASSUME Ringer \/ (Environment /\ ~RecvBye) \/ UNCHANGED vars
  PROVE  [Abstract!DialogNext]_Abstract!dialogVars
  <1>1. UNCHANGED legView
    BY ZenonT(60) DEF Ringer, RingStop, RingCancel, RingTick, RingAgain, Environment, PinEntered,
           Stop, RecvAck, AcceptAck, Cancel, RecvCancel, MediaTimesOut,
           RoomDisconnects, EndCall, TransferHangup, legView
  <1> QED BY Zenon, <1>1, Stutter

(* The leg of every inbound call behaves as the abstract dialog: answered  *)
(* at most once, and once answered left only by a BYE, unless the          *)
(* transport failed.                                                       *)
THEOREM DialogRefined == Spec => ImplementsDialog
  <1>1. Init => Abstract!DialogInit
    BY Zenon DEF Init, SipInit, Phase, Abstract!DialogInit
  <1>2. IInv /\ [Next]_vars => [Abstract!DialogNext]_Abstract!dialogVars
    BY HandlerDialog, CloseDialog, ByeDialog, OtherDialog, ZenonT(60)
       DEF Next, Environment, Terminated
  <1> QED BY <1>1, <1>2, Invariance, PTL DEF Spec, ImplementsDialog, Abstract!Dialog
-----------------------------------------------------------------------------
(* What NoRingingAfterFinal asks of one step.                              *)
RingsInTime == rings' # rings => final = "none"

(* 180s are sent by StartRinging and by the goroutine, under a free c.mu   *)
(* and with the transaction alive: LegInv then rules a final response out. *)
LEMMA RingStep ==
  ASSUME IInv, mu = "free", sendRinging
  PROVE  RingsInTime
  BY Zenon DEF IInv, LegInv, sendRinging, RingsInTime

(* No 180 follows a final response to the INVITE.                          *)
THEOREM NoRingingAfterFinalHolds == Spec => NoRingingAfterFinal
  <1>1. IInv /\ [Next]_vars => RingsInTime
    <2> SUFFICES ASSUME IInv, [Next]_vars PROVE RingsInTime
      OBVIOUS
    <2>1. CASE Ring
      BY Zenon, <2>1, RingStep DEF Ring, StartRinging
    <2>2. CASE RingAgain
      BY Zenon, <2>2, RingStep DEF RingAgain
    <2>3. CASE Handler /\ ~Ring
      BY <2>3, ZenonT(60) DEF RingsInTime, Handler, RingPanics, DispatchAccept, DispatchReject, DispatchDrop,
             Refuse, RespondAndDrop, DropFlood, Drop, RunMedia, RunMediaFails, Accept,
             AcceptBegin, AcceptTooLate, SendOk, AcceptSend, SendOkReliable,
             AcceptSendOnce, SendOkFails, AcceptSendFails, AckArrives, AcceptEnd,
             RetryOk, GiveUpOnAck, WaitSubscribe, WaitMedia, PinInterrupted,
             WaitForCallEnd, Join, JoinFails, Connect, ConnectFails, Publish,
             PublishFails, Activate, Return, Finish
    <2>4. ASSUME NEW p \in Callers, Close(p) PROVE RingsInTime
      BY <2>4, ZenonT(60) DEF RingsInTime, Close, CloseFirst, CloseAgain, CloseWithStatus, sendBye, sendStatus,
             closeDropped, Drop, ByeDone, byeDone, closeMedia, Unregister, CancelCtx
    <2>5. CASE Ringer /\ ~RingAgain
      BY <2>5, ZenonT(60) DEF RingsInTime, Ringer, RingStop, RingCancel, RingTick
    <2>6. CASE ByeDrop \/ Bye \/ Environment \/ Terminated \/ UNCHANGED vars
      BY <2>6, ZenonT(60) DEF RingsInTime, ByeDrop, AcceptBye, Drop, Bye, Environment, PinEntered, RecvBye, Stop,
             RecvAck, AcceptAck, Cancel, RecvCancel, MediaTimesOut, RoomDisconnects,
             EndCall, TransferHangup, Terminated
    <2> QED BY <2>1, <2>2, <2>3, <2>4, <2>5, <2>6, ZenonT(60) DEF Next, Ringer
  <1> QED BY <1>1, Invariance, PTL DEF Spec, NoRingingAfterFinal, RingsInTime
=============================================================================
