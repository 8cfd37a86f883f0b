------------------------- MODULE OutboundCallProofs --------------------------
(***************************************************************************)
(* The invariant of OutboundCallState holds in every reachable state of    *)
(* OutboundCall, for any number of tries and any requests that come together.*)
(* Hence its safety properties, and the dialog UACDialog promises the callee.*)
(***************************************************************************)
EXTENDS OutboundCall, OutboundCallSteps

USE SMTT(30)
USE DEF vars, sipVars, callVars, requestVars, dialVars, linkVars, tableVars,
        closeVars, stateVars, dialRest, At, Goto

(* The types of the state.                                                 *)
LEMMA Typed ==
  ASSUME IInv
  PROVE  SipTypeOK /\ CallTypeOK /\ pc \in [Actors -> PCs]
  BY Zenon DEF IInv, TypeOK, CallTypeOK

(* The types and StepInv are the inductive invariant.                      *)
LEMMA Whole ==
  ASSUME SipTypeOK', CallTypeOK', StepInv'
  PROVE  IInv'
  BY Zenon DEF IInv, TypeOK

(* The leg keeps its types when it does not change.                        *)
LEMMA SipKept ==
  ASSUME SipTypeOK, UNCHANGED sipVars
  PROVE  SipTypeOK'
  BY DEF SipTypeOK

(* So does the call.                                                       *)
LEMMA CallKept ==
  ASSUME CallTypeOK, UNCHANGED callVars
  PROVE  CallTypeOK'
  BY DEF CallTypeOK

(* The goroutines and the labels they move to.                             *)
LEMMA Labels ==
  /\ "dial" \in Actors /\ "rpc" \in Actors /\ "stop" \in Actors
  /\ "bye" \in Actors /\ "xfer" \in Actors
  /\ ClosePCs \subseteq PCs /\ DialPCs \subseteq PCs /\ OtherPCs \subseteq PCs
  /\ "done" \in PCs
  BY Zenon DEF Actors, PCs

(* A goroutine that moves to a label is at a label.                        *)
LEMMA Moves ==
  ASSUME NEW p \in Actors, NEW l \in PCs, pc \in [Actors -> PCs],
         pc' = [pc EXCEPT ![p] = l]
  PROVE  pc' \in [Actors -> PCs]
  BY Zenon

(* A goroutine moves and the call changes in no other way.                 *)
LEMMA MovesOnly ==
  ASSUME CallTypeOK, pc' \in [Actors -> PCs], UNCHANGED dialRest
  PROVE  CallTypeOK'
  BY DEF CallTypeOK

(* Where close() returns to.                                               *)
LEMMA AfterCloseIs ==
  /\ AfterClose("dial") = "ensureClosed"
  /\ AfterClose("stop") = "closeClient"
  /\ \A p \in Actors \ {"dial", "stop"} : AfterClose(p) = "done"
  BY Zenon DEF AfterClose

(* The flags a final response sets.                                        *)
LEMMA FinalFlags ==
  ASSUME NEW r, NEW again, responseFinal(r, again)
  PROVE  inviteOk' \in BOOLEAN /\ malformed' \in BOOLEAN
  BY DEF responseFinal

(* afterInvite takes the request for another try out of a verdict.         *)
LEMMA AfterInviteIs ==
  ASSUME NEW r, NEW b \in BOOLEAN, NEW c \in BOOLEAN, c => r = "server"
  PROVE  afterInvite([result |-> r, report |-> b, retry |-> c]) =
           [result |-> r, report |-> b, retry |-> FALSE]
  <1>1. (c /\ r # "server") = FALSE
    OBVIOUS
  <1>2. afterInvite([result |-> r, report |-> b, retry |-> c]) =
          [result |-> r, report |-> b, retry |-> c /\ r # "server"]
    BY DEF afterInvite
  <1> QED BY <1>1, <1>2, Zenon

(* Whatever connectSIP failed with, the error asks for another try only if *)
(* no INVITE was sent.                                                     *)
LEMMA Verdict ==
  ASSUME NEW e
  PROVE  \E r, b, c :
           /\ classifyInviteError(e) = [result |-> r, report |-> b, retry |-> c]
           /\ b \in BOOLEAN /\ c \in BOOLEAN
           /\ c => r = "server"
  <1> DEFINE result ==
        CASE e \in {"offer", "DeadlineExceeded", "OpError", "other"} -> "server"
          [] e = "status5xx" -> "upstream"
          [] OTHER -> "client"
  <1> DEFINE noted == e \notin {"status4xx", "status6xx", "SIPRequestTimeout",
                                "Canceled"}
  <1>1. classifyInviteError(e) =
          IF e \in SelfClassifying THEN ClassifyInvite(e)
          ELSE [result |-> result, report |-> noted, retry |-> result = "server"]
    BY Zenon DEF classifyInviteError
  <1>2. noted \in BOOLEAN
    OBVIOUS
  <1> HIDE DEF result, noted
  <1>3. CASE e \in SelfClassifying
    BY <1>1, <1>3, Zenon DEF ClassifyInvite
  <1>4. CASE e \notin SelfClassifying
    <2>1. (result = "server") \in BOOLEAN
      OBVIOUS
    <2> QED BY <1>1, <1>2, <1>4, <2>1, Zenon
  <1> QED BY Zenon, <1>3, <1>4

(* connectSIP failed: close() starts, or c.mu is released.                 *)
LEMMA FailureClassified ==
  ASSUME dialFailed
  PROVE  /\ retry' \in BOOLEAN /\ (retry' => ~invited)
         /\ \/ /\ once = "none" /\ UNCHANGED mu
               /\ \E b \in BOOLEAN : close("dial", b)
            \/ /\ once # "none" /\ mu' = "free"
               /\ Goto("dial", "ensureClosed")
               /\ UNCHANGED <<closeVars, stateVars>>
  <1>1. PICK e :
          LET f == classifyInviteError(e)
              res == IF invited THEN afterInvite(f) ELSE f
          IN  /\ retry' = res.retry
              /\ IF once = "none"
                 THEN close("dial", res.report) /\ UNCHANGED mu
                 ELSE /\ Goto("dial", "ensureClosed")
                      /\ mu' = "free"
                      /\ UNCHANGED <<closeVars, stateVars>>
    BY Zenon DEF dialFailed
  <1>2. PICK r, b, c :
          /\ classifyInviteError(e) = [result |-> r, report |-> b, retry |-> c]
          /\ b \in BOOLEAN /\ c \in BOOLEAN
          /\ c => r = "server"
    BY Zenon, Verdict
  <1>3. CASE invited
    <2>1. afterInvite(classifyInviteError(e)) =
            [result |-> r, report |-> b, retry |-> FALSE]
      BY <1>2, AfterInviteIs, ZenonT(30)
    <2>2. /\ afterInvite(classifyInviteError(e)).report = b
          /\ afterInvite(classifyInviteError(e)).retry = FALSE
      BY <2>1
    <2> QED BY <1>1, <1>2, <1>3, <2>2, Zenon
  <1>4. CASE ~invited
    <2>1. /\ classifyInviteError(e).report = b
          /\ classifyInviteError(e).retry = c
      BY <1>2
    <2> QED BY <1>1, <1>2, <1>4, <2>1, Zenon
  <1> QED BY Zenon, <1>3, <1>4

(* The actions of OutboundCall, one by one.  createSIPParticipant refuses. *)
LEMMA CreateRefusedStep ==
  ASSUME IInv, createRefused
  PROVE  IInv'
  <1>l. "done" \in PCs
    BY Zenon, Labels
  <1>p. pc' \in [Actors -> PCs]
    BY <1>l, Labels, Typed, Moves, Zenon DEF createRefused
  <1>1. SipTypeOK'
    BY Typed, SipKept, Zenon DEF createRefused
  <1>2. CallTypeOK'
    BY Typed, <1>p, Labels DEF createRefused, CallTypeOK
  <1>3. StepInv'
    BY Refused, Zenon DEF createRefused, legRead
  <1> QED BY Zenon, <1>1, <1>2, <1>3, Whole

(* createSIPParticipant accepts the request.                               *)
LEMMA CreateSIPParticipantStep ==
  ASSUME IInv, createSIPParticipant
  PROVE  IInv'
  <1>l. "media" \in PCs
    BY Zenon, Labels DEF DialPCs
  <1>p. pc' \in [Actors -> PCs]
    BY <1>l, Labels, Typed, Moves, Zenon DEF createSIPParticipant
  <1>1. SipTypeOK'
    BY Typed, SipKept, Zenon DEF createSIPParticipant
  <1>2. CallTypeOK'
    BY Typed, <1>p, MovesOnly, Zenon DEF createSIPParticipant
  <1>3. StepInv'
    BY DialMoves, Zenon DEF createSIPParticipant, legRead, callRead
  <1> QED BY Zenon, <1>1, <1>2, <1>3, Whole

(* newCall registers the call.                                             *)
LEMMA NewCallRegisterStep ==
  ASSUME IInv, newCallRegister
  PROVE  IInv'
  <1>f. /\ active' \in BOOLEAN
        /\ active'
    BY Typed, Zenon DEF newCallRegister, SipTypeOK, CallTypeOK
  <1>l. "created" \in PCs
    BY Zenon, Labels DEF DialPCs
  <1>p. pc' \in [Actors -> PCs]
    BY <1>l, Labels, Typed, Moves, Zenon DEF newCallRegister
  <1>1. SipTypeOK'
    BY Typed, SipKept, Zenon DEF newCallRegister
  <1>2. CallTypeOK'
    BY Typed, <1>p, Labels, <1>f DEF newCallRegister, CallTypeOK
  <1>3. StepInv'
    BY <1>f, Registered, Zenon DEF newCallRegister, legRead
  <1> QED BY Zenon, <1>1, <1>2, <1>3, Whole

(* Dial within the request.                                                *)
LEMMA StartDialStep ==
  ASSUME IInv, startDial
  PROVE  IInv'
  <1>l. "dial" \in PCs
    BY Zenon, Labels DEF DialPCs
  <1>p. pc' \in [Actors -> PCs]
    BY <1>l, Labels, Typed, Moves, Zenon DEF startDial
  <1>1. SipTypeOK'
    BY Typed, SipKept, Zenon DEF startDial
  <1>2. CallTypeOK'
    BY Typed, <1>p, MovesOnly, Zenon DEF startDial
  <1>3. StepInv'
    BY DialBegins, Zenon DEF startDial, legRead
  <1> QED BY Zenon, <1>1, <1>2, <1>3, Whole

(* Dial in a goroutine of its own.                                         *)
LEMMA DialAsyncStep ==
  ASSUME IInv, DialAsync
  PROVE  IInv'
  <1>l. "dial" \in PCs
    BY Zenon, Labels DEF DialPCs
  <1>p. pc' \in [Actors -> PCs]
    BY <1>l, Labels, Typed, Moves, Zenon DEF DialAsync
  <1>1. SipTypeOK'
    BY Typed, SipKept, Zenon DEF DialAsync
  <1>2. CallTypeOK'
    BY Typed, <1>p, Labels DEF DialAsync, CallTypeOK
  <1>3. StepInv'
    BY DialBegins, Zenon DEF DialAsync, legRead
  <1> QED BY Zenon, <1>1, <1>2, <1>3, Whole

(* The deferred update of createSIPParticipant.                            *)
LEMMA CreateReturnsStep ==
  ASSUME IInv, createReturns
  PROVE  IInv'
  <1>f. /\ infoError' \in BOOLEAN
        /\ stale' \in BOOLEAN
        /\ stale' <=> (ended /\ ret = "joined")
    BY Typed, Zenon DEF createReturns, SipTypeOK, CallTypeOK
  <1>1. SipTypeOK'
    BY Typed, SipKept, Zenon DEF createReturns
  <1>2. CallTypeOK'
    BY Typed, <1>f DEF createReturns, CallTypeOK
  <1>3. StepInv'
    BY <1>f, Returned, Zenon DEF createReturns, legRead
  <1> QED BY Zenon, <1>1, <1>2, <1>3, Whole

(* connectSIP takes c.mu.                                                  *)
LEMMA ConnectSIPStep ==
  ASSUME IInv, connectSIP
  PROVE  IInv'
  <1>f. /\ canceller' \in BOOLEAN
        /\ canceller'
        /\ early' \in BOOLEAN
        /\ early' <=> once # "none"
    BY Typed, Zenon DEF connectSIP, SipTypeOK, CallTypeOK
  <1>l. "offer" \in PCs
    BY Zenon, Labels DEF DialPCs
  <1>p. pc' \in [Actors -> PCs]
    BY <1>l, Labels, Typed, Moves, Zenon DEF connectSIP
  <1>1. SipTypeOK'
    BY Typed, SipKept, Zenon DEF connectSIP
  <1>2. CallTypeOK'
    BY Typed, <1>p, Labels, <1>f DEF connectSIP, CallTypeOK
  <1>3. StepInv'
    BY <1>f, Connects, Zenon DEF connectSIP, legRead
  <1> QED BY Zenon, <1>1, <1>2, <1>3, Whole

(* The ringing timeout ends the context of sipSignal.                      *)
LEMMA RingingTimeoutStep ==
  ASSUME IInv, ringingTimeout
  PROVE  IInv'
  <1>f. /\ ctx' \in BOOLEAN
        /\ ctx'
    BY Typed, Zenon DEF ringingTimeout, SipTypeOK, CallTypeOK
  <1>1. SipTypeOK'
    BY Typed, SipKept, Zenon DEF ringingTimeout
  <1>2. CallTypeOK'
    BY Typed, <1>f DEF ringingTimeout, CallTypeOK
  <1>3. StepInv'
    BY <1>f, Quiet, Zenon DEF ringingTimeout, legRead, callRead
  <1> QED BY Zenon, <1>1, <1>2, <1>3, Whole

(* The room or the call ended: the context of sipSignal ends.              *)
LEMMA CancelDialStep ==
  ASSUME IInv, cancelDial
  PROVE  IInv'
  <1>f. /\ ctx' \in BOOLEAN
        /\ ctx'
    BY Typed, Zenon DEF cancelDial, SipTypeOK, CallTypeOK
  <1>1. SipTypeOK'
    BY Typed, SipKept, Zenon DEF cancelDial
  <1>2. CallTypeOK'
    BY Typed, <1>f DEF cancelDial, CallTypeOK
  <1>3. StepInv'
    BY <1>f, Quiet, Zenon DEF cancelDial, legRead, callRead
  <1> QED BY Zenon, <1>1, <1>2, <1>3, Whole

(* sipResponse: the context is done or the client stops.                   *)
LEMMA InviteCancelledStep ==
  ASSUME IInv, InviteCancelled
  PROVE  IInv'
  <1>b. ctx \in BOOLEAN /\ closing \in BOOLEAN
    BY Zenon, Typed DEF SipTypeOK, CallTypeOK
  <1>l. "inviteErr" \in PCs
    BY Zenon, Labels DEF DialPCs
  <1>p. pc' \in [Actors -> PCs]
    BY <1>l, Labels, Typed, Moves, Zenon DEF InviteCancelled
  <1>1. SipTypeOK'
    BY Typed, Labels DEF InviteCancelled, responseCancelled, AbandonInvite,
         SipTypeOK, Responses
  <1>2. CallTypeOK'
    BY Typed, <1>p, MovesOnly, Zenon DEF InviteCancelled
  <1>3. StepInv'
    BY <1>b, InviteAbandoned, Zenon DEF InviteCancelled, callRead,
         responseCancelled
  <1> QED BY Zenon, <1>1, <1>2, <1>3, Whole

(* sipResponse: the transaction ended.                                     *)
LEMMA InviteTimedOutStep ==
  ASSUME IInv, InviteTimedOut
  PROVE  IInv'
  <1>b. ctx \in BOOLEAN /\ closing \in BOOLEAN
    BY Zenon, Typed DEF SipTypeOK, CallTypeOK
  <1>l. "inviteErr" \in PCs
    BY Zenon, Labels DEF DialPCs
  <1>p. pc' \in [Actors -> PCs]
    BY <1>l, Labels, Typed, Moves, Zenon DEF InviteTimedOut
  <1>1. SipTypeOK'
    BY Typed, Labels DEF InviteTimedOut, responseTimedOut, AbandonInvite,
         SipTypeOK, Responses
  <1>2. CallTypeOK'
    BY Typed, <1>p, MovesOnly, Zenon DEF InviteTimedOut
  <1>3. StepInv'
    BY <1>b, InviteAbandoned, Zenon DEF InviteTimedOut, callRead,
         responseTimedOut
  <1> QED BY Zenon, <1>1, <1>2, <1>3, Whole

(* sipResponse: a provisional response.                                    *)
LEMMA InviteProvisionalStep ==
  ASSUME IInv, InviteProvisional
  PROVE  IInv'
  <1>1. SipTypeOK'
    BY Typed, Labels DEF InviteProvisional, responseProvisional, SipTypeOK,
         Responses
  <1>2. CallTypeOK'
    BY Typed, CallKept, Zenon DEF InviteProvisional
  <1>3. StepInv'
    BY ProvisionalRead, Zenon DEF InviteProvisional, callRead
  <1> QED BY Zenon, <1>1, <1>2, <1>3, Whole

(* sipResponse: the answer.                                                *)
LEMMA InviteAnsweredStep ==
  ASSUME IInv, InviteAnswered
  PROVE  IInv'
  <1>f. /\ inviteOk' \in BOOLEAN
        /\ malformed' \in BOOLEAN
    BY FinalFlags, Zenon DEF InviteAnswered
  <1>l. "answer" \in PCs
    BY Zenon, Labels DEF DialPCs
  <1>p. pc' \in [Actors -> PCs]
    BY <1>l, Labels, Typed, Moves, Zenon DEF InviteAnswered
  <1>1. SipTypeOK'
    BY Typed, Labels, <1>f DEF InviteAnswered, responseFinal, SipTypeOK,
         Responses
  <1>2. CallTypeOK'
    BY Typed, <1>p, MovesOnly, Zenon DEF InviteAnswered
  <1>3. StepInv'
    BY <1>f, AnswerRead, Zenon DEF InviteAnswered, callRead
  <1> QED BY Zenon, <1>1, <1>2, <1>3, Whole

(* sipResponse: a final response Invite fails on.                          *)
LEMMA InviteFailedStep ==
  ASSUME IInv, InviteFailed
  PROVE  IInv'
  <1>f. /\ inviteOk' \in BOOLEAN
        /\ malformed' \in BOOLEAN
    BY FinalFlags, Zenon DEF InviteFailed
  <1>l. "inviteErr" \in PCs
    BY Zenon, Labels DEF DialPCs
  <1>p. pc' \in [Actors -> PCs]
    BY <1>l, Labels, Typed, Moves, Zenon DEF InviteFailed
  <1>1. SipTypeOK'
    BY Zenon, Typed, Labels, <1>f DEF InviteFailed, responseFinal, SipTypeOK,
         Responses
  <1>2. CallTypeOK'
    BY Typed, <1>p, MovesOnly, Zenon DEF InviteFailed
  <1>3. StepInv'
    BY <1>f, FailureRead, Zenon DEF InviteFailed, callRead
  <1> QED BY Zenon, <1>1, <1>2, <1>3, Whole

(* sipResponse: a challenge.                                               *)
LEMMA InviteChallengedStep ==
  ASSUME IInv, InviteChallenged
  PROVE  IInv'
  <1>f. /\ inviteOk' \in BOOLEAN
        /\ malformed' \in BOOLEAN
    BY FinalFlags, Zenon DEF InviteChallenged
  <1>l. "invite" \in PCs
    BY Zenon, Labels DEF DialPCs
  <1>p. pc' \in [Actors -> PCs]
    BY <1>l, Labels, Typed, Moves, Zenon DEF InviteChallenged
  <1>1. SipTypeOK'
    BY Typed, Labels, <1>f DEF InviteChallenged, responseFinal, SipTypeOK,
         Responses
  <1>2. CallTypeOK'
    BY Typed, <1>p, MovesOnly, Zenon DEF InviteChallenged
  <1>3. StepInv'
    BY <1>f, ChallengeRead, Zenon DEF InviteChallenged, callRead
  <1> QED BY Zenon, <1>1, <1>2, <1>3, Whole

(* sipSignal closes the dialog of a failed Invite.                         *)
LEMMA InviteErrCloseStep ==
  ASSUME IInv, InviteErrClose
  PROVE  IInv'
  <1>f. /\ inviteOk' \in BOOLEAN
        /\ missed' \in BOOLEAN
    BY Typed, Zenon DEF InviteErrClose, ccClose, sendBye, WriteBye, drop,
         ByeWaits, SipTypeOK, CallTypeOK
  <1>l. "errWait" \in PCs /\ "fail" \in PCs
    BY Zenon, Labels DEF DialPCs
  <1>p. pc' \in [Actors -> PCs]
    BY <1>l, Labels, Typed, Moves, Zenon DEF InviteErrClose
  <1>1. SipTypeOK'
    BY Typed, Labels, <1>f DEF InviteErrClose, ccClose, sendBye, WriteBye,
         drop, ByeWaits, SipTypeOK, PeerUp
  <1>2. CallTypeOK'
    BY Typed, <1>p, MovesOnly, Zenon DEF InviteErrClose
  <1>3. StepInv'
    BY <1>f, Typed, FailedInviteCloses, Zenon DEF InviteErrClose, callRead
  <1> QED BY Zenon, <1>1, <1>2, <1>3, Whole

(* The BYE of sipSignal is answered.                                       *)
LEMMA InviteErrClosedStep ==
  ASSUME IInv, InviteErrClosed
  PROVE  IInv'
  <1>l. "fail" \in PCs
    BY Zenon, Labels DEF DialPCs
  <1>p. pc' \in [Actors -> PCs]
    BY <1>l, Labels, Typed, Moves, Zenon DEF InviteErrClosed
  <1>1. SipTypeOK'
    BY Typed, Labels DEF InviteErrClosed, ByeAnswered, SipTypeOK, Actors
  <1>2. CallTypeOK'
    BY Typed, <1>p, MovesOnly, Zenon DEF InviteErrClosed
  <1>3. StepInv'
    BY FailedInviteClosed, Zenon DEF InviteErrClosed, callRead
  <1> QED BY Zenon, <1>1, <1>2, <1>3, Whole

(* The call is aborted after the ACK.                                      *)
LEMMA AnswerAbortedStep ==
  ASSUME IInv, answerAborted
  PROVE  IInv'
  <1>l. "fail" \in PCs
    BY Zenon, Labels DEF DialPCs
  <1>p. pc' \in [Actors -> PCs]
    BY <1>l, Labels, Typed, Moves, Zenon DEF answerAborted
  <1>1. SipTypeOK'
    BY Typed, SipKept, Zenon DEF answerAborted
  <1>2. CallTypeOK'
    BY Typed, <1>p, MovesOnly, Zenon DEF answerAborted
  <1>3. StepInv'
    BY DialMoves, Zenon DEF answerAborted, legRead, callRead
  <1> QED BY Zenon, <1>1, <1>2, <1>3, Whole

(* The rest of connectSIP.                                                 *)
LEMMA CallEstablishedStep ==
  ASSUME IInv, callEstablished
  PROVE  IInv'
  <1>f. /\ canceller' \in BOOLEAN
        /\ ~canceller'
        /\ started' \in BOOLEAN
        /\ started'
        /\ output' \in BOOLEAN
        /\ output'
    BY Typed, Zenon DEF callEstablished, SipTypeOK, CallTypeOK
  <1>l. "active" \in PCs
    BY Zenon, Labels DEF DialPCs
  <1>p. pc' \in [Actors -> PCs]
    BY <1>l, Labels, Typed, Moves, Zenon DEF callEstablished
  <1>1. SipTypeOK'
    BY Typed, SipKept, Zenon DEF callEstablished
  <1>2. CallTypeOK'
    BY Typed, <1>p, Labels, <1>f DEF callEstablished, CallTypeOK
  <1>3. StepInv'
    BY <1>f, Established, Zenon DEF callEstablished, legRead
  <1> QED BY Zenon, <1>1, <1>2, <1>3, Whole

(* Dial reports the call as active.                                        *)
LEMMA DialSucceededStep ==
  ASSUME IInv, dialSucceeded
  PROVE  IInv'
  <1>l. "wait" \in PCs
    BY Zenon, Labels DEF DialPCs
  <1>p. pc' \in [Actors -> PCs]
    BY <1>l, Labels, Typed, Moves, Zenon DEF dialSucceeded
  <1>1. SipTypeOK'
    BY Typed, SipKept, Zenon DEF dialSucceeded
  <1>2. CallTypeOK'
    BY Typed, <1>p, Labels DEF dialSucceeded, CallTypeOK
  <1>3. StepInv'
    BY Succeeded, Zenon DEF dialSucceeded, legRead
  <1> QED BY Zenon, <1>1, <1>2, <1>3, Whole

(* waitClose: the room ended or the maximal duration passed.               *)
LEMMA WaitEndsStep ==
  ASSUME IInv, waitEnds
  PROVE  IInv'
  <1>l. "lock" \in PCs
    BY Zenon, Labels DEF ClosePCs
  <1>p. pc' \in [Actors -> PCs]
    BY <1>l, Labels, Typed, Moves, Zenon DEF waitEnds
  <1>1. SipTypeOK'
    BY Typed, SipKept, Zenon DEF waitEnds
  <1>2. CallTypeOK'
    BY Typed, <1>p, MovesOnly, Zenon DEF waitEnds
  <1>3. StepInv'
    BY DialMoves, Zenon DEF waitEnds, legRead, callRead
  <1> QED BY Zenon, <1>1, <1>2, <1>3, Whole

(* waitClose: the media timeout.                                           *)
LEMMA WaitMediaTimeoutStep ==
  ASSUME IInv, waitMediaTimeout
  PROVE  IInv'
  <1>l. "timeout" \in PCs
    BY Zenon, Labels DEF DialPCs
  <1>p. pc' \in [Actors -> PCs]
    BY <1>l, Labels, Typed, Moves, Zenon DEF waitMediaTimeout
  <1>1. SipTypeOK'
    BY Typed, SipKept, Zenon DEF waitMediaTimeout
  <1>2. CallTypeOK'
    BY Typed, <1>p, MovesOnly, Zenon DEF waitMediaTimeout
  <1>3. StepInv'
    BY DialMoves, Zenon DEF waitMediaTimeout, legRead, callRead
  <1> QED BY Zenon, <1>1, <1>2, <1>3, Whole

(* ensureClosed.                                                           *)
LEMMA EnsureClosedStep ==
  ASSUME IInv, ensureClosed
  PROVE  IInv'
  <1>f. /\ ended' \in BOOLEAN
        /\ ended'
    BY Typed, Zenon DEF ensureClosed, SipTypeOK, CallTypeOK
  <1>l. "done" \in PCs
    BY Zenon, Labels
  <1>p. pc' \in [Actors -> PCs]
    BY <1>l, Labels, Typed, Moves, Zenon DEF ensureClosed
  <1>1. SipTypeOK'
    BY Typed, SipKept, Zenon DEF ensureClosed
  <1>2. CallTypeOK'
    BY Typed, <1>p, Labels, <1>f DEF ensureClosed, CallTypeOK
  <1>3. StepInv'
    BY <1>f, Ended, Zenon DEF ensureClosed, legRead
  <1> QED BY Zenon, <1>1, <1>2, <1>3, Whole

(* The EndCall RPC.                                                        *)
LEMMA EndCallStep ==
  ASSUME IInv, EndCall
  PROVE  IInv'
  <1>l. PICK l \in {"lock"} : pc' = [pc EXCEPT !["rpc"] = l]
    BY Zenon DEF EndCall
  <1>s. l \in PCs /\ l \notin Closing
    BY Zenon, Labels DEF ClosePCs, OtherPCs, Closing
  <1>p. pc' \in [Actors -> PCs]
    BY <1>l, <1>s, Labels, Typed, Moves, Zenon
  <1>1. SipTypeOK'
    BY Typed, SipKept, Zenon DEF EndCall
  <1>2. CallTypeOK'
    BY Typed, <1>p, MovesOnly, Zenon DEF EndCall
  <1>o. /\ PcInv' /\ (Private => Private')
        /\ "rpc" \in Actors \ {"dial"} /\ pc["rpc"] \notin Closing
    BY Typed, Basics, Labels, <1>l DEF EndCall, PcInv, Private, Closing,
         ClosePCs, OtherPCs
  <1>3. StepInv'
    BY <1>l, <1>s, <1>o, OtherMoves, Zenon DEF EndCall, legRead
  <1> QED BY Zenon, <1>1, <1>2, <1>3, Whole

(* Client.Stop: closing is broken.                                         *)
LEMMA StopBeginsStep ==
  ASSUME IInv, StopBegins
  PROVE  IInv'
  <1>l. PICK l \in {"snapshot"} : pc' = [pc EXCEPT !["stop"] = l]
    BY Zenon DEF StopBegins
  <1>f. closing' \in BOOLEAN
    BY Typed, Zenon DEF StopBegins, SipTypeOK, CallTypeOK
  <1>s. l \in PCs /\ l \notin Closing
    BY Zenon, Labels DEF ClosePCs, OtherPCs, Closing
  <1>p. pc' \in [Actors -> PCs]
    BY <1>l, <1>s, Labels, Typed, Moves, Zenon
  <1>1. SipTypeOK'
    BY Typed, <1>f DEF StopBegins, SipTypeOK
  <1>2. CallTypeOK'
    BY Typed, <1>p, MovesOnly, Zenon DEF StopBegins
  <1>o. /\ PcInv' /\ (Private => Private')
        /\ "stop" \in Actors \ {"dial"} /\ pc["stop"] \notin Closing
    BY Typed, Basics, Labels, <1>l DEF StopBegins, PcInv, Private, Closing,
         ClosePCs, OtherPCs
  <1>3. StepInv'
    BY <1>l, <1>s, <1>o, OtherMoves, Zenon DEF StopBegins, legRead
  <1> QED BY Zenon, <1>1, <1>2, <1>3, Whole

(* Client.Stop takes the calls out of activeCalls.                         *)
LEMMA StopSnapshotStep ==
  ASSUME IInv, StopSnapshot
  PROVE  IInv'
  <1>l. PICK l \in {"lock", "closeClient"} : pc' = [pc EXCEPT !["stop"] = l]
    BY Zenon DEF StopSnapshot
  <1>f. active' \in BOOLEAN /\ target' \in BOOLEAN
    BY Typed, Zenon DEF StopSnapshot, SipTypeOK, CallTypeOK
  <1>s. l \in PCs /\ l \notin Closing
    BY Zenon, Labels DEF ClosePCs, OtherPCs, Closing
  <1>p. pc' \in [Actors -> PCs]
    BY <1>l, <1>s, Labels, Typed, Moves, Zenon
  <1>1. SipTypeOK'
    BY Typed, SipKept, Zenon DEF StopSnapshot
  <1>2. CallTypeOK'
    BY Typed, <1>p, <1>f DEF StopSnapshot, CallTypeOK
  <1>o. /\ PcInv' /\ (Private => Private')
        /\ "stop" \in Actors \ {"dial"} /\ pc["stop"] \notin Closing
        /\ active' => active
    BY Typed, Basics, Labels, <1>l DEF StopSnapshot, PcInv, Private, Closing,
         ClosePCs, OtherPCs
  <1>3. StepInv'
    BY <1>l, <1>s, <1>o, OtherMoves, Zenon DEF StopSnapshot, legRead
  <1> QED BY Zenon, <1>1, <1>2, <1>3, Whole

(* Client.Stop closes the SIP client.                                      *)
LEMMA StopClosesClientStep ==
  ASSUME IInv, StopClosesClient
  PROVE  IInv'
  <1>l. PICK l \in {"done"} : pc' = [pc EXCEPT !["stop"] = l]
    BY Zenon DEF StopClosesClient
  <1>f. cliClosed' \in BOOLEAN
    BY Typed, Zenon DEF StopClosesClient, SipTypeOK, CallTypeOK
  <1>s. l \in PCs /\ l \notin Closing
    BY Zenon, Labels DEF ClosePCs, OtherPCs, Closing
  <1>p. pc' \in [Actors -> PCs]
    BY <1>l, <1>s, Labels, Typed, Moves, Zenon
  <1>1. SipTypeOK'
    BY Typed, <1>f DEF StopClosesClient, SipTypeOK
  <1>2. CallTypeOK'
    BY Typed, <1>p, MovesOnly, Zenon DEF StopClosesClient
  <1>o. /\ PcInv' /\ (Private => Private')
        /\ "stop" \in Actors \ {"dial"} /\ pc["stop"] \notin Closing
    BY Typed, Basics, Labels, <1>l DEF StopClosesClient, PcInv, Private,
         Closing, ClosePCs, OtherPCs
  <1>3. StepInv'
    BY <1>l, <1>s, <1>o, OtherMoves, Zenon DEF StopClosesClient, legRead
  <1> QED BY Zenon, <1>1, <1>2, <1>3, Whole

(* transferCall, with or without a dial tone.                              *)
LEMMA TransferCallStep ==
  ASSUME IInv, transferCall
  PROVE  IInv'
  <1>l. PICK l \in {"swap", "refer"} : pc' = [pc EXCEPT !["xfer"] = l]
    BY Zenon DEF transferCall
  <1>s. l \in PCs /\ l \notin Closing
    BY Zenon, Labels DEF ClosePCs, OtherPCs, Closing
  <1>p. pc' \in [Actors -> PCs]
    BY <1>l, <1>s, Labels, Typed, Moves, Zenon
  <1>1. SipTypeOK'
    BY Typed, SipKept, Zenon DEF transferCall
  <1>2. CallTypeOK'
    BY Typed, <1>p, MovesOnly, Zenon DEF transferCall
  <1>o. /\ PcInv' /\ (Private => Private')
        /\ "xfer" \in Actors \ {"dial"} /\ pc["xfer"] \notin Closing
    BY Zenon, Typed, Basics, Labels, <1>l DEF transferCall, PcInv, Private,
         Closing, ClosePCs, OtherPCs
  <1>3. StepInv'
    BY <1>l, <1>s, <1>o, OtherMoves, Zenon DEF transferCall, legRead
  <1> QED BY Zenon, <1>1, <1>2, <1>3, Whole

(* transferCall takes the audio of the room from the leg.                  *)
LEMMA TransferMuteStep ==
  ASSUME IInv, transferMute
  PROVE  IInv'
  <1>l. PICK l \in {"refer"} : pc' = [pc EXCEPT !["xfer"] = l]
    BY Zenon DEF transferMute
  <1>f. output' \in BOOLEAN
    BY Typed, Zenon DEF transferMute, SipTypeOK, CallTypeOK
  <1>s. l \in PCs /\ l \notin Closing
    BY Zenon, Labels DEF ClosePCs, OtherPCs, Closing
  <1>p. pc' \in [Actors -> PCs]
    BY <1>l, <1>s, Labels, Typed, Moves, Zenon
  <1>1. SipTypeOK'
    BY Typed, SipKept, Zenon DEF transferMute
  <1>2. CallTypeOK'
    BY Typed, <1>p, <1>f DEF transferMute, CallTypeOK
  <1>o. /\ PcInv' /\ (Private => Private')
        /\ "xfer" \in Actors \ {"dial"} /\ pc["xfer"] \notin Closing
        /\ active' => active
    BY ZenonT(30), Typed, Basics, Labels, <1>l DEF transferMute, PcInv, Private,
         Closing, ClosePCs, OtherPCs
  <1>3. StepInv'
    BY <1>l, <1>s, <1>o, OtherMoves, Zenon DEF transferMute, legRead
  <1> QED BY Zenon, <1>1, <1>2, <1>3, Whole

(* REFER, if there is a dialog.                                            *)
LEMMA TransferReferStep ==
  ASSUME IInv, transferRefer
  PROVE  IInv'
  <1>l. PICK l \in {"referWait", "restore"} : pc' = [pc EXCEPT !["xfer"] = l]
    BY Zenon DEF transferRefer
  <1>s. l \in PCs /\ l \notin Closing
    BY Zenon, Labels DEF ClosePCs, OtherPCs, Closing
  <1>p. pc' \in [Actors -> PCs]
    BY <1>l, <1>s, Labels, Typed, Moves, Zenon
  <1>1. SipTypeOK'
    BY Typed, SipKept, Zenon DEF transferRefer
  <1>2. CallTypeOK'
    BY Typed, <1>p, MovesOnly, Zenon DEF transferRefer
  <1>o. /\ PcInv' /\ (Private => Private')
        /\ "xfer" \in Actors \ {"dial"} /\ pc["xfer"] \notin Closing
    BY Typed, Basics, Labels, <1>l DEF transferRefer, PcInv, Private, Closing,
         ClosePCs, OtherPCs
  <1>3. StepInv'
    BY <1>l, <1>s, <1>o, OtherMoves, Zenon DEF transferRefer, legRead
  <1> QED BY Zenon, <1>1, <1>2, <1>3, Whole

(* The transfer failed.                                                    *)
LEMMA TransferFailedStep ==
  ASSUME IInv, transferFailed
  PROVE  IInv'
  <1>l. PICK l \in {"restore"} : pc' = [pc EXCEPT !["xfer"] = l]
    BY Zenon DEF transferFailed
  <1>s. l \in PCs /\ l \notin Closing
    BY Zenon, Labels DEF ClosePCs, OtherPCs, Closing
  <1>p. pc' \in [Actors -> PCs]
    BY <1>l, <1>s, Labels, Typed, Moves, Zenon
  <1>1. SipTypeOK'
    BY Typed, SipKept, Zenon DEF transferFailed
  <1>2. CallTypeOK'
    BY Typed, <1>p, MovesOnly, Zenon DEF transferFailed
  <1>o. /\ PcInv' /\ (Private => Private')
        /\ "xfer" \in Actors \ {"dial"} /\ pc["xfer"] \notin Closing
    BY ZenonT(30), Typed, Basics, Labels, <1>l DEF transferFailed, PcInv, Private,
         Closing, ClosePCs, OtherPCs
  <1>3. StepInv'
    BY <1>l, <1>s, <1>o, OtherMoves, Zenon DEF transferFailed, legRead
  <1> QED BY Zenon, <1>1, <1>2, <1>3, Whole

(* The deferred function of transferCall.                                  *)
LEMMA TransferRestoreStep ==
  ASSUME IInv, transferRestore
  PROVE  IInv'
  <1>l. PICK l \in {"done", "panic"} : pc' = [pc EXCEPT !["xfer"] = l]
    BY Zenon DEF transferRestore
  <1>f. output' \in BOOLEAN
    BY Typed, Zenon DEF transferRestore, SipTypeOK, CallTypeOK
  <1>s. l \in PCs /\ l \notin Closing
    BY Zenon, Labels DEF ClosePCs, OtherPCs, Closing
  <1>p. pc' \in [Actors -> PCs]
    BY <1>l, <1>s, Labels, Typed, Moves, Zenon
  <1>1. SipTypeOK'
    BY Typed, SipKept, Zenon DEF transferRestore
  <1>2. CallTypeOK'
    BY Typed, <1>p, <1>f DEF transferRestore, CallTypeOK
  <1>o. /\ PcInv' /\ (Private => Private')
        /\ "xfer" \in Actors \ {"dial"} /\ pc["xfer"] \notin Closing
        /\ active' => active
    BY ZenonT(30), Typed, Basics, Labels, <1>l DEF transferRestore, PcInv, Private,
         Closing, ClosePCs, OtherPCs
  <1>3. StepInv'
    BY <1>l, <1>s, <1>o, OtherMoves, Zenon DEF transferRestore, legRead
  <1> QED BY Zenon, <1>1, <1>2, <1>3, Whole

(* The transfer succeeded.                                                 *)
LEMMA TransferDoneStep ==
  ASSUME IInv, transferDone
  PROVE  IInv'
  <1>l. PICK l \in {"panic", "byeTimer"} : pc' = [pc EXCEPT !["xfer"] = l]
    BY Zenon DEF transferDone
  <1>s. l \in PCs /\ l \notin Closing
    BY Zenon, Labels DEF ClosePCs, OtherPCs, Closing
  <1>p. pc' \in [Actors -> PCs]
    BY <1>l, <1>s, Labels, Typed, Moves, Zenon
  <1>1. SipTypeOK'
    BY Typed, SipKept, Zenon DEF transferDone
  <1>2. CallTypeOK'
    BY Typed, <1>p, MovesOnly, Zenon DEF transferDone
  <1>o. /\ PcInv' /\ (Private => Private')
        /\ "xfer" \in Actors \ {"dial"} /\ pc["xfer"] \notin Closing
    BY Typed, Basics, Labels, <1>l DEF transferDone, PcInv, Private, Closing,
         ClosePCs, OtherPCs
  <1>3. StepInv'
    BY <1>l, <1>s, <1>o, OtherMoves, Zenon DEF transferDone, legRead
  <1> QED BY Zenon, <1>1, <1>2, <1>3, Whole

(* transferCall closes the call.                                           *)
LEMMA TransferClosesStep ==
  ASSUME IInv, transferCloses
  PROVE  IInv'
  <1>l. PICK l \in {"lock"} : pc' = [pc EXCEPT !["xfer"] = l]
    BY Zenon DEF transferCloses
  <1>s. l \in PCs /\ l \notin Closing
    BY Zenon, Labels DEF ClosePCs, OtherPCs, Closing
  <1>p. pc' \in [Actors -> PCs]
    BY <1>l, <1>s, Labels, Typed, Moves, Zenon
  <1>1. SipTypeOK'
    BY Typed, SipKept, Zenon DEF transferCloses
  <1>2. CallTypeOK'
    BY Typed, <1>p, MovesOnly, Zenon DEF transferCloses
  <1>o. /\ PcInv' /\ (Private => Private')
        /\ "xfer" \in Actors \ {"dial"} /\ pc["xfer"] \notin Closing
    BY ZenonT(30), Typed, Basics, Labels, <1>l DEF transferCloses, PcInv, Private,
         Closing, ClosePCs, OtherPCs
  <1>3. StepInv'
    BY <1>l, <1>s, <1>o, OtherMoves, Zenon DEF transferCloses, legRead
  <1> QED BY Zenon, <1>1, <1>2, <1>3, Whole

(* waitClose: somebody closed the call.                                    *)
LEMMA WaitClosedStep ==
  ASSUME IInv, waitClosed
  PROVE  IInv'
  <1>b. once # "none"
    BY Zenon, Basics DEF waitClosed, OnceInv
  <1>l. "ensureClosed" \in PCs
    BY Zenon, Labels DEF DialPCs
  <1>p. pc' \in [Actors -> PCs]
    BY <1>l, Labels, Typed, Moves, Zenon DEF waitClosed
  <1>1. SipTypeOK'
    BY Typed, SipKept, Zenon DEF waitClosed
  <1>2. CallTypeOK'
    BY Typed, <1>p, MovesOnly, Zenon DEF waitClosed
  <1>3. StepInv'
    BY <1>b, DialMoves, Zenon DEF waitClosed, legRead, callRead
  <1> QED BY Zenon, <1>1, <1>2, <1>3, Whole

(* AcceptBye.                                                              *)
LEMMA OnByeAcceptStep ==
  ASSUME IInv, onByeAccept
  PROVE  IInv'
  <1>f. /\ inviteOk' \in BOOLEAN
        /\ byeRcvd' \in BOOLEAN
    BY Typed, Zenon DEF onByeAccept, AcceptBye, drop, SipTypeOK, CallTypeOK
  <1>l. "lock" \in PCs
    BY Zenon, Labels DEF ClosePCs
  <1>p. pc' \in [Actors -> PCs]
    BY <1>l, Labels, Typed, Moves, Zenon DEF onByeAccept
  <1>1. SipTypeOK'
    BY Typed, Labels, <1>f DEF onByeAccept, AcceptBye, drop, SipTypeOK
  <1>2. CallTypeOK'
    BY Typed, <1>p, MovesOnly, Zenon DEF onByeAccept
  <1>3. StepInv'
    BY <1>f, ByeAccepted, Zenon DEF onByeAccept, callRead
  <1> QED BY Zenon, <1>1, <1>2, <1>3, Whole

(* The fuse breaks.                                                        *)
LEMMA StoppedBreaksStep ==
  ASSUME IInv, StoppedBreaks
  PROVE  IInv'
  <1>f. /\ stopped' \in BOOLEAN
        /\ stopped'
    BY Typed, Zenon DEF StoppedBreaks, SipTypeOK, CallTypeOK
  <1>1. SipTypeOK'
    BY Typed, SipKept, Zenon DEF StoppedBreaks
  <1>2. CallTypeOK'
    BY Typed, <1>f DEF StoppedBreaks, CallTypeOK
  <1>3. StepInv'
    BY <1>f, Broken, Zenon DEF StoppedBreaks, legRead
  <1> QED BY Zenon, <1>1, <1>2, <1>3, Whole

(* LiveKit ends the room.                                                  *)
LEMMA RoomDisconnectsStep ==
  ASSUME IInv, RoomDisconnects
  PROVE  IInv'
  <1>f. /\ rpc' \in BOOLEAN
        /\ ~rpc'
    BY Typed, Zenon DEF RoomDisconnects, SipTypeOK, CallTypeOK
  <1>1. SipTypeOK'
    BY Typed, SipKept, Zenon DEF RoomDisconnects
  <1>2. CallTypeOK'
    BY Typed, <1>f DEF RoomDisconnects, CallTypeOK
  <1>3. StepInv'
    BY <1>f, RoomEnded, Zenon DEF RoomDisconnects, legRead
  <1> QED BY Zenon, <1>1, <1>2, <1>3, Whole

(* The BYE of stopSIP is answered.                                         *)
LEMMA StopSIPAnsweredStep ==
  ASSUME IInv, NEW p \in Actors, stopSIPAnswered(p)
  PROVE  IInv'
  <1>l. "release" \in PCs
    BY Zenon, Labels DEF ClosePCs
  <1>p. pc' \in [Actors -> PCs]
    BY <1>l, Labels, Typed, Moves, Zenon DEF stopSIPAnswered
  <1>1. SipTypeOK'
    BY Typed, Labels DEF stopSIPAnswered, ByeAnswered, SipTypeOK
  <1>2. CallTypeOK'
    BY Typed, <1>p, MovesOnly, Zenon DEF stopSIPAnswered
  <1>3. StepInv'
    BY HungUp, Zenon DEF stopSIPAnswered, callRead
  <1> QED BY Zenon, <1>1, <1>2, <1>3, Whole

(* stopSIP.                                                                *)
LEMMA StopSIPStep ==
  ASSUME IInv, NEW p \in Actors, stopSIP(p)
  PROVE  IInv'
  <1>f. /\ inviteOk' \in BOOLEAN
        /\ missed' \in BOOLEAN
    BY Typed, Zenon DEF stopSIP, ccClose, sendBye, WriteBye, drop, ByeWaits,
         SipTypeOK, CallTypeOK
  <1>l. "byeWait" \in PCs /\ "release" \in PCs
    BY Zenon, Labels DEF ClosePCs
  <1>p. pc' \in [Actors -> PCs]
    BY <1>l, Labels, Typed, Moves, Zenon DEF stopSIP
  <1>1. SipTypeOK'
    BY Typed, Labels, <1>f DEF stopSIP, ccClose, sendBye, WriteBye, drop,
         ByeWaits, SipTypeOK, PeerUp
  <1>2. CallTypeOK'
    BY Typed, <1>p, MovesOnly, Zenon DEF stopSIP
  <1>3. StepInv'
    BY <1>f, Typed, HangsUp, Zenon DEF stopSIP, callRead
  <1> QED BY Zenon, <1>1, <1>2, <1>3, Whole

(* SetAnswer and SetConfig.                                                *)
LEMMA SetAnswerStep ==
  ASSUME IInv, setAnswer
  PROVE  IInv'
  <1>l. "ack" \in PCs /\ "fail" \in PCs
    BY Zenon, Labels DEF DialPCs
  <1>p. pc' \in [Actors -> PCs]
    BY <1>l, Labels, Typed, Moves, Zenon DEF setAnswer
  <1>1. SipTypeOK'
    BY Typed, SipKept, Zenon DEF setAnswer
  <1>2. CallTypeOK'
    BY Typed, <1>p, MovesOnly, Zenon DEF setAnswer
  <1>3. StepInv'
    BY DialMoves, Zenon DEF setAnswer, legRead, callRead
  <1> QED BY Zenon, <1>1, <1>2, <1>3, Whole

(* The offer is made, or not.                                              *)
LEMMA SipSignalStep ==
  ASSUME IInv, sipSignal
  PROVE  IInv'
  <1>f. invited' \in BOOLEAN
    BY Typed, Zenon DEF sipSignal, SipTypeOK, CallTypeOK
  <1>l. "invite" \in PCs /\ "fail" \in PCs
    BY Zenon, Labels DEF DialPCs
  <1>p. pc' \in [Actors -> PCs]
    BY <1>l, Labels, Typed, Moves, Zenon DEF sipSignal
  <1>1. SipTypeOK'
    BY Typed, SipKept, Zenon DEF sipSignal
  <1>2. CallTypeOK'
    BY Typed, <1>p, Labels, <1>f DEF sipSignal, CallTypeOK
  <1>3. StepInv'
    <2>1. CASE Goto("dial", "invite") /\ invited'
      BY <2>1, Offered, Zenon DEF sipSignal, legRead
    <2>2. CASE Goto("dial", "fail") /\ UNCHANGED invited
      BY <2>2, DialMoves, Zenon DEF sipSignal, legRead, callRead
    <2> QED BY <2>1, <2>2, Zenon DEF sipSignal
  <1> QED BY Zenon, <1>1, <1>2, <1>3, Whole

(* An INVITE leaves, or Invite fails before that.                          *)
LEMMA InviteStep ==
  ASSUME IInv, Invite
  PROVE  IInv'
  <1>l. "await" \in PCs /\ "inviteErr" \in PCs
    BY Zenon, Labels DEF DialPCs
  <1>p. pc' \in [Actors -> PCs]
    BY <1>l, Labels, Typed, Moves, Zenon DEF Invite
  <1>1. SipTypeOK'
    BY Typed, Labels, MaxTriesAssumption DEF Invite, attemptInvite,
         attemptFails, SipTypeOK, Responses
  <1>2. CallTypeOK'
    BY Typed, <1>p, MovesOnly, Zenon DEF Invite
  <1>3. StepInv'
    <2>1. CASE attemptInvite /\ Goto("dial", "await")
      BY <2>1, InviteSent, Zenon DEF Invite, callRead
    <2>2. CASE attemptFails /\ Goto("dial", "inviteErr")
      BY <2>2, InviteNotSent, Zenon DEF Invite, callRead
    <2> QED BY <2>1, <2>2, Zenon DEF Invite
  <1> QED BY Zenon, <1>1, <1>2, <1>3, Whole

(* AckInviteOK, or its failure.                                            *)
LEMMA AckAnswerStep ==
  ASSUME IInv, ackAnswer
  PROVE  IInv'
  <1>l. "acked" \in PCs /\ "fail" \in PCs
    BY Zenon, Labels DEF DialPCs
  <1>p. pc' \in [Actors -> PCs]
    BY <1>l, Labels, Typed, Moves, Zenon DEF ackAnswer
  <1>1. SipTypeOK'
    BY Typed, Labels DEF ackAnswer, AckInviteOK, WriteAck, SipTypeOK, PeerUp
  <1>2. CallTypeOK'
    BY Typed, <1>p, MovesOnly, Zenon DEF ackAnswer
  <1>3. StepInv'
    <2>1. CASE AckInviteOK /\ Goto("dial", "acked")
      BY <2>1, AnswerAcked, Zenon DEF ackAnswer, callRead
    <2>2. CASE UNCHANGED sipVars /\ Goto("dial", "fail")
      BY <2>2, DialMoves, Zenon DEF ackAnswer, legRead, callRead
    <2> QED BY <2>1, <2>2, Zenon DEF ackAnswer
  <1> QED BY Zenon, <1>1, <1>2, <1>3, Whole

(* NewMediaPort, or close() because it failed.                             *)
LEMMA NewCallMediaStep ==
  ASSUME IInv, newCallMedia
  PROVE  IInv'
  <1>f. /\ infoError' \in BOOLEAN
        /\ unlisted' \in BOOLEAN
    BY Typed, Zenon DEF newCallMedia, close, setErrStatus, SipTypeOK,
         CallTypeOK
  <1>l. "join" \in PCs /\ "hangup" \in PCs
    BY Zenon, Labels DEF DialPCs, ClosePCs
  <1>p. pc' \in [Actors -> PCs]
    BY <1>l, Labels, Typed, Moves, Zenon DEF newCallMedia, close
  <1>1. SipTypeOK'
    BY Typed, SipKept, Zenon DEF newCallMedia
  <1>2. CallTypeOK'
    BY Typed, <1>p, Labels, <1>f DEF newCallMedia, close, setErrStatus,
         CallTypeOK
  <1>3. StepInv'
    <2>1. CASE Goto("dial", "join") /\ UNCHANGED <<closeVars, stateVars>>
      BY <2>1, MediaOpened, Zenon DEF newCallMedia, legRead
    <2>2. CASE close("dial", TRUE) /\ UNCHANGED media
      BY <2>2, NewCallCloses, Zenon DEF newCallMedia, close, legRead
    <2> QED BY <2>1, <2>2, Zenon DEF newCallMedia
  <1> QED BY Zenon, <1>1, <1>2, <1>3, Whole

(* connectToRoom, or close() because it failed.                            *)
LEMMA ConnectToRoomStep ==
  ASSUME IInv, connectToRoom
  PROVE  IInv'
  <1>f. /\ infoError' \in BOOLEAN
        /\ unlisted' \in BOOLEAN
        /\ topic' \in BOOLEAN
        /\ rpc' \in BOOLEAN
    BY Typed, Zenon DEF connectToRoom, close, setErrStatus, SipTypeOK,
         CallTypeOK
  <1>l. "register" \in PCs /\ "hangup" \in PCs
    BY Zenon, Labels DEF DialPCs, ClosePCs
  <1>p. pc' \in [Actors -> PCs]
    BY <1>l, Labels, Typed, Moves, Zenon DEF connectToRoom, close
  <1>1. SipTypeOK'
    BY Typed, SipKept, Zenon DEF connectToRoom
  <1>2. CallTypeOK'
    BY Typed, <1>p, Labels, <1>f DEF connectToRoom, close, setErrStatus,
         CallTypeOK
  <1>3. StepInv'
    <2>1. CASE Goto("dial", "register") /\ UNCHANGED <<closeVars, stateVars>>
      BY <2>1, RoomJoined, Zenon DEF connectToRoom, legRead
    <2>2. CASE close("dial", TRUE) /\ UNCHANGED rpc
      BY <2>2, NewCallCloses, Zenon DEF connectToRoom, close, legRead
    <2> QED BY <2>1, <2>2, Zenon DEF connectToRoom
  <1> QED BY Zenon, <1>1, <1>2, <1>3, Whole

(* onBye finds the call, or does not.                                      *)
LEMMA OnByeStep ==
  ASSUME IInv, onBye
  PROVE  IInv'
  <1>b. PICK l \in {"accept", "done"} :
          pc' = [pc EXCEPT !["bye"] = l] /\ (l = "accept" => active)
    BY Zenon DEF onBye
  <1>f. /\ byeIn' \in BOOLEAN
        /\ ~byeIn'
    BY Typed, Zenon DEF onBye, SipTypeOK, CallTypeOK
  <1>l. "accept" \in PCs /\ "done" \in PCs
    BY Zenon, Labels DEF OtherPCs
  <1>p. pc' \in [Actors -> PCs]
    BY <1>l, Labels, Typed, Moves, Zenon DEF onBye
  <1>1. SipTypeOK'
    BY Typed, Labels, <1>f DEF onBye, SipTypeOK
  <1>2. CallTypeOK'
    BY Typed, <1>p, MovesOnly, Zenon DEF onBye
  <1>3. StepInv'
    BY <1>b, <1>f, ByeRead, Zenon DEF onBye, callRead
  <1> QED BY Zenon, <1>1, <1>2, <1>3, Whole

(* Close and CloseWith: close() starts, or has nothing to do.              *)
LEMMA CloseWithStep ==
  ASSUME IInv, NEW p \in Actors, CloseWith(p)
  PROVE  IInv'
  <1>f. infoError' \in BOOLEAN /\ unlisted' \in BOOLEAN
    BY Typed, Zenon DEF CloseWith, close, setErrStatus, CallTypeOK
  <1>a. /\ AfterClose(p) \in {"ensureClosed", "closeClient", "done"}
        /\ p = "dial" => AfterClose(p) = "ensureClosed"
        /\ p # "dial" => AfterClose(p) # "ensureClosed"
        /\ p \notin {"dial", "stop"} => AfterClose(p) = "done"
    BY Zenon, AfterCloseIs
  <1>l. AfterClose(p) \in PCs /\ "hangup" \in PCs
    BY Zenon, <1>a, Labels DEF ClosePCs, DialPCs, OtherPCs
  <1>p. pc' \in [Actors -> PCs]
    BY <1>l, Typed, Moves, Zenon DEF CloseWith, close
  <1>1. SipTypeOK'
    BY Typed, SipKept, Zenon DEF CloseWith
  <1>2. CallTypeOK'
    BY Typed, <1>p, <1>f DEF CloseWith, close, setErrStatus, CallTypeOK
  <1>3. StepInv'
    <2>1. CASE once = "none"
      <3>1. retry' => ~invited /\ (retry \/ p = "dial")
        BY Zenon, Basics DEF CloseWith, ReportInv
      <3>2. status' \in {status, "error"}
        BY <2>1, Zenon DEF CloseWith, close, setErrStatus
      <3>3. unlisted' <=> p # "dial" /\ pc["dial"] = "register"
        BY <2>1, Zenon DEF CloseWith, close
      <3> QED BY <2>1, <3>1, <3>2, <3>3, CloseBegins, Zenon
            DEF CloseWith, close, legRead
    <2>2. CASE once # "none" /\ p = "dial"
      BY <2>2, <1>a, DialMoves, Zenon DEF CloseWith, legRead, callRead
    <2>3. CASE once # "none" /\ p # "dial"
      <3>1. /\ PcInv' /\ (Private => Private')
            /\ AfterClose(p) \notin Closing /\ pc[p] \notin Closing
            /\ Goto(p, AfterClose(p))
            /\ p = "bye" => pc["bye"] # "idle"
        BY <2>3, <1>a, Typed, Basics, Labels DEF CloseWith, PcInv, Private,
             Closing, Actors, OtherPCs
      <3> QED BY <2>3, <3>1, OtherMoves, Zenon DEF CloseWith, legRead
    <2> QED BY Zenon, <2>1, <2>2, <2>3
  <1> QED BY Zenon, <1>1, <1>2, <1>3, Whole

(* closeWithTimeout.                                                       *)
LEMMA CloseWithTimeoutStep ==
  ASSUME IInv, closeWithTimeout
  PROVE  IInv'
  <1>f. infoError' \in BOOLEAN /\ unlisted' \in BOOLEAN
    BY Typed, Zenon DEF closeWithTimeout, close, setErrStatus, CallTypeOK
  <1>l. "ensureClosed" \in PCs /\ "hangup" \in PCs
    BY Zenon, Labels DEF ClosePCs, DialPCs
  <1>p. pc' \in [Actors -> PCs]
    BY <1>l, Labels, Typed, Moves, Zenon DEF closeWithTimeout, close
  <1>1. SipTypeOK'
    BY Typed, SipKept, Zenon DEF closeWithTimeout
  <1>2. CallTypeOK'
    BY Typed, Labels, <1>p, <1>f DEF closeWithTimeout, close, setErrStatus,
         CallTypeOK
  <1>3. StepInv'
    <2>0. /\ retry => ~invited
          /\ status' \in {status, "error"}
      BY Zenon, Basics DEF closeWithTimeout, close, setErrStatus, ReportInv
    <2>1. CASE once = "none"
      <3>1. unlisted' <=> FALSE
        BY <2>1, Zenon DEF closeWithTimeout, close
      <3> QED BY <2>0, <2>1, <3>1, Labels, CloseBegins, Zenon
            DEF closeWithTimeout, close, legRead
    <2>2. CASE once # "none"
      BY <2>0, <2>2, TimedOut, Zenon DEF closeWithTimeout, legRead
    <2> QED BY Zenon, <2>1, <2>2
  <1> QED BY Zenon, <1>1, <1>2, <1>3, Whole

(* connectSIP failed.                                                      *)
LEMMA DialFailedStep ==
  ASSUME IInv, dialFailed
  PROVE  IInv'
  <1>0. /\ canceller' \in BOOLEAN
        /\ UNCHANGED <<sipVars, wait, ret, invited, ctx, started, linkVars,
                       tableVars>>
        /\ At("dial", "fail")
    BY Zenon DEF dialFailed
  <1>l. "ensureClosed" \in PCs /\ "hangup" \in PCs
    BY Zenon, Labels DEF ClosePCs, DialPCs
  <1>1. SipTypeOK'
    BY <1>0, Typed, SipKept, Zenon
  <1>2. CASE once = "none"
    <2>1. PICK b \in BOOLEAN : close("dial", b)
      BY <1>2, FailureClassified, Zenon
    <2>2. UNCHANGED mu /\ retry' \in BOOLEAN /\ (retry' => ~invited)
      BY <1>2, FailureClassified, Zenon
    <2>3. infoError' \in BOOLEAN /\ unlisted' \in BOOLEAN /\ ~unlisted'
      BY <2>1, Typed, Zenon DEF close, setErrStatus, CallTypeOK
    <2>4. pc' \in [Actors -> PCs]
      BY <2>1, <1>l, Labels, Typed, Moves, Zenon DEF close
    <2>5. CallTypeOK'
      BY <1>0, <2>1, <2>2, <2>3, <2>4, Typed, Labels DEF close, setErrStatus,
           CallTypeOK
    <2>6. status' \in {status, "error"} /\ mu' = "dial"
      BY Zenon, <1>0, <2>1, <2>2, Basics DEF close, setErrStatus, LockInv,
           DialHolds
    <2>7. StepInv'
      BY <1>0, <1>2, <2>1, <2>2, <2>3, <2>6, Labels, CloseBegins, Zenon
        DEF close, legRead
    <2> QED BY Zenon, <1>1, <2>5, <2>7, Whole
  <1>3. CASE once # "none"
    <2>1. /\ retry' \in BOOLEAN /\ (retry' => ~invited) /\ mu' = "free"
          /\ Goto("dial", "ensureClosed")
          /\ UNCHANGED <<closeVars, stateVars>>
      BY <1>3, FailureClassified, Zenon
    <2>2. pc' \in [Actors -> PCs]
      BY <2>1, <1>l, Labels, Typed, Moves, Zenon
    <2>3. CallTypeOK'
      BY <1>0, <2>1, <2>2, Typed DEF CallTypeOK
    <2>4. StepInv'
      BY <1>0, <1>3, <2>1, DialFailed, Zenon DEF legRead
    <2> QED BY Zenon, <1>1, <2>3, <2>4, Whole
  <1> QED BY Zenon, <1>2, <1>3

(* The rest of close().                                                    *)
LEMMA CloseReleaseStep ==
  ASSUME IInv, NEW p \in Actors, closeRelease(p)
  PROVE  IInv'
  <1>f. /\ output' \in BOOLEAN /\ rpc' \in BOOLEAN /\ active' \in BOOLEAN
        /\ topic' \in BOOLEAN /\ stopped' \in BOOLEAN /\ retry' \in BOOLEAN
        /\ ~rpc' /\ ~active' /\ ~topic' /\ stopped'
    BY Typed, Zenon DEF closeRelease, CallTypeOK
  <1>a. /\ p = "dial" => AfterClose(p) = "ensureClosed"
        /\ p # "dial" => AfterClose(p) \in {"closeClient", "done"}
        /\ p = "stop" \/ AfterClose(p) # "closeClient"
    BY Zenon, AfterCloseIs
  <1>l. PICK l \in {"done", "ensureClosed", "closeClient"} :
          /\ Goto(p, l)
          /\ p = "stop" \/ l # "closeClient"
          /\ \/ p = "dial" /\ mu # p /\ l = "done" /\ ret' = "error"
             \/ /\ p = "dial" /\ mu = p /\ l = "ensureClosed"
                /\ UNCHANGED <<ret, retry>>
             \/ /\ p # "dial" /\ l \in {"closeClient", "done"}
                /\ UNCHANGED <<ret, retry>>
    <2>1. CASE p = "dial" /\ mu # p
      <3>1. /\ "done" \in {"done", "ensureClosed", "closeClient"}
            /\ "done" # "closeClient"
        OBVIOUS
      <3> QED BY <2>1, <3>1, Zenon DEF closeRelease
    <2>2. CASE p = "dial" /\ mu = p
      BY Zenon, <2>2, <1>a DEF closeRelease
    <2>3. CASE p # "dial"
      BY Zenon, <2>3, <1>a DEF closeRelease
    <2> QED BY Zenon, <2>1, <2>2, <2>3
  <1>s. l \in PCs
    BY Zenon, Labels DEF DialPCs, OtherPCs
  <1>p. pc' \in [Actors -> PCs]
    BY <1>l, <1>s, Typed, Moves, Zenon
  <1>1. SipTypeOK'
    BY Typed, SipKept, Zenon DEF closeRelease
  <1>2. CallTypeOK'
    BY Typed, <1>p, <1>f, <1>l DEF closeRelease, CallTypeOK
  <1>3. StepInv'
    <2>1. media' # "open" /\ room' \in {"none", "left"}
      BY Zenon DEF closeRelease
    <2> QED BY <1>f, <1>l, <2>1, CloseEnds, Zenon DEF closeRelease, legRead
  <1> QED BY Zenon, <1>1, <1>2, <1>3, Whole

(* The callee rings.                                                       *)
LEMMA LegPeerRings ==
  ASSUME IInv, PeerRings, UNCHANGED callVars
  PROVE  IInv'
  <1>1. SipTypeOK'
    BY Typed DEF PeerRings, SipTypeOK, Responses, Answers, PeerUp
  <1>2. CallTypeOK'
    BY Typed, CallKept, Zenon
  <1>3. StepInv'
    BY PeerRingsStep, Zenon DEF callRead
  <1> QED BY Zenon, <1>1, <1>2, <1>3, Whole

(* The callee answers.                                                     *)
LEMMA LegPeerAnswers ==
  ASSUME IInv, PeerAnswers, UNCHANGED callVars
  PROVE  IInv'
  <1>f. missed' \in BOOLEAN
    BY Typed, Zenon DEF PeerAnswers, Respond, SipTypeOK
  <1>1. SipTypeOK'
    BY Typed, <1>f DEF PeerAnswers, Respond, SipTypeOK, Responses, Answers,
         PeerUp
  <1>2. CallTypeOK'
    BY Typed, CallKept, Zenon
  <1>3. StepInv'
    BY PeerAnswersStep, Zenon DEF callRead
  <1> QED BY Zenon, <1>1, <1>2, <1>3, Whole

(* The callee refuses.                                                     *)
LEMMA LegPeerRefuses ==
  ASSUME IInv, PeerRefuses, UNCHANGED callVars
  PROVE  IInv'
  <1>1. SipTypeOK'
    BY Typed DEF PeerRefuses, Respond, SipTypeOK, Responses, Answers, PeerUp
  <1>2. CallTypeOK'
    BY Typed, CallKept, Zenon
  <1>3. StepInv'
    BY PeerRefusesStep, Zenon DEF callRead
  <1> QED BY Zenon, <1>1, <1>2, <1>3, Whole

(* The callee challenges the INVITE.                                       *)
LEMMA LegPeerChallenges ==
  ASSUME IInv, PeerChallenges, UNCHANGED callVars
  PROVE  IInv'
  <1>1. SipTypeOK'
    BY Typed DEF PeerChallenges, SipTypeOK, Responses, Answers, PeerUp
  <1>2. CallTypeOK'
    BY Typed, CallKept, Zenon
  <1>3. StepInv'
    BY PeerChallengesStep, Zenon DEF callRead
  <1> QED BY Zenon, <1>1, <1>2, <1>3, Whole

(* The callee hangs up.                                                    *)
LEMMA LegPeerHangsUp ==
  ASSUME IInv, PeerHangsUp, UNCHANGED callVars
  PROVE  IInv'
  <1>f. byeIn' \in BOOLEAN
    BY Typed, Zenon DEF PeerHangsUp, SipTypeOK
  <1>1. SipTypeOK'
    BY Typed, <1>f DEF PeerHangsUp, SipTypeOK, Responses, Answers, PeerUp
  <1>2. CallTypeOK'
    BY Typed, CallKept, Zenon
  <1>3. StepInv'
    BY PeerHangsUpStep, Zenon DEF callRead
  <1> QED BY Zenon, <1>1, <1>2, <1>3, Whole

(* The INVITE transaction times out.                                       *)
LEMMA LegTxTimeout ==
  ASSUME IInv, TxTimeout, UNCHANGED callVars
  PROVE  IInv'
  <1>f. expired' \in BOOLEAN
    BY Typed, Zenon DEF TxTimeout, SipTypeOK
  <1>1. SipTypeOK'
    BY Typed, <1>f DEF TxTimeout, SipTypeOK, Responses, Answers, PeerUp
  <1>2. CallTypeOK'
    BY Typed, CallKept, Zenon
  <1>3. StepInv'
    BY TxTimeoutStep, Zenon DEF callRead
  <1> QED BY Zenon, <1>1, <1>2, <1>3, Whole

(* watchCancelledInvite: a provisional response.                           *)
LEMMA LegWatchProvisional ==
  ASSUME IInv, WatchProvisional, UNCHANGED callVars
  PROVE  IInv'
  <1>1. SipTypeOK'
    BY Typed DEF WatchProvisional, responseProvisional, SipTypeOK, Responses,
         Answers, PeerUp
  <1>2. CallTypeOK'
    BY Typed, CallKept, Zenon
  <1>3. StepInv'
    BY WatchProvisionalStep, Zenon DEF callRead
  <1> QED BY Zenon, <1>1, <1>2, <1>3, Whole

(* watchCancelledInvite: an answer.                                        *)
LEMMA LegWatchAnswer ==
  ASSUME IInv, WatchAnswer, UNCHANGED callVars
  PROVE  IInv'
  <1>1. SipTypeOK'
    BY Typed DEF WatchAnswer, WriteAck, SipTypeOK, Responses, Answers, PeerUp
  <1>2. CallTypeOK'
    BY Typed, CallKept, Zenon
  <1>3. StepInv'
    BY WatchAnswerStep, Zenon DEF callRead
  <1> QED BY Zenon, <1>1, <1>2, <1>3, Whole

(* watchCancelledInvite: the BYE.                                          *)
LEMMA LegWatchBye ==
  ASSUME IInv, WatchBye, UNCHANGED callVars
  PROVE  IInv'
  <1>f. missed' \in BOOLEAN
    BY Typed, Zenon DEF WatchBye, WriteBye, SipTypeOK
  <1>1. SipTypeOK'
    BY Typed, <1>f DEF WatchBye, WriteBye, SipTypeOK, Responses, Answers,
         PeerUp
  <1>2. CallTypeOK'
    BY Typed, CallKept, Zenon
  <1>3. StepInv'
    BY WatchByeStep, Zenon DEF callRead
  <1> QED BY Zenon, <1>1, <1>2, <1>3, Whole

(* watchCancelledInvite returns.                                           *)
LEMMA LegWatchEnds ==
  ASSUME IInv, WatchEnds, UNCHANGED callVars
  PROVE  IInv'
  <1>f. expired' \in BOOLEAN
    BY Typed, Zenon DEF WatchEnds, SipTypeOK
  <1>1. SipTypeOK'
    BY Typed, <1>f DEF WatchEnds, SipTypeOK, Responses, Answers, PeerUp
  <1>2. CallTypeOK'
    BY Typed, CallKept, Zenon
  <1>3. StepInv'
    BY WatchEndsStep, Zenon DEF callRead
  <1> QED BY Zenon, <1>1, <1>2, <1>3, Whole

(* Init satisfies the invariant: every goroutine is at its start, or will  *)
(* never run.                                                              *)
LEMMA IInvInit == Init => IInv
  <1> SUFFICES ASSUME Init PROVE IInv
    OBVIOUS
  <1>1. /\ pc["dial"] = "request" /\ pc["bye"] = "idle"
        /\ \A p \in Actors \ {"dial"} : pc[p] \in {"idle", "done"}
        /\ pc = [p \in Actors |-> pc[p]]
    <2>1. PICK R \in Requests :
            pc = [p \in Actors |-> CASE p = "dial" -> "request"
                                     [] p \in R \cup {"bye"} -> "idle"
                                     [] OTHER -> "done"]
      BY Zenon DEF Init
    <2>2. "dial" \notin R \cup {"bye"} /\ "bye" # "dial"
      BY Zenon, RequestsAssumption
    <2>3. pc["dial"] = "request" /\ pc["bye"] = "idle"
      BY <2>1, <2>2, Labels, Zenon
    <2>4. \A p \in Actors \ {"dial"} : pc[p] \in {"idle", "done"}
      BY <2>1, <2>2, Labels, Zenon
    <2>5. pc = [p \in Actors |-> pc[p]]
      <3> DEFINE start(p) == CASE p = "dial" -> "request"
                               [] p \in R \cup {"bye"} -> "idle"
                               [] OTHER -> "done"
      <3>1. pc = [p \in Actors |-> start(p)]
        BY <2>1, Zenon
      <3> HIDE DEF start
      <3> QED BY Zenon, <3>1
    <2> QED BY Zenon, <2>3, <2>4, <2>5
  <1>2. /\ ~inviteOk /\ ~malformed /\ ~byeRcvd /\ ~byeIn /\ ~expired /\ ~missed
        /\ ~closing /\ ~cliClosed
        /\ {inviteOk, malformed, byeRcvd, byeIn, expired, missed, closing,
            cliClosed} \subseteq BOOLEAN
    BY Zenon DEF Init, SipInit
  <1>3. /\ ~retry /\ ~invited /\ ~rpc /\ ~topic /\ ~active /\ ~stopped
        /\ ~early /\ ~unlisted /\ ~ended /\ ~stale
        /\ {wait, retry, invited, ctx, canceller, rpc, topic, active, target,
            stopped, early, unlisted, started, infoError, ended, stale, output}
              \subseteq BOOLEAN
    BY Zenon DEF Init
  <1>4. SipTypeOK
    BY <1>2, MaxTriesAssumption DEF Init, SipInit, SipTypeOK
  <1>5. CallTypeOK
    <2>1. \A p \in Actors : pc[p] \in PCs
      BY Zenon, <1>1 DEF PCs, DialPCs
    <2>2. pc \in [Actors -> PCs]
      BY Zenon, <1>1, <2>1
    <2> QED BY Zenon, <1>3, <2>2 DEF Init, CallTypeOK
  <1>6. LockInv /\ PcInv
    BY Zenon, <1>1, <1>2 DEF Init, SipInit, LockInv, PcInv, Actors, Closing,
         DialHolds, DialPCs
  <1>7. OnceInv /\ ReportInv
    BY Zenon, <1>1, <1>2, <1>3 DEF Init, SipInit, OnceInv, ReportInv, Private,
         Released, Unsent, Sending, DialHolds, Closing, Actors
  <1>8. LegInv /\ HangUpInv
    BY Zenon, <1>1, <1>2, <1>3 DEF Init, SipInit, LegInv, HangUpInv, Unsent,
         Answers, PeerUp
  <1> QED BY Zenon, <1>4, <1>5, <1>6, <1>7, <1>8 DEF IInv, TypeOK, StepInv

(* Every step keeps it.                                                    *)
LEMMA IInvStep ==
  ASSUME IInv, [Next]_vars
  PROVE  IInv'
  <1>1. CASE createRefused \/ createReturns \/ InviteProvisional
    BY Zenon, <1>1, CreateRefusedStep, CreateReturnsStep,
         InviteProvisionalStep
  <1>2. CASE Dialer
    BY <1>2, CreateSIPParticipantStep, NewCallMediaStep, ConnectToRoomStep,
         NewCallRegisterStep, StartDialStep, DialAsyncStep, ConnectSIPStep,
         SipSignalStep, InviteStep, InviteCancelledStep, InviteTimedOutStep,
         InviteAnsweredStep, InviteFailedStep, InviteChallengedStep,
         InviteErrCloseStep, InviteErrClosedStep, SetAnswerStep, AckAnswerStep,
         AnswerAbortedStep, CallEstablishedStep, DialFailedStep,
         DialSucceededStep, WaitEndsStep, WaitClosedStep, CloseWithTimeoutStep,
         EnsureClosedStep, Zenon DEF Dialer
  <1>3. CASE waitMediaTimeout \/ ringingTimeout \/ cancelDial
    BY Zenon, <1>3, WaitMediaTimeoutStep, RingingTimeoutStep, CancelDialStep
  <1>4. CASE (Watcher \/ Environment) /\ UNCHANGED callVars
    <2>1. CASE Watcher /\ UNCHANGED callVars
      BY <2>1, LegWatchProvisional, LegWatchAnswer, LegWatchBye, LegWatchEnds,
           Zenon DEF Watcher
    <2>2. CASE Environment /\ UNCHANGED callVars
      BY <2>2, LegPeerRings, LegPeerAnswers, LegPeerRefuses, LegPeerChallenges,
           LegPeerHangsUp, LegTxTimeout, Zenon DEF Environment
    <2> QED BY <1>4, <2>1, <2>2, Zenon
  <1>5. ASSUME NEW p \in Actors, Closer(p)
        PROVE  IInv'
    BY <1>5, CloseWithStep, StopSIPStep, StopSIPAnsweredStep, CloseReleaseStep,
         Zenon DEF Closer
  <1>6. CASE StoppedBreaks \/ RoomDisconnects \/ EndCall
    BY Zenon, <1>6, StoppedBreaksStep, RoomDisconnectsStep, EndCallStep
  <1>7. CASE StopBegins \/ Stopper
    BY <1>7, StopBeginsStep, StopSnapshotStep, StopClosesClientStep, Zenon
      DEF Stopper
  <1>8. CASE onBye \/ onByeAccept
    BY Zenon, <1>8, OnByeStep, OnByeAcceptStep
  <1>9. CASE transferCall \/ Transferrer
    BY <1>9, TransferCallStep, TransferMuteStep, TransferReferStep,
         TransferFailedStep, TransferRestoreStep, TransferDoneStep,
         TransferClosesStep, Zenon DEF Transferrer
  <1>10. CASE UNCHANGED vars
    <2>1. SipTypeOK' /\ CallTypeOK'
      BY <1>10, Typed, SipKept, CallKept, Zenon
    <2>2. StepInv'
      BY <1>10, Quiet, Zenon DEF legRead, callRead
    <2> QED BY Zenon, <2>1, <2>2, Whole
  <1> QED BY <1>1, <1>2, <1>3, <1>4, <1>5, <1>6, <1>7, <1>8, <1>9, <1>10, Zenon
        DEF Next, Rest

(* Every reachable state of a call satisfies the inductive invariant,      *)
(* whatever of EndCall, Client.Stop, a BYE and a transfer runs beside the  *)
(* dialling goroutine.                                                     *)
THEOREM OutboundInvariance == Spec => []IInv
  <1>1. IInv /\ [Next]_vars => IInv'
    BY Zenon, IInvStep
  <1> QED BY <1>1, IInvInit, PTL DEF Spec

(* c.mu and cc.mu are held by a goroutine whose code is between Lock and   *)
(* Unlock, one goroutine at most runs the body of close(), and a live      *)
(* transaction has a reader.                                               *)
THEOREM LocksHeldHolds == Spec => []LocksHeld
  <1>1. IInv => LocksHeld
    BY Zenon DEF IInv, StepInv, LocksHeld
  <1> QED BY <1>1, OutboundInvariance, PTL

(* A callee that answered is hung up on by close(), by sipSignal or by     *)
(* watchCancelledInvite, unless its answer reached nobody.                 *)
THEOREM AnsweredIsHungUpHolds == Spec => []AnsweredIsHungUp
  <1>1. IInv => AnsweredIsHungUp
    <2> SUFFICES ASSUME IInv, Over, peer \in PeerUp, ~missed, ~early
                 PROVE  FALSE
      BY Zenon DEF AnsweredIsHungUp
    <2>0. /\ \A p \in Actors : pc[p] \in Idle
          /\ watcher \notin {"watch", "bye"}
      BY Zenon DEF Over
    <2>1. pc["dial"] = "done" /\ peer # "idle" /\ invited
      BY ZenonT(30), <2>0, Typed, Basics, Labels DEF Idle, PcInv, ReportInv,
           ClosePCs, DialPCs, PeerUp, CallTypeOK
    <2>2. once # "none" /\ once \in Actors
      BY Zenon, <2>1, Typed, Basics DEF OnceInv, Private, CallTypeOK
    <2>3. pc[once] # "hangup" /\ tx # "live"
      BY Zenon, <2>0, <2>1, <2>2, Basics DEF Idle, LockInv
    <2> QED BY Zenon, <2>0, <2>2, <2>3, Basics DEF HangUpInv
  <1> QED BY <1>1, OutboundInvariance, PTL

(* One termination, one session end and everything released, whoever ran   *)
(* close() and wherever the call was interrupted.                          *)
THEOREM ReleasedOnceHolds == Spec => []ReleasedOnce
  <1>1. IInv => ReleasedOnce
    <2> SUFFICES ASSUME IInv, Over, status # "none"
                 PROVE  /\ terms = 1 /\ sessionEnds = 1
                        /\ media # "open"
                        /\ room \in {"none", "left"}
                        /\ ~topic
                        /\ active => unlisted
      BY Zenon DEF ReleasedOnce
    <2>0. \A p \in Actors : pc[p] \in Idle
      BY Zenon DEF Over
    <2>1. pc["dial"] = "done"
      BY Zenon, <2>0, Basics, Labels DEF Idle, PcInv, ClosePCs, DialPCs
    <2>2. once # "none" /\ once \in Actors
      BY Zenon, <2>1, Typed, Basics DEF OnceInv, Private, CallTypeOK
    <2>3. Released
      BY Zenon, <2>0, <2>2 DEF Idle, Released, Closing
    <2> QED BY Zenon, <2>2, <2>3, Basics DEF OnceInv
  <1> QED BY <1>1, OutboundInvariance, PTL

(* The error of createSIPParticipant invites no other try once an INVITE   *)
(* may have left.                                                          *)
THEOREM NoRedialHolds == Spec => []NoRedial
  <1>1. IInv => NoRedial
    BY Zenon, Basics DEF ReportInv, NoRedial
  <1> QED BY <1>1, OutboundInvariance, PTL

(* The last status of a call is an end, or PARTICIPANT_JOINED written over *)
(* it by the late update of createSIPParticipant.                          *)
THEOREM EndReportedHolds == Spec => []EndReported
  <1>1. IInv => EndReported
    <2> SUFFICES ASSUME IInv, Over, status # "none"
                 PROVE  status \in {"error", "disconnected"} \/ stale
      BY Zenon DEF EndReported
    <2>0. (\A p \in Actors : pc[p] \in Idle) /\ ret = "done"
      BY Zenon DEF Over
    <2>1. pc["dial"] = "done"
      BY Zenon, <2>0, Basics, Labels DEF Idle, PcInv, ClosePCs, DialPCs
    <2>2. once # "none"
      BY Zenon, <2>1, Basics DEF OnceInv, Private
    <2> QED BY Zenon, <2>0, <2>1, <2>2, Basics DEF ReportInv
  <1> QED BY <1>1, OutboundInvariance, PTL

(* The dialog the callee sees depends on these variables of the leg.       *)
dialogRead == <<inviteOk, malformed, watcher, acks, byes, byeRcvd>>

(* While these stay the same, so does the dialog.                          *)
LEMMA DialogKept ==
  ASSUME UNCHANGED dialogRead
  PROVE  UNCHANGED UAC!dialogVars
  BY Zenon DEF dialogRead, UAC!dialogVars

(* The dialog starts in its first state.                                   *)
LEMMA DialogInits == Init => UAC!DialogInit
  <1> SUFFICES ASSUME Init PROVE UAC!DialogInit
    OBVIOUS
  <1>1. /\ acks = 0 /\ byes = 0 /\ ~byeRcvd /\ ~inviteOk /\ ~malformed
        /\ watcher = "none"
    BY Zenon DEF Init, SipInit
  <1> QED BY <1>1 DEF UAC!DialogInit

(* What the leg knows of the dialog.                                       *)
LEMMA DialogFacts ==
  ASSUME IInv
  PROVE  /\ acks \in Nat /\ byes \in Nat
         /\ {inviteOk, malformed, byeRcvd} \subseteq BOOLEAN
         /\ inviteOk => watcher = "none" /\ ~byeRcvd
         /\ pc["dial"] = "await" => /\ ~inviteOk /\ ~malformed /\ acks = 0
                                    /\ byes = 0 /\ watcher = "none"
         /\ pc["dial"] = "ack" => acks = 0 /\ byes = 0 /\ watcher = "none"
         /\ pc["dial"] = "inviteErr" /\ inviteOk => byes = 0
         /\ resp \in Answers => ~byeRcvd
         /\ watcher = "watch" => acks = 0 /\ byes = 0
         /\ watcher = "bye" => acks = 1 /\ byes = 0
         /\ \A p \in Actors :
              pc[p] = "hangup" /\ inviteOk /\ byes # 0 => malformed /\ byes = 1
  <1>1. \A p \in Actors : pc[p] = "hangup" => once = p
    BY Zenon, Basics DEF LockInv, Closing
  <1> QED BY ZenonT(30), <1>1, Typed, Basics DEF SipTypeOK, LegInv, Unsent

(* Invite reads the answer.                                                *)
LEMMA FinalRefines ==
  ASSUME IInv, At("dial", "await"), NEW r, NEW again, responseFinal(r, again)
  PROVE  UAC!Answered \/ UNCHANGED UAC!dialogVars
  <1>1. CASE r \in Answers
    <2>1. inviteOk' /\ malformed' \in BOOLEAN
      BY <1>1, FinalFlags, Zenon DEF responseFinal
    <2>2. /\ ~inviteOk /\ acks = 0 /\ byes = 0 /\ watcher = "none" /\ ~byeRcvd
          /\ UNCHANGED <<acks, byes, watcher, byeRcvd>>
      BY Zenon, <1>1, DialogFacts DEF responseFinal
    <2> QED BY <2>1, <2>2 DEF UAC!Answered
  <1>2. CASE r \notin Answers
    <2>1. UNCHANGED dialogRead
      BY <1>2, DialogFacts DEF responseFinal, dialogRead, Answers
    <2> QED BY Zenon, <2>1, DialogKept
  <1> QED BY Zenon, <1>1, <1>2

(* AckInviteOK                                                             *)
LEMMA AckRefines ==
  ASSUME IInv, At("dial", "ack"), AckInviteOK
  PROVE  UAC!Ack
  BY DialogFacts DEF AckInviteOK, WriteAck, UAC!Ack

(* cc.Close, from sipSignal and from close().                              *)
LEMMA CloseRefines ==
  ASSUME IInv, NEW p \in Actors, ccClose(p),
         At(p, "hangup") \/ (p = "dial" /\ At(p, "inviteErr"))
  PROVE  UAC!HangUp \/ UAC!HangUpAgain \/ UNCHANGED UAC!dialogVars
  <1>1. CASE inviteOk
    <2>1. /\ byes' = byes + 1
          /\ UNCHANGED <<malformed, watcher, acks, byeRcvd>>
      BY Zenon, <1>1 DEF ccClose, sendBye, WriteBye
    <2>2. CASE byes = 0
      BY <1>1, <2>1, <2>2, DialogFacts DEF UAC!HangUp
    <2>3. CASE byes # 0
      BY <1>1, <2>1, <2>3, DialogFacts DEF UAC!HangUpAgain
    <2> QED BY Zenon, <2>2, <2>3
  <1>2. CASE ~inviteOk
    <2>1. inviteOk = FALSE
      BY <1>2, DialogFacts, Zenon
    <2>2. UNCHANGED dialogRead
      BY <1>2, <2>1, Zenon DEF ccClose, drop, dialogRead
    <2> QED BY Zenon, <2>2, DialogKept
  <1> QED BY Zenon, <1>1, <1>2

(* AcceptBye                                                               *)
LEMMA AcceptByeRefines ==
  ASSUME IInv, AcceptBye
  PROVE  UAC!RemoteBye \/ UNCHANGED UAC!dialogVars
  <1>1. byeRcvd' /\ byeRcvd' \in BOOLEAN
    BY Zenon DEF AcceptBye
  <1> QED BY Zenon, <1>1, DialogFacts DEF AcceptBye, UAC!RemoteBye,
       UAC!dialogVars

(* watchCancelledInvite                                                    *)
LEMMA WatcherRefines ==
  ASSUME IInv, Watcher
  PROVE  [UAC!DialogNext]_UAC!dialogVars
  <1>1. CASE WatchProvisional
    BY <1>1, DialogKept, Zenon DEF WatchProvisional, responseProvisional,
         dialogRead
  <1>2. CASE WatchAnswer
    <2>1. UAC!AnsweredLate
      BY <1>2, DialogFacts DEF WatchAnswer, WriteAck, UAC!AnsweredLate
    <2> QED BY Zenon, <2>1 DEF UAC!DialogNext
  <1>3. CASE WatchBye
    <2>1. UAC!HangUp \/ UAC!HangUpAgain
      BY <1>3, DialogFacts DEF WatchBye, WriteBye, UAC!HangUp, UAC!HangUpAgain
    <2> QED BY Zenon, <2>1 DEF UAC!DialogNext
  <1>4. CASE WatchEnds
    <2>1. acks = 0 /\ UNCHANGED <<inviteOk, malformed, acks, byes, byeRcvd>>
      BY Zenon, <1>4, DialogFacts DEF WatchEnds
    <2> QED BY <2>1 DEF UAC!dialogVars
  <1> QED BY Zenon, <1>1, <1>2, <1>3, <1>4 DEF Watcher

(* The select of sipResponse gives up: the watcher starts.                 *)
LEMMA AbandonRefines ==
  ASSUME IInv, At("dial", "await"), NEW d, AbandonInvite(d)
  PROVE  UNCHANGED UAC!dialogVars
  <1>1. acks = 0 /\ UNCHANGED <<inviteOk, malformed, acks, byes, byeRcvd>>
    BY Zenon, DialogFacts DEF AbandonInvite
  <1> QED BY <1>1 DEF UAC!dialogVars

(* Steps of the call beside its SIP leg.                                   *)
LEMMA CallOnly ==
  ASSUME \/ createRefused \/ createReturns \/ waitMediaTimeout
         \/ ringingTimeout \/ cancelDial \/ createSIPParticipant
         \/ newCallMedia \/ connectToRoom \/ newCallRegister \/ startDial
         \/ DialAsync \/ connectSIP \/ sipSignal \/ setAnswer \/ answerAborted
         \/ callEstablished \/ dialSucceeded \/ dialFailed \/ waitEnds
         \/ waitClosed \/ closeWithTimeout \/ ensureClosed
         \/ StoppedBreaks \/ RoomDisconnects \/ EndCall \/ StopSnapshot
         \/ transferCall \/ Transferrer
  PROVE  UNCHANGED sipVars
  BY ZenonT(30) DEF createRefused, createReturns, waitMediaTimeout,
       ringingTimeout, cancelDial, createSIPParticipant, newCallMedia,
       connectToRoom, newCallRegister, startDial, DialAsync, connectSIP,
       sipSignal, setAnswer, answerAborted, callEstablished, dialSucceeded,
       dialFailed, waitEnds, waitClosed, closeWithTimeout, ensureClosed,
       StoppedBreaks, RoomDisconnects, EndCall, StopSnapshot, transferCall,
       Transferrer, transferMute, transferRefer, transferFailed,
       transferRestore, transferDone, transferCloses

(* They leave the dialog alone.                                            *)
LEMMA QuietDialog ==
  ASSUME UNCHANGED sipVars
  PROVE  UNCHANGED UAC!dialogVars
  BY DialogKept, Zenon DEF dialogRead

(* Every step of the call is a step of the dialog, or none.                *)
LEMMA DialogStep ==
  ASSUME IInv, [Next]_vars
  PROVE  [UAC!DialogNext]_UAC!dialogVars
  <1>1. CASE \/ InviteAnswered \/ InviteFailed \/ InviteChallenged
    BY <1>1, FinalRefines, Zenon DEF InviteAnswered, InviteFailed,
         InviteChallenged, UAC!DialogNext
  <1>2. CASE InviteCancelled \/ InviteTimedOut
    BY <1>2, AbandonRefines, Zenon DEF InviteCancelled, InviteTimedOut,
         responseCancelled, responseTimedOut
  <1>3. CASE Invite \/ InviteProvisional \/ InviteErrClosed
    BY <1>3, DialogKept, Zenon DEF Invite, attemptInvite, attemptFails,
         InviteProvisional, responseProvisional, InviteErrClosed, ByeAnswered,
         dialogRead
  <1>4. CASE InviteErrClose
    BY <1>4, CloseRefines, Labels, Zenon DEF InviteErrClose, UAC!DialogNext
  <1>5. CASE ackAnswer
    BY <1>5, AckRefines, QuietDialog, Zenon DEF ackAnswer, UAC!DialogNext
  <1>6. CASE Watcher
    BY Zenon, <1>6, WatcherRefines
  <1>7. CASE Environment
    BY <1>7, DialogKept, Zenon DEF Environment, PeerRings, PeerAnswers,
         PeerRefuses, PeerChallenges, PeerHangsUp, TxTimeout, dialogRead
  <1>8. ASSUME NEW p \in Actors, Closer(p)
        PROVE  [UAC!DialogNext]_UAC!dialogVars
    <2>1. CASE stopSIP(p)
      BY <2>1, CloseRefines, Zenon DEF stopSIP, UAC!DialogNext
    <2>2. CASE stopSIPAnswered(p)
      BY <2>2, DialogKept, Zenon DEF stopSIPAnswered, ByeAnswered, dialogRead
    <2>3. CASE CloseWith(p) \/ closeRelease(p)
      BY <2>3, QuietDialog, Zenon DEF CloseWith, closeRelease
    <2> QED BY <1>8, <2>1, <2>2, <2>3, Zenon DEF Closer
  <1>9. CASE StopBegins \/ StopClosesClient \/ onBye
    BY <1>9, DialogKept, Zenon DEF StopBegins, StopClosesClient, onBye,
         dialogRead
  <1>10. CASE onByeAccept
    BY <1>10, AcceptByeRefines, Zenon DEF onByeAccept, UAC!DialogNext
  <1>11. CASE UNCHANGED vars
    BY <1>11, QuietDialog, Zenon
  <1> QED BY Zenon, <1>1, <1>2, <1>3, <1>4, <1>5, <1>6, <1>7, <1>8, <1>9,
       <1>10,
        <1>11, CallOnly, QuietDialog, ZenonT(30) DEF Next, Dialer, Stopper, Rest

(* The leg keeps the promise of UACDialog: one ACK at most, in a dialog    *)
(* that stands, and one BYE at most, whichever goroutines race to close    *)
(* the call, with the exceptions UACDialog names.                          *)
THEOREM UACRefined == Spec => ImplementsUAC
  <1>1. IInv /\ [Next]_vars => [UAC!DialogNext]_UAC!dialogVars
    BY Zenon, DialogStep
  <1> QED BY <1>1, DialogInits, OutboundInvariance, PTL
        DEF Spec, ImplementsUAC, UAC!Dialog
==============================================================================
