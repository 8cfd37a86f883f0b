-------------------------- MODULE OutboundCallSteps --------------------------
(***************************************************************************)
(* The steps of the SIP leg of an outbound call, and those of its          *)
(* goroutines, keep the invariant of OutboundCallState.  Each lemma states *)
(* a step only by what it reads and assigns, and OutboundCallProofs        *)
(* applies it to the action taking it.                                     *)
(***************************************************************************)
EXTENDS OutboundCallState, TLAPS

USE SMTT(30)
USE DEF At, Goto

(* The parts of the invariant, and the types locks and counters need.      *)
LEMMA Basics ==
  ASSUME IInv
  PROVE  /\ LockInv /\ PcInv /\ OnceInv /\ ReportInv /\ LegInv /\ HangUpInv
         /\ pc \in [Actors -> PCs] /\ once \in Actors \cup {"none"}
         /\ mu \in Actors \cup {"free"} /\ ccmu \in Actors \cup {"free"}
         /\ acks \in Nat /\ byes \in Nat /\ tries \in Nat /\ terms \in Nat
         /\ sessionEnds \in Nat
  <1>1. SipTypeOK /\ CallTypeOK
    BY Zenon DEF IInv, TypeOK
  <1>2. tries \in Nat
    BY <1>1, MaxTriesAssumption DEF SipTypeOK
  <1> QED BY Zenon, <1>1, <1>2 DEF IInv, StepInv, SipTypeOK, CallTypeOK

(* The variables of the leg and of the call that the invariant reads.      *)
legRead == <<ccmu, inviteOk, malformed, tries, tx, resp, watcher, peer, acks,
             byes, byeRcvd, byeIn, expired, missed>>
callRead == <<mu, ret, retry, invited, media, room, rpc, topic, active, once,
              stopped, early, unlisted, terms, sessionEnds, status, ended,
              stale>>

(* A step that changes none of them.                                       *)
LEMMA Quiet ==
  ASSUME IInv, UNCHANGED <<pc, legRead, callRead>>
  PROVE  StepInv'
  <1>1. LockInv' /\ PcInv'
    BY Basics DEF LockInv, PcInv, legRead, callRead
  <1>2. OnceInv'
    BY Zenon, Basics DEF OnceInv, Released, Private, callRead
  <1>3. ReportInv' /\ HangUpInv'
    BY Basics DEF ReportInv, HangUpInv, legRead, callRead
  <1>4. LegInv'
    BY ZenonT(30), Basics DEF LegInv, legRead, callRead
  <1> QED BY Zenon, <1>1, <1>2, <1>3, <1>4 DEF StepInv

(* A step of the leg alone.                                                *)
LEMMA LegMoves ==
  ASSUME IInv, UNCHANGED <<pc, callRead, tries>>,
         peer = "idle" => peer' = "idle"
  PROVE  PcInv' /\ OnceInv' /\ ReportInv'
  <1>1. PcInv' /\ OnceInv'
    BY Basics DEF PcInv, OnceInv, Released, Private, callRead
  <1>2. ReportInv'
    BY Zenon, Basics DEF ReportInv, callRead
  <1> QED BY Zenon, <1>1, <1>2

(* A step of the dialling goroutine while Invite or dialSIP runs.          *)
LEMMA InviteMoves ==
  ASSUME IInv, pc["dial"] \in Sending, NEW l \in Sending \cup {"fail"},
         pc' = [pc EXCEPT !["dial"] = l], UNCHANGED callRead
  PROVE  PcInv' /\ OnceInv' /\ ReportInv'
  <1>1. /\ pc'["dial"] = l
        /\ \A q \in Actors \ {"dial"} : pc'[q] = pc[q]
    BY Zenon, Basics DEF Actors
  <1>2. PcInv'
    BY Basics, <1>1 DEF PcInv, Sending, DialPCs, Actors
  <1>3. (Released' <=> Released) /\ (Private' <=> Private)
    BY ZenonT(30), Basics, <1>1 DEF Released, Private, callRead, Actors, Sending,
         Closing
  <1>4. OnceInv'
    BY Basics, <1>1, <1>3 DEF OnceInv, Sending, DialHolds, Closing, callRead
  <1>5. ReportInv'
    BY Zenon, Basics, <1>1 DEF ReportInv, Sending, Unsent, Closing, callRead
  <1> QED BY Zenon, <1>2, <1>4, <1>5

(* A step inside close().                                                  *)
LEMMA CloserMoves ==
  ASSUME IInv, NEW p \in Actors, pc[p] \in Closing, NEW l \in Closing,
         pc' = [pc EXCEPT ![p] = l], UNCHANGED <<callRead, tries>>,
         peer = "idle" => peer' = "idle"
  PROVE  PcInv' /\ OnceInv' /\ ReportInv'
  <1>1. /\ pc'[p] = l
        /\ \A q \in Actors \ {p} : pc'[q] = pc[q]
    BY Zenon, Basics
  <1>2. PcInv'
    BY Basics, <1>1 DEF PcInv, ClosePCs, Closing, Actors
  <1>3. once = p
    BY Zenon, Basics DEF LockInv
  <1>4. ~Released' /\ ~Released /\ ~Private' /\ ~Private
    BY Zenon, Basics, <1>1, <1>3 DEF Released, Private, callRead, Actors
  <1>5. OnceInv'
    BY ZenonT(30), Basics, <1>1, <1>3, <1>4 DEF OnceInv, DialHolds, Closing,
         callRead, Actors
  <1>6. ReportInv'
    BY Basics, <1>1 DEF ReportInv, Sending, Unsent, Closing, callRead, Actors
  <1> QED BY Zenon, <1>2, <1>5, <1>6

(* A step of the BYE handler before close().                               *)
LEMMA ByeMoves ==
  ASSUME IInv, pc["bye"] \in {"idle", "accept"},
         NEW l \in {"accept", "lock", "done"},
         pc' = [pc EXCEPT !["bye"] = l], l # "done" => ~Private,
         UNCHANGED <<callRead, tries, peer>>
  PROVE  PcInv' /\ OnceInv' /\ ReportInv'
  <1>1. /\ pc'["bye"] = l
        /\ \A q \in Actors \ {"bye"} : pc'[q] = pc[q]
    BY Zenon, Basics DEF Actors
  <1>2. PcInv'
    BY Zenon, Basics, <1>1 DEF PcInv, ClosePCs, Actors
  <1>3. (Released' <=> Released) /\ (Private => Private')
    BY Zenon, Basics, <1>1 DEF Released, Private, callRead, Actors, Closing
  <1>4. OnceInv'
    BY ZenonT(30), Basics, <1>1, <1>3 DEF OnceInv, callRead, Actors
  <1>5. ReportInv'
    BY Zenon, Basics, <1>1 DEF ReportInv, callRead, Actors
  <1> QED BY Zenon, <1>2, <1>4, <1>5

(* The callee and the timers of the SIP stack.                             *)
LEMMA PeerRingsStep ==
  ASSUME IInv, PeerRings, UNCHANGED <<pc, callRead>>
  PROVE  StepInv'
  <1>1. PcInv' /\ OnceInv' /\ ReportInv'
    BY Zenon, Basics, LegMoves DEF PeerRings, LegInv, Answers, PeerUp
  <1>2. LockInv'
    BY ZenonT(30), Basics DEF PeerRings, LockInv, Actors, DialHolds, Closing,
         callRead
  <1>3. LegInv'
    BY Zenon, Basics DEF PeerRings, LegInv, LockInv, Actors, DialHolds,
         Closing, Unsent, Answers, PeerUp, callRead
  <1>4. HangUpInv'
    BY Zenon, Basics DEF PeerRings, HangUpInv, LegInv, OnceInv, LockInv,
         Actors, DialHolds, Closing, Unsent, Answers, PeerUp, callRead
  <1> QED BY Zenon, <1>1, <1>2, <1>3, <1>4 DEF StepInv

(* The callee answers, also when nobody reads the transaction any more.    *)
LEMMA PeerAnswersStep ==
  ASSUME IInv, PeerAnswers, UNCHANGED <<pc, callRead>>
  PROVE  StepInv'
  <1>0. missed' <=> (missed \/ expired)
    BY Zenon DEF PeerAnswers, Respond
  <1>1. PcInv' /\ OnceInv' /\ ReportInv'
    BY Zenon, Basics, LegMoves DEF PeerAnswers, Respond, LegInv, Answers,
         PeerUp
  <1>2. LockInv'
    BY Basics, <1>0 DEF PeerAnswers, Respond, LockInv, Actors, DialHolds,
         Closing, callRead
  <1>3. LegInv'
    BY Zenon, Basics, <1>0 DEF PeerAnswers, Respond, LegInv, LockInv, Actors,
         DialHolds, Closing, Unsent, Answers, PeerUp, callRead
  <1>4. HangUpInv'
    BY Zenon, Basics, <1>0 DEF PeerAnswers, Respond, HangUpInv, LegInv,
         OnceInv, LockInv, Actors, DialHolds, Closing, Unsent, Answers,
         PeerUp, callRead
  <1> QED BY Zenon, <1>1, <1>2, <1>3, <1>4 DEF StepInv

(* The callee refuses the call.                                            *)
LEMMA PeerRefusesStep ==
  ASSUME IInv, PeerRefuses, UNCHANGED <<pc, callRead>>
  PROVE  StepInv'
  <1>1. PcInv' /\ OnceInv' /\ ReportInv'
    BY Zenon, Basics, LegMoves DEF PeerRefuses, Respond, LegInv, Answers,
         PeerUp
  <1>2. LockInv'
    BY Basics DEF PeerRefuses, Respond, LockInv, Actors, DialHolds, Closing,
         callRead
  <1>3. LegInv'
    BY Zenon, Basics DEF PeerRefuses, Respond, LegInv, LockInv, Actors,
         DialHolds, Closing, Unsent, Answers, PeerUp, callRead
  <1>4. HangUpInv'
    BY Zenon, Basics DEF PeerRefuses, Respond, HangUpInv, LegInv, OnceInv,
         LockInv, Actors, DialHolds, Closing, Unsent, Answers, PeerUp,
         callRead
  <1> QED BY Zenon, <1>1, <1>2, <1>3, <1>4 DEF StepInv

(* The callee asks for credentials and forgets the INVITE.                 *)
LEMMA PeerChallengesStep ==
  ASSUME IInv, PeerChallenges, UNCHANGED <<pc, callRead>>
  PROVE  StepInv'
  <1>1. PcInv' /\ OnceInv' /\ ReportInv'
    BY Zenon, Basics, LegMoves DEF PeerChallenges, LegInv, Answers, PeerUp
  <1>2. LockInv'
    BY Basics DEF PeerChallenges, LockInv, Actors, DialHolds, Closing,
         callRead
  <1>3. LegInv'
    BY Zenon, Basics DEF PeerChallenges, LegInv, LockInv, Actors, DialHolds,
         Closing, Unsent, Answers, PeerUp, callRead
  <1>4. HangUpInv'
    BY Zenon, Basics DEF PeerChallenges, HangUpInv, LegInv, OnceInv, LockInv,
         Actors, DialHolds, Closing, Unsent, Answers, PeerUp, callRead
  <1> QED BY Zenon, <1>1, <1>2, <1>3, <1>4 DEF StepInv

(* The callee hangs up: its BYE is on its way.                             *)
LEMMA PeerHangsUpStep ==
  ASSUME IInv, PeerHangsUp, UNCHANGED <<pc, callRead>>
  PROVE  StepInv'
  <1>0. byeIn'
    BY Zenon DEF PeerHangsUp
  <1>1. PcInv' /\ OnceInv' /\ ReportInv'
    BY Zenon, Basics, LegMoves DEF PeerHangsUp, LegInv, Answers, PeerUp
  <1>2. LockInv'
    BY Basics, <1>0 DEF PeerHangsUp, LockInv, Actors, DialHolds, Closing,
         callRead
  <1>3. LegInv'
    BY Zenon, Basics, <1>0 DEF PeerHangsUp, LegInv, LockInv, Actors,
         DialHolds, Closing, Unsent, Answers, PeerUp, callRead
  <1>4. HangUpInv'
    BY Zenon, Basics, <1>0 DEF PeerHangsUp, HangUpInv, LegInv, OnceInv,
         LockInv, Actors, DialHolds, Closing, Unsent, Answers, PeerUp,
         callRead
  <1> QED BY Zenon, <1>1, <1>2, <1>3, <1>4 DEF StepInv

(* The INVITE transaction ends without a final response.                   *)
LEMMA TxTimeoutStep ==
  ASSUME IInv, TxTimeout, UNCHANGED <<pc, callRead>>
  PROVE  StepInv'
  <1>0. expired'
    BY Zenon DEF TxTimeout
  <1>1. PcInv' /\ OnceInv' /\ ReportInv'
    BY Zenon, Basics, LegMoves DEF TxTimeout, LegInv, Answers, PeerUp
  <1>2. LockInv'
    BY Zenon, Basics, <1>0 DEF TxTimeout, LockInv, Actors, DialHolds, Closing,
         callRead
  <1>3. LegInv'
    BY Zenon, Basics, <1>0 DEF TxTimeout, LegInv, LockInv, Actors, DialHolds,
         Closing, Unsent, Answers, PeerUp, callRead
  <1>4. HangUpInv'
    BY Zenon, Basics, <1>0 DEF TxTimeout, HangUpInv, LegInv, OnceInv, LockInv,
         Actors, DialHolds, Closing, Unsent, Answers, PeerUp, callRead
  <1> QED BY Zenon, <1>1, <1>2, <1>3, <1>4 DEF StepInv

(* watchCancelledInvite.                                                   *)
LEMMA WatchProvisionalStep ==
  ASSUME IInv, WatchProvisional, UNCHANGED <<pc, callRead>>
  PROVE  StepInv'
  <1>1. PcInv' /\ OnceInv' /\ ReportInv'
    BY Zenon, Basics, LegMoves DEF WatchProvisional, responseProvisional,
         LegInv, Answers, PeerUp
  <1>2. LockInv'
    BY Basics DEF WatchProvisional, responseProvisional, LockInv, Actors,
         DialHolds, Closing, callRead
  <1>3. LegInv'
    BY Zenon, Basics DEF WatchProvisional, responseProvisional, LegInv,
         LockInv, Actors, DialHolds, Closing, Unsent, Answers, PeerUp,
         callRead
  <1>4. HangUpInv'
    BY Zenon, Basics DEF WatchProvisional, responseProvisional, HangUpInv,
         LegInv, OnceInv, LockInv, Actors, DialHolds, Closing, Unsent,
         Answers, PeerUp, callRead
  <1> QED BY Zenon, <1>1, <1>2, <1>3, <1>4 DEF StepInv

(* watchCancelledInvite reads an answer and acknowledges it.               *)
LEMMA WatchAnswerStep ==
  ASSUME IInv, WatchAnswer, UNCHANGED <<pc, callRead>>
  PROVE  StepInv'
  <1>1. PcInv' /\ OnceInv' /\ ReportInv'
    BY Zenon, Basics, LegMoves DEF WatchAnswer, WriteAck, LegInv, Answers,
         PeerUp
  <1>2. LockInv'
    BY ZenonT(30), Basics DEF WatchAnswer, WriteAck, LockInv, Actors, DialHolds,
         Closing, callRead
  <1>3. LegInv'
    BY Basics DEF WatchAnswer, WriteAck, LegInv, LockInv, Actors, DialHolds,
         Closing, Unsent, Answers, PeerUp, callRead
  <1>4. HangUpInv'
    BY Zenon, Basics DEF WatchAnswer, WriteAck, HangUpInv, LegInv, OnceInv,
         LockInv, Actors, DialHolds, Closing, Unsent, Answers, PeerUp,
         callRead
  <1> QED BY Zenon, <1>1, <1>2, <1>3, <1>4 DEF StepInv

(* watchCancelledInvite hangs up on the callee it acknowledged.            *)
LEMMA WatchByeStep ==
  ASSUME IInv, WatchBye, UNCHANGED <<pc, callRead>>
  PROVE  StepInv'
  <1>0. missed' <=> (missed \/ cliClosed)
    BY Zenon DEF WatchBye, WriteBye
  <1>1. PcInv' /\ OnceInv' /\ ReportInv'
    BY Zenon, Basics, LegMoves DEF WatchBye, WriteBye, LegInv, Answers, PeerUp
  <1>2. LockInv'
    BY ZenonT(30), Basics, <1>0 DEF WatchBye, WriteBye, LockInv, Actors, DialHolds,
         Closing, callRead
  <1>3. LegInv'
    BY Zenon, Basics, <1>0 DEF WatchBye, WriteBye, LegInv, LockInv, Actors,
         DialHolds, Closing, Unsent, Answers, PeerUp, callRead
  <1>4. HangUpInv'
    BY Zenon, Basics, <1>0 DEF WatchBye, WriteBye, HangUpInv, LegInv, OnceInv,
         LockInv, Actors, DialHolds, Closing, Unsent, Answers, PeerUp,
         callRead
  <1> QED BY Zenon, <1>1, <1>2, <1>3, <1>4 DEF StepInv

(* watchCancelledInvite returns with no dialog to end.                     *)
LEMMA WatchEndsStep ==
  ASSUME IInv, WatchEnds, UNCHANGED <<pc, callRead>>
  PROVE  StepInv'
  <1>0. /\ expired'
        /\ missed' <=> (missed \/ resp \in Answers)
    BY Zenon DEF WatchEnds
  <1>1. PcInv' /\ OnceInv' /\ ReportInv'
    BY Zenon, Basics, LegMoves DEF WatchEnds, LegInv, Answers, PeerUp
  <1>2. LockInv'
    BY ZenonT(30), Basics, <1>0 DEF WatchEnds, LockInv, Actors, DialHolds, Closing,
         callRead
  <1>3. LegInv'
    BY Zenon, Basics, <1>0 DEF WatchEnds, LegInv, LockInv, Actors, DialHolds,
         Closing, Unsent, Answers, PeerUp, callRead
  <1>4. HangUpInv'
    BY Zenon, Basics, <1>0 DEF WatchEnds, HangUpInv, LegInv, OnceInv, LockInv,
         Actors, DialHolds, Closing, Unsent, Answers, PeerUp, callRead
  <1> QED BY Zenon, <1>1, <1>2, <1>3, <1>4 DEF StepInv

(* attemptInvite, and what the dialling goroutine does with the responses. *)
LEMMA InviteSent ==
  ASSUME IInv, At("dial", "invite"), attemptInvite, Goto("dial", "await"),
         UNCHANGED callRead
  PROVE  StepInv'
  <1>1. PcInv' /\ OnceInv' /\ ReportInv'
    BY Zenon, Basics, InviteMoves DEF attemptInvite, Sending
  <1>2. LockInv'
    BY Zenon, Basics DEF attemptInvite, LockInv, Actors, DialHolds, Closing,
         callRead
  <1>3. LegInv'
    BY Zenon, Basics DEF attemptInvite, LegInv, LockInv, Actors, DialHolds,
         Closing, Unsent, Answers, PeerUp, callRead
  <1>4. HangUpInv'
    BY Zenon, Basics DEF attemptInvite, HangUpInv, LegInv, OnceInv, LockInv,
         Actors, DialHolds, Closing, Unsent, Answers, PeerUp, callRead
  <1> QED BY Zenon, <1>1, <1>2, <1>3, <1>4 DEF StepInv

(* attemptInvite sends none: no tries are left, or the request fails.      *)
LEMMA InviteNotSent ==
  ASSUME IInv, At("dial", "invite"), attemptFails, Goto("dial", "inviteErr"),
         UNCHANGED callRead
  PROVE  StepInv'
  <1>1. PcInv' /\ OnceInv' /\ ReportInv'
    BY Zenon, Basics, InviteMoves DEF attemptFails, Sending
  <1>2. LockInv'
    BY Zenon, Basics DEF attemptFails, LockInv, Actors, DialHolds, Closing,
         callRead
  <1>3. LegInv'
    BY Zenon, Basics DEF attemptFails, LegInv, LockInv, Actors, DialHolds,
         Closing, Unsent, Answers, PeerUp, callRead
  <1>4. HangUpInv'
    BY Zenon, Basics DEF attemptFails, HangUpInv, LegInv, OnceInv, LockInv,
         Actors, DialHolds, Closing, Unsent, Answers, PeerUp, callRead
  <1> QED BY Zenon, <1>1, <1>2, <1>3, <1>4 DEF StepInv

(* sipResponse gives up; the watcher takes over, or the transaction ends.  *)
LEMMA InviteAbandoned ==
  ASSUME IInv, At("dial", "await"), NEW d, AbandonInvite(d),
         d \/ closing \/ tx = "done", d \in BOOLEAN, closing \in BOOLEAN,
         Goto("dial", "inviteErr"), UNCHANGED callRead
  PROVE  StepInv'
  <1>1. PcInv' /\ OnceInv' /\ ReportInv'
    BY Zenon, Basics, InviteMoves DEF AbandonInvite, Sending
  <1>2. LockInv'
    BY Zenon, Basics DEF AbandonInvite, LockInv, Actors, DialHolds, Closing,
         callRead
  <1>3. LegInv'
    BY ZenonT(30), Basics DEF AbandonInvite, LegInv, LockInv, Actors, DialHolds,
         Closing, Unsent, Answers, PeerUp, callRead
  <1>4. HangUpInv'
    BY Zenon, Basics DEF AbandonInvite, HangUpInv, LegInv, OnceInv, LockInv,
         Actors, DialHolds, Closing, Unsent, Answers, PeerUp, callRead
  <1> QED BY Zenon, <1>1, <1>2, <1>3, <1>4 DEF StepInv

(* sipResponse reads a provisional response.                               *)
LEMMA ProvisionalRead ==
  ASSUME IInv, At("dial", "await"), responseProvisional, UNCHANGED pc,
         UNCHANGED callRead
  PROVE  StepInv'
  <1>1. PcInv' /\ OnceInv' /\ ReportInv'
    BY Zenon, Basics, LegMoves DEF responseProvisional, Sending
  <1>2. LockInv'
    BY ZenonT(30), Basics DEF responseProvisional, LockInv, Actors, DialHolds,
         Closing, callRead
  <1>3. LegInv'
    BY Zenon, Basics DEF responseProvisional, LegInv, LockInv, Actors,
         DialHolds, Closing, Unsent, Answers, PeerUp, callRead
  <1>4. HangUpInv'
    BY Zenon, Basics DEF responseProvisional, HangUpInv, LegInv, OnceInv,
         LockInv, Actors, DialHolds, Closing, Unsent, Answers, PeerUp,
         callRead
  <1> QED BY Zenon, <1>1, <1>2, <1>3, <1>4 DEF StepInv

(* sipResponse reads the answer: the dialog stands.                        *)
LEMMA AnswerRead ==
  ASSUME IInv, At("dial", "await"), responseFinal("200", FALSE),
         Goto("dial", "answer"), UNCHANGED callRead
  PROVE  StepInv'
  <1>0. /\ inviteOk'
        /\ ~malformed'
    BY Zenon DEF responseFinal, Answers
  <1>1. PcInv' /\ OnceInv' /\ ReportInv'
    BY Zenon, Basics, InviteMoves DEF responseFinal, Sending
  <1>2. LockInv'
    BY Zenon, Basics, <1>0 DEF responseFinal, LockInv, Actors, DialHolds,
         Closing, callRead
  <1>3. LegInv'
    BY Zenon, Basics, <1>0 DEF responseFinal, LegInv, LockInv, Actors,
         DialHolds, Closing, Unsent, Answers, PeerUp, callRead
  <1>4. HangUpInv'
    BY Zenon, Basics, <1>0 DEF responseFinal, HangUpInv, LegInv, OnceInv,
         LockInv, Actors, DialHolds, Closing, Unsent, Answers, PeerUp,
         callRead
  <1> QED BY Zenon, <1>1, <1>2, <1>3, <1>4 DEF StepInv

(* Invite fails on the final response; a malformed answer made a dialog.   *)
LEMMA FailureRead ==
  ASSUME IInv, At("dial", "await"), NEW r \in {"refusal", "bad200", "401"},
         responseFinal(r, FALSE), Goto("dial", "inviteErr"),
         UNCHANGED callRead
  PROVE  StepInv'
  <1>0. /\ inviteOk' <=> r = "bad200"
        /\ malformed' <=> r = "bad200"
    BY Zenon DEF responseFinal, Answers
  <1>1. PcInv' /\ OnceInv' /\ ReportInv'
    BY Zenon, Basics, InviteMoves DEF responseFinal, Sending
  <1>2. LockInv'
    BY Zenon, Basics, <1>0 DEF responseFinal, LockInv, Actors, DialHolds,
         Closing, callRead
  <1>3. LegInv'
    BY Zenon, Basics, <1>0 DEF responseFinal, LegInv, LockInv, Actors,
         DialHolds, Closing, Unsent, Answers, PeerUp, callRead
  <1>4. HangUpInv'
    BY Zenon, Basics, <1>0 DEF responseFinal, HangUpInv, LegInv, OnceInv,
         LockInv, Actors, DialHolds, Closing, Unsent, Answers, PeerUp,
         callRead
  <1> QED BY Zenon, <1>1, <1>2, <1>3, <1>4 DEF StepInv

(* Invite reads a challenge and will try again with credentials.           *)
LEMMA ChallengeRead ==
  ASSUME IInv, At("dial", "await"), responseFinal("401", TRUE),
         Goto("dial", "invite"), UNCHANGED callRead
  PROVE  StepInv'
  <1>0. /\ ~inviteOk'
        /\ ~malformed'
    BY Zenon DEF responseFinal, Answers
  <1>1. PcInv' /\ OnceInv' /\ ReportInv'
    BY Zenon, Basics, InviteMoves DEF responseFinal, Sending
  <1>2. LockInv'
    BY Zenon, Basics, <1>0 DEF responseFinal, LockInv, Actors, DialHolds,
         Closing, callRead
  <1>3. LegInv'
    BY Zenon, Basics, <1>0 DEF responseFinal, LegInv, LockInv, Actors,
         DialHolds, Closing, Unsent, Answers, PeerUp, callRead
  <1>4. HangUpInv'
    BY Zenon, Basics, <1>0 DEF responseFinal, HangUpInv, LegInv, OnceInv,
         LockInv, Actors, DialHolds, Closing, Unsent, Answers, PeerUp,
         callRead
  <1> QED BY Zenon, <1>1, <1>2, <1>3, <1>4 DEF StepInv

(* sipSignal closes the dialog of a failed Invite.                         *)
LEMMA FailedInviteCloses ==
  ASSUME IInv, At("dial", "inviteErr"), ccClose("dial"),
         Goto("dial", IF ByeWaits THEN "errWait" ELSE "fail"), SipTypeOK,
         UNCHANGED callRead
  PROVE  StepInv'
  <1>0. /\ inviteOk' <=> (inviteOk /\ closing)
        /\ missed' <=> (missed \/ (inviteOk /\ cliClosed))
    BY Zenon DEF ccClose, sendBye, WriteBye, drop, ByeWaits, SipTypeOK
  <1>a. PICK l \in {"errWait", "fail"} : pc' = [pc EXCEPT !["dial"] = l]
    BY Zenon
  <1>b. pc["dial"] \in Sending /\ l \in Sending \cup {"fail"}
    BY Zenon DEF Sending
  <1>1. PcInv' /\ OnceInv' /\ ReportInv'
    BY <1>a, <1>b, InviteMoves, Zenon
  <1>2. LockInv'
    BY Basics, <1>0 DEF ccClose, sendBye, WriteBye, drop, ByeWaits, LockInv,
         Actors, DialHolds, Closing, callRead
  <1>3. LegInv'
    BY Basics, <1>0 DEF ccClose, sendBye, WriteBye, drop, ByeWaits, LegInv,
         LockInv, Actors, DialHolds, Closing, Unsent, Answers, PeerUp,
         callRead
  <1>4. HangUpInv'
    BY ZenonT(30), Basics, <1>0 DEF ccClose, sendBye, WriteBye, drop, ByeWaits,
         HangUpInv, LegInv, OnceInv, LockInv, Actors, DialHolds, Closing,
         Unsent, Answers, PeerUp, callRead
  <1> QED BY Zenon, <1>1, <1>2, <1>3, <1>4 DEF StepInv

(* The BYE of sipSignal is answered.                                       *)
LEMMA FailedInviteClosed ==
  ASSUME IInv, At("dial", "errWait"), ByeAnswered("dial"),
         Goto("dial", "fail"), UNCHANGED callRead
  PROVE  StepInv'
  <1>1. PcInv' /\ OnceInv' /\ ReportInv'
    BY Zenon, Basics, InviteMoves DEF ByeAnswered, Sending
  <1>2. LockInv'
    BY Zenon, Basics DEF ByeAnswered, LockInv, Actors, DialHolds, Closing,
         callRead
  <1>3. LegInv'
    BY ZenonT(30), Basics DEF ByeAnswered, LegInv, LockInv, Actors, DialHolds,
         Closing, Unsent, Answers, PeerUp, callRead
  <1>4. HangUpInv'
    BY Zenon, Basics DEF ByeAnswered, HangUpInv, LegInv, OnceInv, LockInv,
         Actors, DialHolds, Closing, Unsent, Answers, PeerUp, callRead
  <1> QED BY Zenon, <1>1, <1>2, <1>3, <1>4 DEF StepInv

(* AckInviteOK writes the ACK.                                             *)
LEMMA AnswerAcked ==
  ASSUME IInv, At("dial", "ack"), AckInviteOK, Goto("dial", "acked"),
         UNCHANGED callRead
  PROVE  StepInv'
  <1>1. PcInv' /\ OnceInv' /\ ReportInv'
    BY Zenon, Basics, InviteMoves DEF AckInviteOK, WriteAck, Sending
  <1>2. LockInv'
    BY Zenon, Basics DEF AckInviteOK, WriteAck, LockInv, Actors, DialHolds,
         Closing, callRead
  <1>3. LegInv'
    BY Zenon, Basics DEF AckInviteOK, WriteAck, LegInv, LockInv, Actors,
         DialHolds, Closing, Unsent, Answers, PeerUp, callRead
  <1>4. HangUpInv'
    BY Zenon, Basics DEF AckInviteOK, WriteAck, HangUpInv, LegInv, OnceInv,
         LockInv, Actors, DialHolds, Closing, Unsent, Answers, PeerUp,
         callRead
  <1> QED BY Zenon, <1>1, <1>2, <1>3, <1>4 DEF StepInv

(* stopSIP.                                                                *)
LEMMA HangsUp ==
  ASSUME IInv, NEW p \in Actors, At(p, "hangup"), ccClose(p),
         Goto(p, IF ByeWaits THEN "byeWait" ELSE "release"), SipTypeOK,
         UNCHANGED callRead
  PROVE  StepInv'
  <1>0. /\ inviteOk' <=> (inviteOk /\ closing)
        /\ missed' <=> (missed \/ (inviteOk /\ cliClosed))
    BY Zenon DEF ccClose, sendBye, WriteBye, drop, ByeWaits, SipTypeOK
  <1>a. PICK l \in {"byeWait", "release"} : pc' = [pc EXCEPT ![p] = l]
    BY Zenon
  <1>b. pc[p] \in Closing /\ l \in Closing
    BY Zenon DEF Closing
  <1>c. UNCHANGED <<callRead, tries>> /\ (peer = "idle" => peer' = "idle")
    BY Zenon DEF ccClose, sendBye, WriteBye, PeerUp
  <1>1. PcInv' /\ OnceInv' /\ ReportInv'
    BY <1>a, <1>b, <1>c, CloserMoves, Zenon
  <1>2. LockInv'
    BY Basics, <1>0 DEF ccClose, sendBye, WriteBye, drop, ByeWaits, LockInv,
         Actors, DialHolds, Closing, callRead
  <1>3. LegInv'
    BY Basics, <1>0 DEF ccClose, sendBye, WriteBye, drop, ByeWaits, LegInv,
         LockInv, Actors, DialHolds, Closing, Unsent, Answers, PeerUp,
         callRead
  <1>4. HangUpInv'
    BY Basics, <1>0 DEF ccClose, sendBye, WriteBye, drop, ByeWaits, HangUpInv,
         LegInv, OnceInv, LockInv, Actors, DialHolds, Closing, Unsent,
         Answers, PeerUp, callRead
  <1> QED BY Zenon, <1>1, <1>2, <1>3, <1>4 DEF StepInv

(* The BYE of stopSIP is answered.                                         *)
LEMMA HungUp ==
  ASSUME IInv, NEW p \in Actors, At(p, "byeWait"), ByeAnswered(p),
         Goto(p, "release"), UNCHANGED callRead
  PROVE  StepInv'
  <1>a. pc[p] \in Closing /\ "release" \in Closing
    BY Zenon DEF Closing
  <1>b. UNCHANGED <<callRead, tries>> /\ (peer = "idle" => peer' = "idle")
    BY Zenon DEF ByeAnswered
  <1>1. PcInv' /\ OnceInv' /\ ReportInv'
    BY <1>a, <1>b, CloserMoves, Zenon
  <1>2. LockInv'
    BY Basics DEF ByeAnswered, LockInv, Actors, DialHolds, Closing, callRead
  <1>3. LegInv'
    BY Basics DEF ByeAnswered, LegInv, LockInv, Actors, DialHolds, Closing,
         Unsent, Answers, PeerUp, callRead
  <1>4. HangUpInv'
    BY ZenonT(30), Basics DEF ByeAnswered, HangUpInv, LegInv, OnceInv, LockInv,
         Actors, DialHolds, Closing, Unsent, Answers, PeerUp, callRead
  <1> QED BY Zenon, <1>1, <1>2, <1>3, <1>4 DEF StepInv

(* The BYE of the callee.                                                 *)
LEMMA ByeRead ==
  ASSUME IInv, byeIn, ~byeIn', NEW l \in {"accept", "done"}, Goto("bye", l),
         l = "accept" => active,
         UNCHANGED <<ccmu, inviteOk, malformed, tries, tx, resp, watcher,
           peer, acks, byes, byeRcvd, expired, missed>>,
         UNCHANGED callRead
  PROVE  StepInv'
  <1>a. pc["bye"] = "idle"
    BY Zenon, Basics DEF LegInv
  <1>b. /\ pc["bye"] \in {"idle", "accept"} /\ l \in {"accept", "lock", "done"}
        /\ UNCHANGED <<callRead, tries, peer>>
    BY Zenon, <1>a
  <1>c. l # "done" => ~Private
    BY Zenon DEF Private
  <1>1. PcInv' /\ OnceInv' /\ ReportInv'
    BY <1>b, <1>c, ByeMoves, Zenon
  <1>2. LockInv'
    BY Basics, <1>a DEF LockInv, Actors, DialHolds, Closing, callRead
  <1>3. LegInv'
    BY ZenonT(30), Basics DEF LegInv, LockInv, Actors, DialHolds, Closing, Unsent,
         Answers, PeerUp, callRead
  <1>4. HangUpInv'
    BY Zenon, Basics DEF HangUpInv, LegInv, OnceInv, LockInv, Actors,
         DialHolds, Closing, Unsent, Answers, PeerUp, callRead
  <1> QED BY Zenon, <1>1, <1>2, <1>3, <1>4 DEF StepInv

(* AcceptBye drops the dialog.                                             *)
LEMMA ByeAccepted ==
  ASSUME IInv, At("bye", "accept"), AcceptBye, Goto("bye", "lock"),
         UNCHANGED callRead
  PROVE  StepInv'
  <1>0. /\ ~inviteOk'
        /\ byeRcvd'
    BY Zenon DEF AcceptBye, drop
  <1>1. PcInv' /\ OnceInv' /\ ReportInv'
    BY Zenon, Basics, ByeMoves DEF AcceptBye, drop, Private
  <1>2. LockInv'
    BY Basics, <1>0 DEF AcceptBye, drop, LockInv, Actors, DialHolds, Closing,
         callRead
  <1>3. LegInv'
    BY Zenon, Basics, <1>0 DEF AcceptBye, drop, LegInv, LockInv, Actors,
         DialHolds, Closing, Unsent, Answers, PeerUp, callRead
  <1>4. HangUpInv'
    BY Zenon, Basics, <1>0 DEF AcceptBye, drop, HangUpInv, LegInv, OnceInv,
         LockInv, Actors, DialHolds, Closing, Unsent, Answers, PeerUp,
         callRead
  <1> QED BY Zenon, <1>1, <1>2, <1>3, <1>4 DEF StepInv
------------------------------------------------------------------------------
(* A goroutine other than the dialling one moves, outside close().         *)
LEMMA OtherMoves ==
  ASSUME IInv, NEW p \in Actors \ {"dial"}, NEW l, l \notin Closing,
         pc[p] \notin Closing, Goto(p, l), PcInv', Private => Private',
         p = "bye" => pc["bye"] # "idle", active' => active,
         UNCHANGED <<legRead, mu, ret, retry, invited, media, room, rpc,
           topic, once, stopped, early, unlisted, terms, sessionEnds, status,
           ended, stale>>
  PROVE  StepInv'
  <1>1. /\ pc'["dial"] = pc["dial"] /\ pc'[p] = l
        /\ \A q \in Actors \ {p} : pc'[q] = pc[q]
    BY Zenon, Basics DEF Actors
  <1>2. pc[p] \notin DialHolds
    BY Zenon, Basics DEF PcInv, ClosePCs, OtherPCs, DialHolds, Actors
  <1>3. LockInv'
    BY Basics, <1>1, <1>2 DEF LockInv, Actors, Closing, DialHolds, legRead
  <1>4. once # "none" =>
          /\ pc'[once] \in Closing <=> pc[once] \in Closing
          /\ pc'[once] = "hangup" <=> pc[once] = "hangup"
    BY Zenon, Basics, <1>1 DEF Closing
  <1>5. Released' <=> Released
    BY Zenon, <1>4 DEF Released
  <1>6. OnceInv'
    BY ZenonT(30), Basics, <1>1, <1>5 DEF OnceInv
  <1>7. ReportInv'
    BY Zenon, Basics, <1>1 DEF ReportInv, legRead
  <1>8. LegInv'
    BY Basics, <1>1, <1>4 DEF LegInv, legRead, Actors
  <1>9. HangUpInv'
    BY Zenon, Basics, <1>1, <1>4 DEF HangUpInv, legRead
  <1> QED BY Zenon, <1>3, <1>6, <1>7, <1>8, <1>9 DEF StepInv

(* The moves of the dialling goroutine that change nothing else.           *)
LEMMA DialMoves ==
  ASSUME IInv, NEW l, Goto("dial", l),
         \/ pc["dial"] = "request" /\ l = "media"
         \/ pc["dial"] \in {"offer", "ack", "acked"} /\ l = "fail"
         \/ pc["dial"] = "answer" /\ l \in {"ack", "fail"}
         \/ pc["dial"] = "wait" /\ l \in {"lock", "timeout"}
         \/ pc["dial"] \in {"wait", "lock"} /\ l = "ensureClosed" /\ once # "none",
         UNCHANGED <<legRead, callRead>>
  PROVE  StepInv'
  <1>1. /\ pc'["dial"] = l
        /\ \A q \in Actors \ {"dial"} : pc'[q] = pc[q]
    BY Zenon, Basics DEF Actors
  <1>2. LockInv'
    BY Basics, <1>1 DEF LockInv, Actors, Closing, DialHolds, legRead, callRead
  <1>3. PcInv'
    BY ZenonT(30), Basics, <1>1 DEF PcInv, ClosePCs, DialPCs, Actors
  <1>4. once # "none" =>
          /\ pc'[once] \in Closing <=> pc[once] \in Closing
          /\ pc'[once] = "hangup" <=> pc[once] = "hangup"
    BY Zenon, Basics, <1>1 DEF Closing
  <1>5. (Released' <=> Released) /\ (Private' <=> Private)
    BY <1>1, <1>4 DEF Released, Private, callRead, Actors
  <1>6. OnceInv'
    BY ZenonT(30), Basics, <1>1, <1>5 DEF OnceInv, DialHolds, Closing, callRead
  <1>7. ReportInv'
    BY Zenon, Basics, <1>1 DEF ReportInv, Unsent, Sending, Closing, legRead,
         callRead
  <1>8. LegInv'
    BY Basics, <1>1, <1>4 DEF LegInv, Unsent, legRead, callRead, Actors
  <1>9. HangUpInv'
    BY Zenon, Basics, <1>1, <1>4 DEF HangUpInv, legRead, callRead
  <1> QED BY Zenon, <1>2, <1>3, <1>6, <1>7, <1>8, <1>9 DEF StepInv

(* createSIPParticipant and newCall.                                       *)
LEMMA Refused ==
  ASSUME IInv, At("dial", "request"), ret' = "done", Goto("dial", "done"),
         UNCHANGED <<legRead, mu, retry, invited, media, room, rpc, topic,
           active, once, stopped, early, unlisted, terms, sessionEnds,
           status, ended, stale>>
  PROVE  StepInv'
  <1>1. LockInv'
    BY Basics DEF LockInv, Actors, DialHolds, Closing, legRead
  <1>2. PcInv'
    BY Zenon, Basics DEF PcInv, Actors, ClosePCs, DialPCs
  <1>3. OnceInv'
    BY Zenon, Basics DEF OnceInv, LockInv, Actors, DialHolds, Closing,
         Released, Private
  <1>4. ReportInv'
    BY Zenon, Basics DEF ReportInv, Unsent, Sending, Closing, Actors, legRead,
         OnceInv, Private
  <1>5. LegInv'
    BY Zenon, Basics DEF LegInv, Actors, Unsent, legRead
  <1>6. HangUpInv'
    BY Zenon, Basics DEF HangUpInv, Actors, legRead
  <1> QED BY Zenon, <1>1, <1>2, <1>3, <1>4, <1>5, <1>6 DEF StepInv

(* newCall has a media port.                                               *)
LEMMA MediaOpened ==
  ASSUME IInv, At("dial", "media"), Goto("dial", "join"),
         UNCHANGED <<legRead, mu, ret, retry, invited, room, rpc, topic,
           active, once, stopped, early, unlisted, terms, sessionEnds,
           status, ended, stale>>
  PROVE  StepInv'
  <1>1. LockInv'
    BY Basics DEF LockInv, Actors, DialHolds, Closing, legRead
  <1>2. PcInv'
    BY Zenon, Basics DEF PcInv, Actors, ClosePCs, DialPCs
  <1>3. OnceInv'
    BY Zenon, Basics DEF OnceInv, LockInv, Actors, DialHolds, Closing,
         Released, Private
  <1>4. ReportInv'
    BY Zenon, Basics DEF ReportInv, Unsent, Sending, Closing, Actors, legRead
  <1>5. LegInv'
    BY Zenon, Basics DEF LegInv, Actors, Unsent, legRead
  <1>6. HangUpInv'
    BY Zenon, Basics DEF HangUpInv, Actors, legRead
  <1> QED BY Zenon, <1>1, <1>2, <1>3, <1>4, <1>5, <1>6 DEF StepInv

(* newCall joined the room, and the transfer topic is registered.          *)
LEMMA RoomJoined ==
  ASSUME IInv, At("dial", "join"), Goto("dial", "register"),
         UNCHANGED <<legRead, mu, ret, retry, invited, media, active, once,
           stopped, early, unlisted, terms, sessionEnds, status, ended,
           stale>>
  PROVE  StepInv'
  <1>1. LockInv'
    BY Basics DEF LockInv, Actors, DialHolds, Closing, legRead
  <1>2. PcInv'
    BY Zenon, Basics DEF PcInv, Actors, ClosePCs, DialPCs
  <1>3. OnceInv'
    BY Zenon, Basics DEF OnceInv, LockInv, Actors, DialHolds, Closing,
         Released, Private
  <1>4. ReportInv'
    BY Zenon, Basics DEF ReportInv, Unsent, Sending, Closing, Actors, legRead
  <1>5. LegInv'
    BY Zenon, Basics DEF LegInv, Actors, Unsent, legRead
  <1>6. HangUpInv'
    BY Zenon, Basics DEF HangUpInv, Actors, legRead
  <1> QED BY Zenon, <1>1, <1>2, <1>3, <1>4, <1>5, <1>6 DEF StepInv

(* newCall closes the call without c.mu: nobody has seen it.               *)
LEMMA NewCallCloses ==
  ASSUME IInv, pc["dial"] \in {"media", "join"}, once' = "dial",
         terms' = terms + 1, Goto("dial", "hangup"),
         UNCHANGED <<legRead, mu, ret, retry, invited, media, rpc, active,
           stopped, early, sessionEnds, ended, stale>>
  PROVE  StepInv'
  <1>1. LockInv'
    BY Basics DEF LockInv, Actors, DialHolds, Closing, legRead, OnceInv,
         Private
  <1>2. PcInv'
    BY Zenon, Basics DEF PcInv, Actors, ClosePCs, DialPCs
  <1>3. OnceInv'
    BY Basics DEF OnceInv, LockInv, Actors, DialHolds, Closing, Released,
         Private, PcInv
  <1>4. ReportInv'
    BY Zenon, Basics DEF ReportInv, Unsent, Sending, Closing, Actors, legRead
  <1>5. LegInv'
    BY Zenon, Basics DEF LegInv, Actors, Unsent, legRead
  <1>6. HangUpInv'
    BY Zenon, Basics DEF HangUpInv, Actors, legRead, LegInv, Unsent, PeerUp
  <1> QED BY Zenon, <1>1, <1>2, <1>3, <1>4, <1>5, <1>6 DEF StepInv

(* newCall enters the call into activeCalls.                               *)
LEMMA Registered ==
  ASSUME IInv, At("dial", "register"), active', Goto("dial", "created"),
         UNCHANGED <<legRead, mu, ret, retry, invited, media, room, rpc,
           topic, once, stopped, early, unlisted, terms, sessionEnds, status,
           ended, stale>>
  PROVE  StepInv'
  <1>1. LockInv'
    BY Basics DEF LockInv, Actors, DialHolds, Closing, legRead
  <1>2. PcInv'
    BY Zenon, Basics DEF PcInv, Actors, ClosePCs, DialPCs
  <1>3. OnceInv'
    BY ZenonT(30), Basics DEF OnceInv, LockInv, Actors, DialHolds, Closing,
         Released, Private
  <1>4. ReportInv'
    BY Zenon, Basics DEF ReportInv, Unsent, Sending, Closing, Actors, legRead
  <1>5. LegInv'
    BY Zenon, Basics DEF LegInv, Actors, Unsent, legRead
  <1>6. HangUpInv'
    BY Zenon, Basics DEF HangUpInv, Actors, legRead
  <1> QED BY Zenon, <1>1, <1>2, <1>3, <1>4, <1>5, <1>6 DEF StepInv

(* Dial starts, in the request or in a goroutine of its own.               *)
LEMMA DialBegins ==
  ASSUME IInv, At("dial", "created"), ret' \in {ret, "joined"},
         Goto("dial", "dial"),
         UNCHANGED <<legRead, mu, retry, invited, media, room, rpc, topic,
           active, once, stopped, early, unlisted, terms, sessionEnds,
           status, ended, stale>>
  PROVE  StepInv'
  <1>1. LockInv'
    BY Basics DEF LockInv, Actors, DialHolds, Closing, legRead
  <1>2. PcInv'
    BY Zenon, Basics DEF PcInv, Actors, ClosePCs, DialPCs
  <1>3. OnceInv'
    BY Basics DEF OnceInv, LockInv, Actors, DialHolds, Closing, Released,
         Private
  <1>4. ReportInv'
    BY Zenon, Basics DEF ReportInv, Unsent, Sending, Closing, Actors, legRead
  <1>5. LegInv'
    BY Zenon, Basics DEF LegInv, Actors, Unsent, legRead
  <1>6. HangUpInv'
    BY Zenon, Basics DEF HangUpInv, Actors, legRead
  <1> QED BY Zenon, <1>1, <1>2, <1>3, <1>4, <1>5, <1>6 DEF StepInv

(* Dial.                                                                   *)
LEMMA Connects ==
  ASSUME IInv, At("dial", "dial"), mu = "free", mu' = "dial",
         early' <=> once # "none", early' \in BOOLEAN, Goto("dial", "offer"),
         UNCHANGED <<legRead, ret, retry, invited, media, room, rpc, topic,
           active, once, stopped, unlisted, terms, sessionEnds, status,
           ended, stale>>
  PROVE  StepInv'
  <1>1. LockInv'
    BY Zenon, Basics DEF LockInv, Actors, DialHolds, Closing, legRead
  <1>2. PcInv'
    BY Zenon, Basics DEF PcInv, Actors, ClosePCs, DialPCs
  <1>3. OnceInv'
    BY ZenonT(30), Basics DEF OnceInv, LockInv, Actors, DialHolds, Closing,
         Released, Private
  <1>4. ReportInv'
    BY Zenon, Basics DEF ReportInv, Unsent, Sending, Closing, Actors, legRead
  <1>5. LegInv'
    BY Zenon, Basics DEF LegInv, Actors, Unsent, legRead
  <1>6. HangUpInv'
    BY Zenon, Basics DEF HangUpInv, Actors, legRead, LegInv, Unsent, PeerUp
  <1> QED BY Zenon, <1>1, <1>2, <1>3, <1>4, <1>5, <1>6 DEF StepInv

(* sipSignal counts the INVITE as sent.                                    *)
LEMMA Offered ==
  ASSUME IInv, At("dial", "offer"), invited', Goto("dial", "invite"),
         UNCHANGED <<legRead, mu, ret, retry, media, room, rpc, topic,
           active, once, stopped, early, unlisted, terms, sessionEnds,
           status, ended, stale>>
  PROVE  StepInv'
  <1>1. LockInv'
    BY Zenon, Basics DEF LockInv, Actors, DialHolds, Closing, legRead
  <1>2. PcInv'
    BY Zenon, Basics DEF PcInv, Actors, ClosePCs, DialPCs
  <1>3. OnceInv'
    BY Zenon, Basics DEF OnceInv, LockInv, Actors, DialHolds, Closing,
         Released, Private
  <1>4. ReportInv'
    BY Zenon, Basics DEF ReportInv, Unsent, Sending, Closing, Actors, legRead
  <1>5. LegInv'
    BY Zenon, Basics DEF LegInv, Actors, Unsent, legRead
  <1>6. HangUpInv'
    BY Zenon, Basics DEF HangUpInv, Actors, legRead
  <1> QED BY Zenon, <1>1, <1>2, <1>3, <1>4, <1>5, <1>6 DEF StepInv

(* The call is up and connectSIP releases c.mu.                            *)
LEMMA Established ==
  ASSUME IInv, At("dial", "acked"), mu' = "free", Goto("dial", "active"),
         UNCHANGED <<legRead, ret, retry, invited, media, room, rpc, topic,
           active, once, stopped, early, unlisted, terms, sessionEnds,
           status, ended, stale>>
  PROVE  StepInv'
  <1>1. LockInv'
    BY Zenon, Basics DEF LockInv, Actors, DialHolds, Closing, legRead
  <1>2. PcInv'
    BY Zenon, Basics DEF PcInv, Actors, ClosePCs, DialPCs
  <1>3. OnceInv'
    BY Zenon, Basics DEF OnceInv, LockInv, Actors, DialHolds, Closing,
         Released, Private
  <1>4. ReportInv'
    BY Zenon, Basics DEF ReportInv, Unsent, Sending, Closing, Actors, legRead
  <1>5. LegInv'
    BY Zenon, Basics DEF LegInv, Actors, Unsent, legRead
  <1>6. HangUpInv'
    BY Zenon, Basics DEF HangUpInv, Actors, legRead
  <1> QED BY Zenon, <1>1, <1>2, <1>3, <1>4, <1>5, <1>6 DEF StepInv

(* connectSIP failed, on a call somebody closed before.                    *)
LEMMA DialFailed ==
  ASSUME IInv, At("dial", "fail"), once # "none", mu' = "free",
         retry' => ~invited, Goto("dial", "ensureClosed"),
         UNCHANGED <<legRead, ret, invited, media, room, rpc, topic,
           active, once, stopped, early, unlisted, terms, sessionEnds,
           status, ended, stale>>
  PROVE  StepInv'
  <1>1. LockInv'
    BY Zenon, Basics DEF LockInv, Actors, DialHolds, Closing, legRead
  <1>2. PcInv'
    BY Zenon, Basics DEF PcInv, Actors, ClosePCs, DialPCs
  <1>3. OnceInv'
    BY Zenon, Basics DEF OnceInv, LockInv, Actors, DialHolds, Closing,
         Released, Private
  <1>4. ReportInv'
    BY Zenon, Basics DEF ReportInv, Unsent, Sending, Closing, Actors, legRead
  <1>5. LegInv'
    BY Zenon, Basics DEF LegInv, Actors, Unsent, legRead
  <1>6. HangUpInv'
    BY Zenon, Basics DEF HangUpInv, Actors, legRead
  <1> QED BY Zenon, <1>1, <1>2, <1>3, <1>4, <1>5, <1>6 DEF StepInv

(* Dial reports the call as active.                                        *)
LEMMA Succeeded ==
  ASSUME IInv, At("dial", "active"), ret' \in {ret, "joined"},
         Goto("dial", "wait"),
         UNCHANGED <<legRead, mu, retry, invited, media, room, rpc, topic,
           active, once, stopped, early, unlisted, terms, sessionEnds, ended,
           stale>>
  PROVE  StepInv'
  <1>1. LockInv'
    BY Basics DEF LockInv, Actors, DialHolds, Closing, legRead
  <1>2. PcInv'
    BY Zenon, Basics DEF PcInv, Actors, ClosePCs, DialPCs
  <1>3. OnceInv'
    BY ZenonT(30), Basics DEF OnceInv, LockInv, Actors, DialHolds, Closing,
         Released, Private
  <1>4. ReportInv'
    BY Zenon, Basics DEF ReportInv, Unsent, Sending, Closing, Actors, legRead
  <1>5. LegInv'
    BY Zenon, Basics DEF LegInv, Actors, Unsent, legRead
  <1>6. HangUpInv'
    BY Zenon, Basics DEF HangUpInv, Actors, legRead
  <1> QED BY Zenon, <1>1, <1>2, <1>3, <1>4, <1>5, <1>6 DEF StepInv

(* closeWithTimeout finds the call closed.                                 *)
LEMMA TimedOut ==
  ASSUME IInv, At("dial", "timeout"), once # "none",
         status' \in {status, "error"}, Goto("dial", "ensureClosed"),
         UNCHANGED <<legRead, mu, ret, retry, invited, media, room, rpc,
           topic, active, once, stopped, early, unlisted, terms, sessionEnds,
           ended, stale>>
  PROVE  StepInv'
  <1>1. LockInv'
    BY Basics DEF LockInv, Actors, DialHolds, Closing, legRead
  <1>2. PcInv'
    BY Zenon, Basics DEF PcInv, Actors, ClosePCs, DialPCs
  <1>3. OnceInv'
    BY Zenon, Basics DEF OnceInv, LockInv, Actors, DialHolds, Closing,
         Released, Private
  <1>4. ReportInv'
    BY Zenon, Basics DEF ReportInv, Unsent, Sending, Closing, Actors, legRead
  <1>5. LegInv'
    BY Zenon, Basics DEF LegInv, Actors, Unsent, legRead
  <1>6. HangUpInv'
    BY Zenon, Basics DEF HangUpInv, Actors, legRead
  <1> QED BY Zenon, <1>1, <1>2, <1>3, <1>4, <1>5, <1>6 DEF StepInv

(* ensureClosed writes the last status.                                    *)
LEMMA Ended ==
  ASSUME IInv, At("dial", "ensureClosed"),
         status' \in {"error", "disconnected"}, ended', Goto("dial", "done"),
         UNCHANGED <<legRead, mu, retry, invited, media, room, rpc, topic,
           active, once, stopped, early, unlisted, terms, sessionEnds,
           stale>>
  PROVE  StepInv'
  <1>1. LockInv'
    BY Basics DEF LockInv, Actors, DialHolds, Closing, legRead
  <1>2. PcInv'
    BY Zenon, Basics DEF PcInv, Actors, ClosePCs, DialPCs
  <1>3. OnceInv'
    BY Zenon, Basics DEF OnceInv, LockInv, Actors, DialHolds, Closing,
         Released, Private
  <1>4. ReportInv'
    BY Zenon, Basics DEF ReportInv, Unsent, Sending, Closing, Actors, legRead
  <1>5. LegInv'
    BY Zenon, Basics DEF LegInv, Actors, Unsent, legRead
  <1>6. HangUpInv'
    BY Zenon, Basics DEF HangUpInv, Actors, legRead
  <1> QED BY Zenon, <1>1, <1>2, <1>3, <1>4, <1>5, <1>6 DEF StepInv

(* createSIPParticipant returns while the call goes on.                    *)
LEMMA Returned ==
  ASSUME IInv, ret \in {"joined", "error"}, ret' = "done", status' = ret,
         stale' <=> ended /\ ret = "joined", UNCHANGED pc,
         UNCHANGED <<legRead, mu, retry, invited, media, room, rpc, topic,
           active, once, stopped, early, unlisted, terms, sessionEnds,
           ended>>
  PROVE  StepInv'
  <1>1. LockInv'
    BY Basics DEF LockInv, Actors, DialHolds, Closing, legRead
  <1>2. PcInv'
    BY Basics DEF PcInv, Actors, ClosePCs, DialPCs
  <1>3. OnceInv'
    BY Zenon, Basics DEF OnceInv, LockInv, Actors, DialHolds, Closing,
         Released, Private
  <1>4. ReportInv'
    BY Zenon, Basics DEF ReportInv, Unsent, Sending, Closing, Actors, legRead
  <1>5. LegInv'
    BY Zenon, Basics DEF LegInv, Actors, Unsent, legRead
  <1>6. HangUpInv'
    BY Zenon, Basics DEF HangUpInv, Actors, legRead
  <1> QED BY Zenon, <1>1, <1>2, <1>3, <1>4, <1>5, <1>6 DEF StepInv

(* close() with c.mu: the first to come runs the body.                     *)
LEMMA CloseBegins ==
  ASSUME IInv, NEW p \in Actors,
         \/ pc[p] = "lock" /\ mu = "free"
         \/ p = "dial" /\ pc[p] = "timeout" /\ mu = "free"
         \/ p = "dial" /\ pc[p] = "fail",
         once = "none", once' = p, mu' = p, terms' = terms + 1,
         status' \in {status, "error"},
         unlisted' <=> p # "dial" /\ pc["dial"] = "register",
         retry' => ~invited /\ (retry \/ p = "dial"), Goto(p, "hangup"),
         UNCHANGED <<legRead, ret, invited, media, room, rpc, topic,
           active, stopped, early, sessionEnds, ended, stale>>
  PROVE  StepInv'
  <1>1. LockInv'
    BY Zenon, Basics DEF LockInv, Actors, DialHolds, Closing, legRead
  <1>2. PcInv'
    BY Basics DEF PcInv, Actors, ClosePCs, DialPCs, OtherPCs
  <1>3. OnceInv'
    BY Basics DEF OnceInv, LockInv, Actors, DialHolds, Closing, Released,
         Private, PcInv
  <1>4. ReportInv'
    BY Zenon, Basics DEF ReportInv, Unsent, Sending, Closing, Actors, legRead,
         OnceInv, Private
  <1>5. LegInv'
    BY Basics DEF LegInv, Actors, Unsent, legRead
  <1>6. HangUpInv'
    BY Zenon, Basics DEF HangUpInv, Actors, legRead
  <1> QED BY Zenon, <1>1, <1>2, <1>3, <1>4, <1>5, <1>6 DEF StepInv

(* The end of the body of close().                                         *)
LEMMA CloseEnds ==
  ASSUME IInv, NEW p \in Actors, At(p, "release"), media' # "open",
         room' \in {"none", "left"}, ~rpc', ~active', ~topic', stopped',
         sessionEnds' = sessionEnds + 1, mu' = IF mu = p THEN "free" ELSE mu,
         NEW l,
         \/ p = "dial" /\ mu # p /\ l = "done" /\ ret' = "error"
         \/ p = "dial" /\ mu = p /\ l = "ensureClosed" /\ UNCHANGED <<ret, retry>>
         \/ /\ p # "dial" /\ l \in {"closeClient", "done"}
            /\ UNCHANGED <<ret, retry>>,
         p = "stop" \/ l # "closeClient", Goto(p, l),
         UNCHANGED <<legRead, invited, once, early, unlisted, terms,
           status, ended, stale>>
  PROVE  StepInv'
  <1>1. LockInv'
    BY ZenonT(30), Basics DEF LockInv, Actors, DialHolds, Closing, legRead
  <1>2. PcInv'
    BY ZenonT(30), Basics DEF PcInv, Actors, ClosePCs, DialPCs, OtherPCs
  <1>3. OnceInv'
    BY Basics DEF OnceInv, LockInv, Actors, DialHolds, Closing, Released,
         Private
  <1>4. ReportInv'
    BY Basics DEF ReportInv, Unsent, Sending, Closing, Actors, legRead,
         OnceInv, LockInv
  <1>5. LegInv'
    BY Basics DEF LegInv, Actors, Unsent, legRead, LockInv, Closing
  <1>6. HangUpInv'
    BY Zenon, Basics DEF HangUpInv, Actors, legRead, LockInv, Closing
  <1> QED BY Zenon, <1>1, <1>2, <1>3, <1>4, <1>5, <1>6 DEF StepInv

(* The fuse and the room.                                                  *)
LEMMA Broken ==
  ASSUME IInv, once # "none", UNCHANGED pc,
         UNCHANGED <<legRead, mu, ret, retry, invited, media, room, rpc,
           topic, active, once, early, unlisted, terms, sessionEnds, status,
           ended, stale>>
  PROVE  StepInv'
  <1>1. LockInv'
    BY ZenonT(30), Basics DEF LockInv, Actors, DialHolds, Closing, legRead
  <1>2. PcInv'
    BY Basics DEF PcInv, Actors, ClosePCs, DialPCs
  <1>3. OnceInv'
    BY Zenon, Basics DEF OnceInv, LockInv, Actors, DialHolds, Closing,
         Released, Private
  <1>4. ReportInv'
    BY Zenon, Basics DEF ReportInv, Unsent, Sending, Closing, Actors, legRead
  <1>5. LegInv'
    BY Zenon, Basics DEF LegInv, Actors, Unsent, legRead
  <1>6. HangUpInv'
    BY Zenon, Basics DEF HangUpInv, Actors, legRead
  <1> QED BY Zenon, <1>1, <1>2, <1>3, <1>4, <1>5, <1>6 DEF StepInv

(* LiveKit ends the room.                                                  *)
LEMMA RoomEnded ==
  ASSUME IInv, room = "joined", ~rpc', UNCHANGED pc,
         UNCHANGED <<legRead, mu, ret, retry, invited, media, topic,
           active, once, stopped, early, unlisted, terms, sessionEnds,
           status, ended, stale>>
  PROVE  StepInv'
  <1>1. LockInv'
    BY Basics DEF LockInv, Actors, DialHolds, Closing, legRead
  <1>2. PcInv'
    BY Basics DEF PcInv, Actors, ClosePCs, DialPCs
  <1>3. OnceInv'
    BY Zenon, Basics DEF OnceInv, LockInv, Actors, DialHolds, Closing,
         Released, Private
  <1>4. ReportInv'
    BY Zenon, Basics DEF ReportInv, Unsent, Sending, Closing, Actors, legRead
  <1>5. LegInv'
    BY Zenon, Basics DEF LegInv, Actors, Unsent, legRead
  <1>6. HangUpInv'
    BY Zenon, Basics DEF HangUpInv, Actors, legRead
  <1> QED BY Zenon, <1>1, <1>2, <1>3, <1>4, <1>5, <1>6 DEF StepInv
==============================================================================
