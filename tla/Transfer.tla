------------------------------ MODULE Transfer ------------------------------
(***************************************************************************)
(* Transfers of one inbound call: the RPC (transferSIPParticipant of       *)
(* pkg/sip/service.go), the worker goroutine it starts (transferCall and   *)
(* TransferCall of pkg/sip/inbound.go) and the NOTIFY handlers that hand   *)
(* the result of a REFER over the unbuffered channel referDone             *)
(* (pkg/sip/protocol.go).  The call may end at any time.                   *)
(*                                                                         *)
(* A transfer is a number, which is also the CSeq of its REFER.  Go hands  *)
(* a value over an unbuffered channel as soon as both sides are there, so  *)
(* whichever side comes second takes the step.  The deadlines of a         *)
(* transfer and of an RPC may pass at any time.                            *)
(***************************************************************************)
EXTENDS Naturals, FiniteSets

CONSTANTS
  Requests,      \* the RPC requests
  Destinations,  \* the destinations they ask for
  MaxTransfers,  \* bound on the transfers of the call
  MaxNotifies,   \* bound on the NOTIFY handlers that run at a time
  EventIDs,      \* whether the Event of a NOTIFY carries an id: some of BOOLEAN
  Statuses       \* the sipfrag status codes considered, 0 for an empty body

ASSUME BoundsAssumption == MaxTransfers \in Nat \ {0} /\ MaxNotifies \in Nat
ASSUME EventIDsAssumption == EventIDs \subseteq BOOLEAN
ASSUME StatusesAssumption == Statuses \subseteq {0} \cup (100 .. 699)

Transfers == 1 .. MaxTransfers
Notifies == 1 .. MaxNotifies
None == 0

VARIABLES
  reqPC,      \* a request: "new", "checked", "wait" or "done"
  joined,     \* the transfer it waits for
  reply,      \* what it returned
  pending,    \* s.pendingTransfers[callID], a transfer or None
  target,     \* pending.TransferTo of a transfer
  worker,     \* where the worker goroutine of a transfer is
  outcome,    \* what processParticipantTransfer returned
  buffered,   \* the buffer of pending.Done holds the outcome
  stored,     \* pending.Outcome is set
  closed,     \* pending.Done is closed
  recorded,   \* TransferStatus of the SIPTransferInfo
  source,     \* the REFER the result a transfer received is about
  referCseq,  \* c.referCseq
  notify,     \* the NOTIFY handlers
  closing,    \* where close() of the call is, "up" before it
  leg,        \* c.invite and c.inviteOk are set
  callDone,   \* c.ctx is cancelled
  output,     \* the room has its audio output, Room.out
  muted       \* the transfers that hold the output they swapped out

rpcVars == <<reqPC, joined, reply>>
pendingVars == <<pending, target>>
doneVars == <<buffered, stored, closed>>
resultVars == <<outcome, source>>
callVars == <<closing, leg, callDone>>
audioVars == <<output, muted>>
vars == <<rpcVars, pendingVars, worker, resultVars, doneVars, recorded, referCseq,
          notify, callVars, audioVars>>

(* The failures no property tells apart (a status of the peer, an ended    *)
(* subscription, a deadline, a REFER that was not accepted) are "failed".  *)
Failures == {"call-ended", "failed"}
Outcomes == {"success"} \cup Failures
Waiting == {"wait", "grace"}
WorkerPCs == Waiting \cup
  {"none", "start", "mute", "refer", "sent", "unmute", "restore", "record", "push",
   "store", "close", "delete", "done"}
Handlers == [pc : {"idle", "offer", "parked"},
             about : Transfers \cup {None},
             result : Outcomes \cup {"none"}]
ClosePCs == {"up", "signal", "release", "unregister", "cancel", "ended"}

TypeOK ==
  /\ reqPC \in [Requests -> {"new", "checked", "wait", "done"}]
  /\ joined \in [Requests -> Transfers \cup {None}]
  /\ reply \in [Requests -> Outcomes \cup {"none", "unknown", "elsewhere", "cancelled"}]
  /\ pending \in Transfers \cup {None}
  /\ target \in [Transfers -> Destinations \cup {None}]
  /\ worker \in [Transfers -> WorkerPCs]
  /\ outcome \in [Transfers -> Outcomes \cup {"none"}]
  /\ buffered \in [Transfers -> BOOLEAN]
  /\ stored \in [Transfers -> BOOLEAN]
  /\ closed \in [Transfers -> BOOLEAN]
  /\ recorded \in [Transfers -> {"none", "ongoing", "successful", "failed"}]
  /\ source \in [Transfers -> Transfers \cup {None}]
  /\ referCseq \in Transfers \cup {None}
  /\ notify \in [Notifies -> Handlers]
  /\ closing \in ClosePCs
  /\ leg \in BOOLEAN
  /\ callDone \in BOOLEAN
  /\ output \in BOOLEAN
  /\ muted \subseteq Transfers

NoNotify == [pc |-> "idle", about |-> None, result |-> "none"]

(* An answered call with media, in byLocalTag.                             *)
Init ==
  /\ reqPC = [r \in Requests |-> "new"]
  /\ joined = [r \in Requests |-> None]
  /\ reply = [r \in Requests |-> "none"]
  /\ pending = None
  /\ target = [n \in Transfers |-> None]
  /\ worker = [n \in Transfers |-> "none"]
  /\ outcome = [n \in Transfers |-> "none"]
  /\ buffered = [n \in Transfers |-> FALSE]
  /\ stored = [n \in Transfers |-> FALSE]
  /\ closed = [n \in Transfers |-> FALSE]
  /\ recorded = [n \in Transfers |-> "none"]
  /\ source = [n \in Transfers |-> None]
  /\ referCseq = None
  /\ notify = [m \in Notifies |-> NoNotify]
  /\ closing = "up" /\ leg = TRUE /\ callDone = FALSE
  /\ output = TRUE /\ muted = {}
-----------------------------------------------------------------------------
done == closing # "up"
registered == closing \notin {"cancel", "ended"}

Goto(n, label) == worker' = [worker EXCEPT ![n] = label]
Parked == {m \in Notifies : notify[m].pc = "parked"}

Reply(r, result) ==
  /\ reqPC' = [reqPC EXCEPT ![r] = "done"]
  /\ reply' = [reply EXCEPT ![r] = result]

(* transferSIPParticipant up to its wait.  checkInternalProviderRequest    *)
(* fails on an unknown call; a known one may end before the request is     *)
(* matched with the pending transfer.                                      *)
CheckProvider(r) ==
  /\ reqPC[r] = "new"
  /\ registered
  /\ reqPC' = [reqPC EXCEPT ![r] = "checked"]
  /\ UNCHANGED <<joined, reply, pendingVars, worker, resultVars, doneVars, recorded,
                 referCseq, notify, callVars, audioVars>>

RequestUnknown(r) ==
  /\ reqPC[r] = "new"
  /\ ~registered
  /\ Reply(r, "unknown")
  /\ UNCHANGED <<joined, pendingVars, worker, resultVars, doneVars, recorded, referCseq,
                 notify, callVars, audioVars>>

(* Mutant of StartNew: the transfer under way is not looked up.            *)
StartNew_NoLookup(r, to) ==
  /\ reqPC[r] = "checked"
  /\ \E n \in Transfers :
       /\ worker[n] = "none"
       /\ \A m \in Transfers : m < n => worker[m] # "none"
       /\ pending' = n
       /\ target' = [target EXCEPT ![n] = to]
       /\ joined' = [joined EXCEPT ![r] = n]
       /\ Goto(n, "start")
  /\ reqPC' = [reqPC EXCEPT ![r] = "wait"]
  /\ UNCHANGED <<reply, resultVars, doneVars, recorded, referCseq, notify, callVars, audioVars>>

(* getOrCreatePendingTransfer finds no transfer under way and makes one.   *)
StartNew(r, to) ==
  /\ reqPC[r] = "checked"
  /\ pending = None
  /\ \E n \in Transfers :
       /\ worker[n] = "none"
       /\ \A m \in Transfers : m < n => worker[m] # "none"
       /\ pending' = n
       /\ target' = [target EXCEPT ![n] = to]
       /\ joined' = [joined EXCEPT ![r] = n]
       /\ Goto(n, "start")
  /\ reqPC' = [reqPC EXCEPT ![r] = "wait"]
  /\ UNCHANGED <<reply, resultVars, doneVars, recorded, referCseq, notify, callVars, audioVars>>

JoinPending(r, to) ==
  /\ reqPC[r] = "checked"
  /\ pending # None
  /\ IF target[pending] # to
       THEN Reply(r, "elsewhere") /\ UNCHANGED joined
       ELSE /\ reqPC' = [reqPC EXCEPT ![r] = "wait"]
            /\ joined' = [joined EXCEPT ![r] = pending]
            /\ UNCHANGED reply
  /\ UNCHANGED <<pendingVars, worker, resultVars, doneVars, recorded, referCseq, notify,
                 callVars, audioVars>>

(* The wait on pending.Done: the buffered outcome or, from the closed      *)
(* channel, an empty one, which reads as a success until pending.Outcome   *)
(* is looked at.                                                           *)
ReceiveOutcome(r) ==
  LET n == joined[r]
  IN  /\ reqPC[r] = "wait"
      /\ buffered[n] \/ closed[n]
      /\ Reply(r, IF buffered[n] \/ stored[n] THEN outcome[n] ELSE "success")
      /\ buffered' = [buffered EXCEPT ![n] = FALSE]
      /\ UNCHANGED <<joined, pendingVars, worker, resultVars, stored, closed, recorded,
                     referCseq, notify, callVars, audioVars>>

(* The context of the RPC ends.                                            *)
GiveUp(r) ==
  /\ reqPC[r] = "wait"
  /\ Reply(r, "cancelled")
  /\ UNCHANGED <<joined, pendingVars, worker, resultVars, doneVars, recorded, referCseq,
                 notify, callVars, audioVars>>
-----------------------------------------------------------------------------
(* The worker.  Its result r is settled, by a NOTIFY about REFER k or by   *)
(* none, and the deferred calls run.                                       *)
Settle(n, r, k) ==
  /\ outcome' = [outcome EXCEPT ![n] = r]
  /\ source' = [source EXCEPT ![n] = k]
  /\ Goto(n, "unmute")

(* processParticipantTransfer: the call is gone, or StartTransfer records  *)
(* the transfer; with a dial tone, a started call that is not done is to   *)
(* be muted.                                                               *)
ProcessTransfer(n) ==
  /\ worker[n] = "start"
  /\ IF registered
       THEN /\ recorded' = [recorded EXCEPT ![n] = "ongoing"]
            /\ \E dialtone \in BOOLEAN :
                 Goto(n, IF dialtone /\ ~done THEN "mute" ELSE "refer")
            /\ UNCHANGED resultVars
       ELSE /\ outcome' = [outcome EXCEPT ![n] = "failed"]
            /\ Goto(n, "push")
            /\ UNCHANGED <<recorded, source>>
  /\ UNCHANGED <<rpcVars, pendingVars, doneVars, referCseq, notify, callVars, audioVars>>

(* w := SwapOutput(nil).                                                   *)
Mute(n) ==
  /\ worker[n] = "mute"
  /\ muted' = IF output THEN muted \cup {n} ELSE muted
  /\ output' = FALSE
  /\ Goto(n, "refer")
  /\ UNCHANGED <<rpcVars, pendingVars, resultVars, doneVars, recorded, referCseq, notify,
                 callVars>>

(* newReferReq, and the REFER is sent.                                     *)
SendRefer(n) ==
  /\ worker[n] = "refer"
  /\ IF leg
       THEN /\ referCseq' = n
            /\ Goto(n, "sent")
            /\ UNCHANGED resultVars
       ELSE Settle(n, "failed", None) /\ UNCHANGED referCseq
  /\ UNCHANGED <<rpcVars, pendingVars, doneVars, recorded, notify, callVars, audioVars>>

(* sendRefer fails: a final error response, or no response, or the server  *)
(* is closing.                                                             *)
ReferFails(n) ==
  /\ worker[n] = "sent"
  /\ Settle(n, "failed", None)
  /\ UNCHANGED <<rpcVars, pendingVars, doneVars, recorded, referCseq, notify, callVars,
                 audioVars>>

(* The transfer n takes the result of a parked NOTIFY handler.             *)
TakeParked(n) ==
  \E m \in Parked :
    /\ Settle(n, notify[m].result, notify[m].about)
    /\ notify' = [notify EXCEPT ![m] = NoNotify]

(* Mutant of AfterCallDone: the end of the call decides at once.           *)
AfterCallDone_NoGrace(n) == Settle(n, "call-ended", None) /\ UNCHANGED notify

(* waitReferResult after the call ended: a result that is on its way is    *)
(* taken, otherwise it may still come within referResultGrace.             *)
AfterCallDone(n) ==
  \/ TakeParked(n)
  \/ /\ Parked = {}
     /\ Goto(n, "grace")
     /\ UNCHANGED <<resultVars, notify>>

(* The REFER is accepted and waitReferResult selects among what is ready.  *)
ReferAccepted(n) ==
  /\ worker[n] = "sent"
  /\ \/ Settle(n, "failed", None) /\ UNCHANGED notify
     \/ TakeParked(n)
     \/ callDone /\ AfterCallDone(n)
     \/ /\ Parked = {} /\ ~callDone
        /\ Goto(n, "wait")
        /\ UNCHANGED <<resultVars, notify>>
  /\ UNCHANGED <<rpcVars, pendingVars, doneVars, recorded, referCseq, callVars, audioVars>>

Deadline(n) ==
  /\ worker[n] = "wait"
  /\ Settle(n, "failed", None)
  /\ UNCHANGED <<rpcVars, pendingVars, doneVars, recorded, referCseq, notify, callVars,
                 audioVars>>

SeeCallDone(n) ==
  /\ worker[n] = "wait"
  /\ callDone
  /\ AfterCallDone(n)
  /\ UNCHANGED <<rpcVars, pendingVars, doneVars, recorded, referCseq, callVars, audioVars>>

(* Mutant of GraceExpires: a call that ended counts as transferred.        *)
GraceExpires_Success(n) ==
  /\ worker[n] = "grace"
  /\ Settle(n, "success", None)
  /\ UNCHANGED <<rpcVars, pendingVars, doneVars, recorded, referCseq, notify, callVars,
                 audioVars>>

GraceExpires(n) ==
  /\ worker[n] = "grace"
  /\ Settle(n, "call-ended", None)
  /\ UNCHANGED <<rpcVars, pendingVars, doneVars, recorded, referCseq, notify, callVars,
                 audioVars>>
-----------------------------------------------------------------------------
(* Mutant of Unmute: the writer is closed whatever the outcome.            *)
Unmute_Closes(n) ==
  /\ worker[n] = "unmute"
  /\ Goto(n, "record")
  /\ muted' = muted \ {n}
  /\ UNCHANGED <<rpcVars, pendingVars, resultVars, doneVars, recorded, referCseq, notify,
                 callVars, output>>

(* The deferred calls of transferCall: a failed transfer of a call that is *)
(* not done gives the room its output back, any other closes the writer;   *)
(* then EndTransfer.                                                       *)
Unmute(n) ==
  /\ worker[n] = "unmute"
  /\ IF n \in muted /\ outcome[n] # "success" /\ ~done
       THEN Goto(n, "restore") /\ UNCHANGED muted
       ELSE Goto(n, "record") /\ muted' = muted \ {n}
  /\ UNCHANGED <<rpcVars, pendingVars, resultVars, doneVars, recorded, referCseq, notify,
                 callVars, output>>

Restore(n) ==
  /\ worker[n] = "restore"
  /\ output' = TRUE
  /\ muted' = muted \ {n}
  /\ Goto(n, "record")
  /\ UNCHANGED <<rpcVars, pendingVars, resultVars, doneVars, recorded, referCseq, notify,
                 callVars>>

EndTransfer(n) ==
  /\ worker[n] = "record"
  /\ recorded' = [recorded EXCEPT ![n] =
       IF outcome[n] = "success" THEN "successful" ELSE "failed"]
  /\ Goto(n, "push")
  /\ UNCHANGED <<rpcVars, pendingVars, resultVars, doneVars, referCseq, notify, callVars,
                 audioVars>>

(* The outcome is published: into the buffer, into pending.Outcome, by     *)
(* closing the channel; then the transfer leaves pendingTransfers.         *)
Push(n) ==
  /\ worker[n] = "push"
  /\ buffered' = [buffered EXCEPT ![n] = TRUE]
  /\ Goto(n, "store")
  /\ UNCHANGED <<rpcVars, pendingVars, resultVars, stored, closed, recorded, referCseq,
                 notify, callVars, audioVars>>

(* Mutant of Store: pending.Outcome stays nil.                             *)
Store_Forgotten(n) ==
  /\ worker[n] = "store"
  /\ Goto(n, "close")
  /\ UNCHANGED <<rpcVars, pendingVars, resultVars, doneVars, recorded, referCseq, notify,
                 callVars, audioVars>>

Store(n) ==
  /\ worker[n] = "store"
  /\ stored' = [stored EXCEPT ![n] = TRUE]
  /\ Goto(n, "close")
  /\ UNCHANGED <<rpcVars, pendingVars, resultVars, buffered, closed, recorded, referCseq,
                 notify, callVars, audioVars>>

(* Mutant of CloseDone: the channel is left open.                          *)
CloseDone_LeftOpen(n) ==
  /\ worker[n] = "close"
  /\ Goto(n, "delete")
  /\ UNCHANGED <<rpcVars, pendingVars, resultVars, doneVars, recorded, referCseq, notify,
                 callVars, audioVars>>

CloseDone(n) ==
  /\ worker[n] = "close"
  /\ closed' = [closed EXCEPT ![n] = TRUE]
  /\ Goto(n, "delete")
  /\ UNCHANGED <<rpcVars, pendingVars, resultVars, buffered, stored, recorded, referCseq,
                 notify, callVars, audioVars>>

Delete(n) ==
  /\ worker[n] = "delete"
  /\ pending' = None
  /\ target' = [target EXCEPT ![n] = None]
  /\ Goto(n, "done")
  /\ UNCHANGED <<rpcVars, resultVars, doneVars, recorded, referCseq, notify,
                 callVars, audioVars>>

Worker(n) ==
  \/ ProcessTransfer(n)
  \/ Mute(n)
  \/ SendRefer(n)
  \/ ReferFails(n)
  \/ ReferAccepted(n)
  \/ Deadline(n)
  \/ SeeCallDone(n)
  \/ GraceExpires(n)
  \/ Unmute(n)
  \/ Restore(n)
  \/ EndTransfer(n)
  \/ Push(n)
  \/ Store(n)
  \/ CloseDone(n)
  \/ Delete(n)
-----------------------------------------------------------------------------
(* handleReferNotify: the result a NOTIFY with this status stands for,     *)
(* "none" while the transfer is still trying.                              *)
NotifyResult(status, terminated) ==
  IF status = 200 THEN "success"
  ELSE IF (status = 0 \/ status \in 100 .. 199) /\ ~terminated THEN "none"
  ELSE "failed"

(* onNotify and handleNotify for a registered call.  The peer was sent the *)
(* REFER it reports on; its event id, if there is one, names that REFER.   *)
(* The handler of a NOTIFY with no result, or for a REFER that is not the  *)
(* last one, returns at once.                                              *)
RecvNotify(m, about, id, status, terminated) ==
  /\ notify[m].pc = "idle"
  /\ registered
  /\ LET result == NotifyResult(status, terminated)
         skipped == (id # None /\ id # referCseq) \/ result = "none"
     IN  notify' = [notify EXCEPT ![m] =
           IF skipped THEN NoNotify
           ELSE [pc |-> "offer", about |-> about, result |-> result]]
  /\ UNCHANGED <<rpcVars, pendingVars, worker, resultVars, doneVars, recorded, referCseq,
                 callVars, audioVars>>

(* The handoff on referDone, or the wait for a receiver.                   *)
Offer(m) ==
  /\ notify[m].pc = "offer"
  /\ LET receivers == {n \in Transfers : worker[n] \in Waiting}
     IN  IF receivers = {}
           THEN /\ notify' = [notify EXCEPT ![m].pc = "parked"]
                /\ UNCHANGED <<worker, resultVars>>
           ELSE /\ notify' = [notify EXCEPT ![m] = NoNotify]
                /\ \E n \in receivers : Settle(n, notify[m].result, notify[m].about)
  /\ UNCHANGED <<rpcVars, pendingVars, doneVars, recorded, referCseq, callVars, audioVars>>

(* notifyAckTimeout.                                                       *)
Unpark(m) ==
  /\ notify[m].pc = "parked"
  /\ notify' = [notify EXCEPT ![m] = NoNotify]
  /\ UNCHANGED <<rpcVars, pendingVars, worker, resultVars, doneVars, recorded, referCseq,
                 callVars, audioVars>>
-----------------------------------------------------------------------------
(* The end of the call.  A BYE drops the leg and then cancels c.ctx; so    *)
(* does c.Close(), referByeTimeout after a transfer that succeeded.        *)
RecvBye ==
  /\ registered
  /\ leg
  /\ leg' = FALSE
  /\ UNCHANGED <<rpcVars, pendingVars, worker, resultVars, doneVars, recorded, referCseq,
                 notify, closing, callDone, audioVars>>

(* Mutant of CancelCall: no c.Close() after a successful transfer.         *)
CancelCall_PeerOnly ==
  /\ ~callDone
  /\ ~leg
  /\ callDone' = TRUE
  /\ UNCHANGED <<rpcVars, pendingVars, worker, resultVars, doneVars, recorded, referCseq,
                 notify, closing, leg, audioVars>>

CancelCall ==
  /\ ~callDone
  /\ ~leg \/ \E n \in Transfers : outcome[n] = "success"
  /\ callDone' = TRUE
  /\ UNCHANGED <<rpcVars, pendingVars, worker, resultVars, doneVars, recorded, referCseq,
                 notify, closing, leg, audioVars>>

CloseStep(from, to) == closing = from /\ closing' = to

(* close(): c.done, the BYE, the room with its output, byLocalTag, c.ctx.  *)
CloseCall ==
  /\ \/ CloseStep("up", "signal") /\ UNCHANGED <<leg, output, callDone>>
     \/ CloseStep("signal", "release") /\ leg' = FALSE /\ UNCHANGED <<output, callDone>>
     \/ CloseStep("release", "unregister") /\ output' = FALSE /\ UNCHANGED <<leg, callDone>>
     \/ CloseStep("unregister", "cancel") /\ UNCHANGED <<leg, output, callDone>>
     \/ CloseStep("cancel", "ended") /\ callDone' = TRUE /\ UNCHANGED <<leg, output>>
  /\ UNCHANGED <<rpcVars, pendingVars, worker, resultVars, doneVars, recorded, referCseq,
                 notify, muted>>
-----------------------------------------------------------------------------
Request(r) ==
  \/ CheckProvider(r)
  \/ RequestUnknown(r)
  \/ \E to \in Destinations : StartNew(r, to) \/ JoinPending(r, to)

Await(r) == ReceiveOutcome(r) \/ GiveUp(r)

Peer ==
  \/ RecvBye
  \/ \E m \in Notifies, about \in 1 .. referCseq, status \in Statuses, t \in BOOLEAN :
       \E withID \in EventIDs :
         RecvNotify(m, about, IF withID THEN about ELSE None, status, t)

Terminated ==
  /\ \A r \in Requests : reqPC[r] # "wait"
  /\ \A n \in Transfers : worker[n] \in {"none", "done"}
  /\ UNCHANGED vars

Next ==
  \/ \E r \in Requests : Request(r) \/ Await(r)
  \/ \E n \in Transfers : Worker(n)
  \/ \E m \in Notifies : Offer(m) \/ Unpark(m)
  \/ Peer
  \/ CancelCall
  \/ CloseCall
  \/ Terminated

Spec == Init /\ [][Next]_vars

(* The goroutines run and their timers fire: the response to the REFER,    *)
(* the deadline of the transfer and the grace are bounded by one each.     *)
(* Once its context is cancelled, the call closes (module InboundCall).    *)
Fairness ==
  /\ \A r \in Requests : WF_vars(ReceiveOutcome(r))
  /\ \A n \in Transfers : WF_vars(Worker(n))
  /\ \A m \in Notifies : WF_vars(Offer(m)) /\ WF_vars(Unpark(m))
  /\ WF_vars(CancelCall)
  /\ WF_vars(callDone /\ CloseCall)

FairSpec == Spec /\ Fairness
-----------------------------------------------------------------------------
(* "this ensures we return the same outcome to all callers"                *)
(* (transferSIPParticipant): whoever read the buffered outcome, the others *)
(* read the same one from pending.Outcome, and it is what was recorded.    *)
SameOutcome ==
  \A r \in Requests : reply[r] \in Outcomes =>
    /\ reply[r] = outcome[joined[r]]
    /\ reply[r] = "success" <=> recorded[joined[r]] = "successful"

(* referDone has at most one receiver: a transfer does not start before    *)
(* the one under way is over, so no result can go to the wrong one of two  *)
(* waiting transfers.                                                      *)
OneReceiver ==
  /\ TypeOK
  /\ \A m, n \in Transfers :
       worker[m] \notin {"none", "done"} /\ worker[n] \notin {"none", "done"}
         => m = n

(* A transfer succeeds only on a NOTIFY that says so: the end of the call, *)
(* a terminated subscription or a deadline "is a failure and not a         *)
(* success" (waitReferResult).                                             *)
SuccessWasNotified ==
  \A n \in Transfers : outcome[n] = "success" => source[n] # None

(* "A result that is already on its way wins" over the end of the call     *)
(* (waitReferResult): a transfer does not end as call-ended with a NOTIFY  *)
(* handler parked on the handoff.                                          *)
ResultWins ==
  [][\A n \in Transfers :
       outcome'[n] = "call-ended" /\ outcome[n] = "none" => Parked = {}]_vars

(* A transfer that failed leaves the caller hearing the room again, if the *)
(* call is still up when it is over.                                       *)
AudioRestored ==
  \A n \in Transfers :
    (outcome[n] \in Failures /\ worker[n] = "done" /\ pending = None /\ ~done)
      => output \/ \E m \in Transfers : outcome[m] = "success"

(* Every transfer is over at some time and leaves pendingTransfers, so     *)
(* that the call can be transferred again, and every RPC gets an answer    *)
(* even if its own context never ends.                                     *)
TransfersEnd ==
  /\ \A n \in Transfers : worker[n] = "start" ~> (worker[n] = "done" /\ pending # n)
  /\ \A r \in Requests : reqPC[r] = "wait" ~> reqPC[r] = "done"

(* A call that was transferred is hung up, by the peer or by the server.   *)
TransferredCallEnds ==
  \A n \in Transfers : outcome[n] = "success" ~> closing = "ended"

(* "Do not buffer the channel to avoid reading a result for an old         *)
(* request" (newInbound): the result a transfer takes is about its REFER.  *)
OwnResult == \A n \in Transfers : source[n] \in {None, n}
-----------------------------------------------------------------------------
(* Where the worker is before its result is settled, while it may hold the *)
(* output of the room, and once the outcome is out.                        *)
Unsettled == {"none", "start", "mute", "refer", "sent"} \cup Waiting
Holding == {"refer", "sent", "unmute", "restore"} \cup Waiting
Published == {"store", "close", "delete", "done"}

(* A worker owns pendingTransfers[callID] while it runs, settles its       *)
(* outcome once, records it before it publishes it, and stores it before   *)
(* it closes the channel.                                                  *)
WorkerOK(n) ==
  /\ worker[n] \notin {"none", "done"} => pending = n
  /\ outcome[n] = "none" <=> worker[n] \in Unsettled
  /\ outcome[n] = "success" => source[n] # None
  /\ worker[n] \notin Published \cup {"push"} => recorded[n] # "successful"
  /\ worker[n] \in Published \cup {"push"} =>
       (outcome[n] = "success" <=> recorded[n] = "successful")
  /\ worker[n] \in Published \/ ~(buffered[n] \/ stored[n] \/ closed[n])
  /\ worker[n] = "close" \/ closed[n] => stored[n]
  /\ n \in muted => worker[n] \in Holding

WorkerInv == \A n \in Transfers : WorkerOK(n)

(* A request that waits has a transfer, and answers once.                  *)
RequestInv ==
  \A r \in Requests :
    /\ reqPC[r] = "wait" => joined[r] # None
    /\ reply[r] # "none" => reqPC[r] = "done"
    /\ reply[r] \in Outcomes =>
         /\ joined[r] # None
         /\ worker[joined[r]] \in Published
         /\ reply[r] = outcome[joined[r]]

(* A handler at work has a result of a REFER, and parks only when no       *)
(* transfer is there to take it.                                           *)
NotifyInv ==
  \A m \in Notifies :
    /\ notify[m].pc # "idle" =>
         notify[m].about # None /\ notify[m].result \in {"success", "failed"}
    /\ notify[m].pc = "parked" => \A n \in Transfers : worker[n] \notin Waiting

(* While the call is up, the output is in the room, or with the transfer   *)
(* that took it, or gone with a transfer that succeeded.                   *)
AudioInv ==
  done \/ output \/ muted # {} \/ \E n \in Transfers : outcome[n] = "success"

(* The conjunction the proofs carry through every step.                    *)
IInv == TypeOK /\ WorkerInv /\ RequestInv /\ NotifyInv /\ AudioInv
=============================================================================
