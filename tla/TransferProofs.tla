--------------------------- MODULE TransferProofs ---------------------------
(***************************************************************************)
(* The inductive invariant IInv of Transfer, for any number of requests,   *)
(* transfers and NOTIFY handlers, and what follows from it.                *)
(*                                                                         *)
(* Types first, then one lemma per process: the requests, the worker, the  *)
(* NOTIFY handlers and the end of the call.                                *)
(***************************************************************************)
EXTENDS Transfer, TLAPS

USE SMTT(30)
USE DEF rpcVars, pendingVars, doneVars, resultVars, callVars, audioVars,
        None, Goto, Reply

(* None is no transfer.                                                    *)
LEMMA TransferIds == None \notin Transfers /\ Transfers \subseteq Nat
  BY BoundsAssumption DEF Transfers

(* The requests keep the types.                                            *)
LEMMA RequestType ==
  ASSUME TypeOK, RequestInv, NEW r \in Requests, Request(r) \/ Await(r)
  PROVE  TypeOK'
  <1>1. CASE CheckProvider(r) \/ RequestUnknown(r) \/ GiveUp(r)
    BY <1>1 DEF CheckProvider, RequestUnknown, GiveUp, TypeOK
  <1>2. ASSUME NEW to \in Destinations, StartNew(r, to) PROVE TypeOK'
    BY <1>2 DEF StartNew, TypeOK, WorkerPCs
  <1>3. ASSUME NEW to \in Destinations, JoinPending(r, to) PROVE TypeOK'
    BY <1>3 DEF JoinPending, TypeOK
  <1>4. CASE ReceiveOutcome(r)
    <2>1. joined[r] \in Transfers
      BY <1>4 DEF ReceiveOutcome, RequestInv, TypeOK
    <2>2. FALSE \in BOOLEAN
      OBVIOUS
    <2>3. outcome[joined[r]] \in Outcomes \cup {"none"} /\ "success" \in Outcomes
      BY Zenon, <2>1 DEF TypeOK, Outcomes
    <2> QED BY Zenon, <1>4, <2>1, <2>2, <2>3 DEF ReceiveOutcome, TypeOK
  <1> QED BY Zenon, <1>1, <1>2, <1>3, <1>4 DEF Request, Await

(* Settling a transfer keeps the types of what it assigns.                 *)
LEMMA SettleType ==
  ASSUME TypeOK, NEW n \in Transfers, NEW k \in Transfers \cup {None},
         NEW result \in Outcomes, Settle(n, result, k)
  PROVE  /\ outcome' \in [Transfers -> Outcomes \cup {"none"}]
         /\ source' \in [Transfers -> Transfers \cup {None}]
         /\ worker' \in [Transfers -> WorkerPCs]
  <1>1. "unmute" \in WorkerPCs
    BY Zenon DEF WorkerPCs
  <1> QED BY Zenon, <1>1 DEF Settle, TypeOK

(* A handler at work holds a result and the REFER it is about.             *)
LEMMA HeldType ==
  ASSUME TypeOK, NotifyInv, NEW m \in Notifies, notify[m].pc # "idle"
  PROVE  /\ notify[m].result \in Outcomes
         /\ notify[m].about \in Transfers
  BY Zenon DEF TypeOK, Handlers, NotifyInv, Outcomes, Failures

(* Clearing a handler keeps the type of the handlers.                      *)
LEMMA ClearType ==
  ASSUME TypeOK, NEW m \in Notifies
  PROVE  [notify EXCEPT ![m] = NoNotify] \in [Notifies -> Handlers]
  BY Zenon DEF TypeOK, NoNotify, Handlers

(* The worker keeps the types.                                             *)
LEMMA WorkerType ==
  ASSUME TypeOK, NotifyInv, NEW n \in Transfers, Worker(n)
  PROVE  TypeOK'
  <1>0. "failed" \in Outcomes /\ "call-ended" \in Outcomes
    BY Zenon DEF Outcomes, Failures
  <1>1. CASE ProcessTransfer(n)
    BY <1>0, <1>1 DEF ProcessTransfer, TypeOK, WorkerPCs
  <1>2. CASE Mute(n) \/ Unmute(n) \/ Restore(n)
    <2>1. output' \in BOOLEAN
      BY <1>2, Zenon DEF Mute, Unmute, Restore, TypeOK
    <2> QED BY <1>2, <2>1 DEF Mute, Unmute, Restore, TypeOK, WorkerPCs
  <1>3. CASE SendRefer(n)
    <2>1. CASE leg
      BY <1>3, <2>1 DEF SendRefer, TypeOK, WorkerPCs
    <2>2. CASE ~leg
      BY <1>0, <1>3, <2>2 DEF SendRefer, Settle, TypeOK, WorkerPCs
    <2> QED BY Zenon, <2>1, <2>2
  <1>4. CASE ReferFails(n) \/ Deadline(n) \/ GraceExpires(n)
    BY <1>0, <1>4 DEF ReferFails, Deadline, GraceExpires, Settle, TypeOK, WorkerPCs
  <1>5. ASSUME TakeParked(n)
        PROVE  /\ outcome' \in [Transfers -> Outcomes \cup {"none"}]
               /\ source' \in [Transfers -> Transfers \cup {None}]
               /\ worker' \in [Transfers -> WorkerPCs]
               /\ notify' \in [Notifies -> Handlers]
    <2>1. PICK m \in Parked : /\ Settle(n, notify[m].result, notify[m].about)
                              /\ notify' = [notify EXCEPT ![m] = NoNotify]
      BY <1>5, Zenon DEF TakeParked
    <2>2. m \in Notifies /\ notify[m].pc # "idle"
      BY Zenon DEF Parked
    <2> QED BY Zenon, <2>1, <2>2, HeldType, SettleType, ClearType
  <1>6. CASE ReferAccepted(n)
    <2>1. CASE TakeParked(n)
      BY Zenon, <1>5, <1>6, <2>1 DEF ReferAccepted, TypeOK
    <2>2. CASE Settle(n, "failed", None) /\ UNCHANGED notify
      BY Zenon, <1>0, <1>6, <2>2 DEF ReferAccepted, Settle, TypeOK, WorkerPCs
    <2>3. CASE (Goto(n, "wait") \/ Goto(n, "grace")) /\ UNCHANGED <<resultVars, notify>>
      BY <1>6, <2>3 DEF ReferAccepted, TypeOK, WorkerPCs, Waiting
    <2> QED BY Zenon, <1>6, <2>1, <2>2, <2>3 DEF ReferAccepted, AfterCallDone
  <1>7. CASE SeeCallDone(n)
    <2>1. CASE TakeParked(n)
      BY Zenon, <1>5, <1>7, <2>1 DEF SeeCallDone, TypeOK
    <2>2. CASE Goto(n, "grace") /\ UNCHANGED <<resultVars, notify>>
      BY Zenon, <1>7, <2>2 DEF SeeCallDone, TypeOK, WorkerPCs, Waiting
    <2> QED BY Zenon, <1>7, <2>1, <2>2 DEF SeeCallDone, AfterCallDone
  <1>8. CASE EndTransfer(n) \/ Push(n) \/ Store(n) \/ CloseDone(n) \/ Delete(n)
    <2>1. TRUE \in BOOLEAN
      OBVIOUS
    <2>2. CASE EndTransfer(n) \/ Delete(n)
      BY <2>2 DEF EndTransfer, Delete, TypeOK, WorkerPCs
    <2>3. CASE Push(n)
      BY Zenon, <2>1, <2>3 DEF Push, TypeOK, WorkerPCs
    <2>4. CASE Store(n)
      BY Zenon, <2>1, <2>4 DEF Store, TypeOK, WorkerPCs
    <2>5. CASE CloseDone(n)
      BY Zenon, <2>1, <2>5 DEF CloseDone, TypeOK, WorkerPCs
    <2> QED BY Zenon, <1>8, <2>2, <2>3, <2>4, <2>5
  <1> QED BY Zenon, <1>1, <1>2, <1>3, <1>4, <1>6, <1>7, <1>8 DEF Worker

(* The NOTIFY handlers, the peer and the end of the call keep the types.   *)
LEMMA CallType ==
  ASSUME TypeOK, NotifyInv,
         \/ \E m \in Notifies : Offer(m) \/ Unpark(m)
         \/ Peer \/ CancelCall \/ CloseCall
  PROVE  TypeOK'
  <1>1. ASSUME NEW m \in Notifies, Unpark(m) PROVE TypeOK'
    BY Zenon, <1>1, ClearType DEF Unpark, TypeOK
  <1>2. ASSUME NEW m \in Notifies, Offer(m) PROVE TypeOK'
    <2>1. CASE /\ notify' = [notify EXCEPT ![m].pc = "parked"]
               /\ UNCHANGED <<worker, resultVars>>
      BY <1>2, <2>1 DEF Offer, TypeOK, Handlers
    <2>2. ASSUME NEW n \in Transfers,
                 Settle(n, notify[m].result, notify[m].about),
                 notify' = [notify EXCEPT ![m] = NoNotify]
          PROVE  TypeOK'
      <3>1. notify[m].pc # "idle"
        BY Zenon, <1>2 DEF Offer
      <3> QED BY Zenon, <1>2, <2>2, <3>1, HeldType, SettleType, ClearType DEF
           Offer, TypeOK
    <2> QED BY Zenon, <1>2, <2>1, <2>2 DEF Offer
  <1>3. CASE RecvBye \/ CancelCall \/ CloseCall
    <2>1. leg' \in BOOLEAN /\ callDone' \in BOOLEAN /\ output' \in BOOLEAN
      BY <1>3, Zenon DEF RecvBye, CancelCall, CloseCall, TypeOK
    <2> QED BY ZenonT(30), <1>3, <2>1 DEF RecvBye, CancelCall, CloseCall,
         CloseStep, TypeOK, ClosePCs
  <1>4. ASSUME NEW m \in Notifies, NEW about \in 1 .. referCseq, NEW id,
               NEW status, NEW t, RecvNotify(m, about, id, status, t)
        PROVE  TypeOK'
    <2>1. about \in Transfers
      BY BoundsAssumption DEF TypeOK, Transfers
    <2>2. NotifyResult(status, t) \in Outcomes \cup {"none"}
      BY Zenon DEF NotifyResult, Outcomes, Failures
    <2> QED BY Zenon, <1>4, <2>1, <2>2, ClearType DEF RecvNotify, TypeOK,
         Handlers
  <1> QED BY Zenon, <1>1, <1>2, <1>3, <1>4 DEF Peer

-----------------------------------------------------------------------------
(* A worker whose own state a step leaves alone keeps its part.            *)
LEMMA Bystander ==
  ASSUME NEW n \in Transfers, WorkerOK(n),
         worker'[n] = worker[n], outcome'[n] = outcome[n], source'[n] = source[n],
         recorded'[n] = recorded[n], buffered'[n] = buffered[n],
         stored'[n] = stored[n], closed'[n] = closed[n],
         n \in muted' => n \in muted,
         pending' = pending \/ worker[n] \in {"none", "done"}
  PROVE  WorkerOK(n)'
  BY Zenon DEF WorkerOK

(* A step that leaves the workers' state alone keeps WorkerInv.            *)
LEMMA WorkersIdle ==
  ASSUME WorkerInv, UNCHANGED <<worker, outcome, source, recorded, buffered, stored,
                                closed, muted, pending>>
  PROVE  WorkerInv'
  BY Zenon, Bystander DEF WorkerInv

(* Likewise for RequestInv.                                                *)
LEMMA RequestsIdle ==
  ASSUME RequestInv, UNCHANGED <<reqPC, joined, reply, worker, outcome>>
  PROVE  RequestInv'
  BY Zenon DEF RequestInv

(* A request moves only itself and, through pending.Done, the buffer.      *)
LEMMA RequestStep ==
  ASSUME IInv, NEW r \in Requests, Request(r) \/ Await(r)
  PROVE  WorkerInv' /\ RequestInv' /\ NotifyInv' /\ AudioInv'
  <1>0. TypeOK /\ WorkerInv /\ RequestInv /\ NotifyInv /\ AudioInv
    BY Zenon DEF IInv
  <1>1. CASE CheckProvider(r)
    BY ZenonT(30), <1>0, <1>1, WorkersIdle DEF CheckProvider, TypeOK, RequestInv,
         NotifyInv, AudioInv, done
  <1>2. ASSUME NEW answer \in {"unknown", "cancelled", "elsewhere"},
               reqPC[r] # "done", Reply(r, answer), UNCHANGED joined,
               UNCHANGED <<pendingVars, worker, resultVars, doneVars, recorded,
                           referCseq, notify, callVars, audioVars>>
        PROVE  WorkerInv' /\ RequestInv' /\ NotifyInv' /\ AudioInv'
    BY <1>0, <1>2, WorkersIdle DEF TypeOK, RequestInv, NotifyInv, AudioInv, done,
         Outcomes, Failures
  <1>3. CASE RequestUnknown(r) \/ GiveUp(r)
    BY Zenon, <1>2, <1>3 DEF RequestUnknown, GiveUp
  <1>4. ASSUME NEW to \in Destinations, StartNew(r, to)
        PROVE  WorkerInv' /\ RequestInv' /\ NotifyInv' /\ AudioInv'
    <2>1. PICK n \in Transfers :
             /\ worker[n] = "none" /\ pending' = n
             /\ joined' = [joined EXCEPT ![r] = n]
             /\ worker' = [worker EXCEPT ![n] = "start"]
      BY <1>4, Zenon DEF StartNew
    <2>2. ASSUME NEW m \in Transfers PROVE WorkerOK(m)'
      <3>1. WorkerOK(m) /\ pending = None
        BY Zenon, <1>0, <1>4 DEF WorkerInv, StartNew
      <3>2. worker[m] \in {"none", "done"}
        BY Zenon, <3>1, TransferIds DEF WorkerOK
      <3>3. CASE m # n
        BY <1>0, <1>4, <2>1, <3>1, <3>2, <3>3, Bystander DEF StartNew, TypeOK
      <3>4. CASE m = n
        BY <1>0, <1>4, <2>1, <3>1, <3>4 DEF StartNew, TypeOK, WorkerOK, Unsettled,
             Published, Holding, Waiting
      <3> QED BY Zenon, <3>3, <3>4
    <2>3. RequestInv'
      BY <1>0, <1>4, <2>1, TransferIds DEF StartNew, TypeOK, RequestInv, Published,
           Outcomes, Failures
    <2>4. NotifyInv' /\ AudioInv'
      BY <1>0, <1>4, <2>1 DEF StartNew, TypeOK, NotifyInv, AudioInv, done, Waiting
    <2> QED BY Zenon, <2>2, <2>3, <2>4 DEF WorkerInv
  <1>5. ASSUME NEW to \in Destinations, JoinPending(r, to)
        PROVE  WorkerInv' /\ RequestInv' /\ NotifyInv' /\ AudioInv'
    <2>1. CASE Reply(r, "elsewhere") /\ UNCHANGED joined
      BY Zenon, <1>2, <1>5, <2>1 DEF JoinPending
    <2>2. CASE /\ reqPC' = [reqPC EXCEPT ![r] = "wait"]
               /\ joined' = [joined EXCEPT ![r] = pending]
               /\ UNCHANGED reply
      BY <1>0, <1>5, <2>2, WorkersIdle DEF JoinPending, TypeOK, RequestInv, NotifyInv,
           AudioInv, done, Outcomes, Failures
    <2> QED BY Zenon, <1>5, <2>1, <2>2 DEF JoinPending
  <1>6. CASE ReceiveOutcome(r)
    <2> DEFINE n == joined[r]
    <2>1. n \in Transfers /\ reqPC[r] = "wait"
      BY <1>0, <1>6 DEF ReceiveOutcome, RequestInv, TypeOK
    <2>2. worker[n] \in Published /\ (buffered[n] \/ stored[n])
      BY Zenon, <1>0, <1>6, <2>1 DEF ReceiveOutcome, WorkerInv, WorkerOK
    <2>3. reply' = [reply EXCEPT ![r] = outcome[n]]
      BY <1>6, <2>2, Zenon DEF ReceiveOutcome
    <2>4. WorkerInv'
      BY <1>0, <1>6, <2>1 DEF ReceiveOutcome, TypeOK, WorkerInv, WorkerOK
    <2>5. RequestInv'
      BY <1>0, <1>6, <2>1, <2>2, <2>3 DEF ReceiveOutcome, TypeOK, RequestInv
    <2>6. NotifyInv' /\ AudioInv'
      BY Zenon, <1>0, <1>6 DEF ReceiveOutcome, NotifyInv, AudioInv, done
    <2> QED BY Zenon, <2>4, <2>5, <2>6
  <1> QED BY Zenon, <1>1, <1>3, <1>4, <1>5, <1>6 DEF Request, Await

(* A step of a running worker keeps the parts of the other workers and of  *)
(* the requests if it keeps its own, and an outcome that is published.     *)
LEMMA WorkerMoves ==
  ASSUME IInv, NEW n \in Transfers, NEW label, Goto(n, label), UNCHANGED rpcVars,
         worker[n] \notin {"none", "done"},
         \A m \in Transfers \ {n} :
           /\ outcome'[m] = outcome[m] /\ source'[m] = source[m]
           /\ recorded'[m] = recorded[m] /\ buffered'[m] = buffered[m]
           /\ stored'[m] = stored[m] /\ closed'[m] = closed[m]
           /\ m \in muted' => m \in muted,
         WorkerOK(n)',
         worker[n] \in Published => label \in Published /\ outcome'[n] = outcome[n]
  PROVE  WorkerInv' /\ RequestInv'
  <1>0. TypeOK /\ WorkerInv /\ RequestInv
    BY Zenon DEF IInv
  <1>1. ASSUME NEW m \in Transfers \ {n}
        PROVE  worker[m] \in {"none", "done"} /\ worker'[m] = worker[m]
    BY <1>0 DEF WorkerInv, WorkerOK, TypeOK
  <1>2. WorkerInv'
    BY Zenon, <1>0, <1>1, Bystander DEF WorkerInv
  <1>3. ASSUME NEW r \in Requests, reply[r] \in Outcomes
        PROVE  /\ worker'[joined[r]] \in Published
               /\ reply[r] = outcome'[joined[r]]
    <2>1. joined[r] \in Transfers /\ worker[joined[r]] \in Published
          /\ reply[r] = outcome[joined[r]]
      BY <1>0, <1>3 DEF RequestInv, TypeOK
    <2>2. CASE joined[r] = n
      BY ZenonT(30), <1>0, <2>1, <2>2 DEF TypeOK
    <2>3. CASE joined[r] # n
      BY Zenon, <1>1, <2>1, <2>3
    <2> QED BY Zenon, <2>2, <2>3
  <1>4. RequestInv'
    BY Zenon, <1>0, <1>3 DEF RequestInv
  <1> QED BY Zenon, <1>2, <1>4

(* The same for a step that leaves the handlers and the audio alone, and   *)
(* does not make the worker wait.                                          *)
LEMMA WorkerQuiet ==
  ASSUME IInv, NEW n \in Transfers, NEW label, Goto(n, label), label \notin Waiting,
         UNCHANGED <<notify, closing, audioVars>>,
         outcome[n] = "success" => outcome'[n] = "success",
         \A m \in Transfers \ {n} : outcome'[m] = outcome[m]
  PROVE  NotifyInv' /\ AudioInv'
  <1>1. NotifyInv'
    BY Zenon DEF IInv, TypeOK, NotifyInv
  <1>2. AudioInv'
    BY Zenon DEF IInv, AudioInv, done
  <1> QED BY Zenon, <1>1, <1>2

(* Settling the outcome of a worker that has none.                         *)
LEMMA SettleStep ==
  ASSUME IInv, NEW n \in Transfers, worker[n] \in {"refer", "sent"} \cup Waiting,
         NEW result \in Outcomes, NEW k, result = "success" => k # None,
         outcome' = [outcome EXCEPT ![n] = result],
         source' = [source EXCEPT ![n] = k], Goto(n, "unmute"),
         UNCHANGED <<rpcVars, pendingVars, doneVars, recorded, closing, audioVars>>
  PROVE  WorkerInv' /\ RequestInv' /\ AudioInv'
  <1>0. TypeOK /\ WorkerOK(n)
    BY Zenon DEF IInv, WorkerInv
  <1>1. worker[n] \in Unsettled /\ worker[n] \notin Published \cup {"none", "done"}
    BY Zenon DEF Unsettled, Waiting, Published
  <1>2. WorkerOK(n)'
    BY Zenon, <1>0, <1>1 DEF TypeOK, WorkerOK, Unsettled, Published, Holding,
         Waiting, Outcomes, Failures
  <1>3. \A m \in Transfers \ {n} :
           /\ outcome'[m] = outcome[m] /\ source'[m] = source[m]
           /\ recorded'[m] = recorded[m] /\ buffered'[m] = buffered[m]
           /\ stored'[m] = stored[m] /\ closed'[m] = closed[m]
           /\ m \in muted' => m \in muted
    BY <1>0 DEF TypeOK
  <1>4. WorkerInv' /\ RequestInv'
    BY <1>1, <1>2, <1>3, WorkerMoves, Zenon
  <1>5. outcome[n] = "none"
    BY Zenon, <1>0, <1>1 DEF WorkerOK
  <1>6. AudioInv'
    BY Zenon, <1>3, <1>5 DEF IInv, AudioInv, done
  <1> QED BY Zenon, <1>4, <1>6

(* A step that clears a handler, or leaves the handlers alone, and sends a *)
(* worker where it does not wait.                                          *)
LEMMA HandlerCleared ==
  ASSUME IInv, NEW n \in Transfers, Goto(n, "unmute"),
         \/ UNCHANGED notify
         \/ \E m \in Notifies : notify' = [notify EXCEPT ![m] = NoNotify]
  PROVE  NotifyInv'
  BY DEF IInv, TypeOK, NotifyInv, NoNotify, Waiting

(* The worker.                                                             *)
LEMMA WorkerStep ==
  ASSUME IInv, NEW n \in Transfers, Worker(n)
  PROVE  WorkerInv' /\ RequestInv' /\ NotifyInv' /\ AudioInv'
  <1>0. TypeOK /\ WorkerOK(n) /\ WorkerInv /\ NotifyInv /\ AudioInv
    BY Zenon DEF IInv, WorkerInv
  <1>e. "failed" \in Outcomes /\ "call-ended" \in Outcomes
    BY Zenon DEF Outcomes, Failures
  <1>p. ASSUME TakeParked(n), worker[n] \in {"sent"} \cup Waiting,
               UNCHANGED <<rpcVars, pendingVars, doneVars, recorded, closing, audioVars>>
        PROVE  WorkerInv' /\ RequestInv' /\ NotifyInv' /\ AudioInv'
    <2>1. PICK m \in Parked : /\ Settle(n, notify[m].result, notify[m].about)
                              /\ notify' = [notify EXCEPT ![m] = NoNotify]
      BY <1>p, Zenon DEF TakeParked
    <2>2. m \in Notifies /\ notify[m].pc # "idle"
      BY Zenon DEF Parked
    <2>3. notify[m].result \in Outcomes /\ notify[m].about # None
      BY Zenon, <1>0, <2>2, HeldType, TransferIds
    <2>4. /\ outcome' = [outcome EXCEPT ![n] = notify[m].result]
          /\ source' = [source EXCEPT ![n] = notify[m].about]
          /\ Goto(n, "unmute")
      BY Zenon, <2>1 DEF Settle
    <2>5. worker[n] \in {"refer", "sent"} \cup Waiting
      BY Zenon, <1>p
    <2>6. WorkerInv' /\ RequestInv' /\ AudioInv'
      BY <1>p, <2>3, <2>4, <2>5, SettleStep, Zenon
    <2>7. NotifyInv'
      BY <2>1, <2>2, <2>4, HandlerCleared, Zenon
    <2> QED BY Zenon, <2>6, <2>7
  <1>w. ASSUME NEW label \in Waiting, Goto(n, label), Parked = {},
               worker[n] \in {"sent"} \cup Waiting,
               UNCHANGED <<resultVars, notify, rpcVars, pendingVars, doneVars, recorded,
                           callVars, audioVars>>
        PROVE  WorkerInv' /\ RequestInv' /\ NotifyInv' /\ AudioInv'
    <2>1. worker[n] \notin Published \cup {"none", "done"}
      BY Zenon, <1>w DEF Waiting, Published
    <2>2. WorkerOK(n)'
      BY Zenon, <1>0, <1>w DEF TypeOK, WorkerOK, Unsettled, Published,
           Holding, Waiting
    <2>3. WorkerInv' /\ RequestInv'
      BY <1>w, <2>1, <2>2, WorkerMoves, Zenon
    <2>4. NotifyInv'
      BY <1>0, <1>w, Zenon DEF NotifyInv, Parked
    <2>5. AudioInv'
      BY Zenon, <1>0, <1>w DEF AudioInv, done
    <2> QED BY Zenon, <2>3, <2>4, <2>5
  <1>1. CASE ProcessTransfer(n)
    <2>1. worker[n] = "start"
      BY Zenon, <1>1 DEF ProcessTransfer
    <2>2. WorkerOK(n)'
      BY <1>0, <1>1 DEF ProcessTransfer, TypeOK, WorkerOK, Unsettled, Published,
           Holding, Waiting
    <2>3. \A m \in Transfers \ {n} :
             /\ outcome'[m] = outcome[m] /\ source'[m] = source[m]
             /\ recorded'[m] = recorded[m] /\ buffered'[m] = buffered[m]
             /\ stored'[m] = stored[m] /\ closed'[m] = closed[m]
             /\ m \in muted' => m \in muted
      BY <1>0, <1>1 DEF ProcessTransfer, TypeOK
    <2>4. PICK label \in {"mute", "refer", "push"} : Goto(n, label)
      BY Zenon, <1>1 DEF ProcessTransfer
    <2>5. outcome[n] = "none" /\ label \notin Waiting /\ worker[n] \notin Published
      BY Zenon, <1>0, <2>1 DEF WorkerOK, Unsettled, Waiting, Published
    <2>6. UNCHANGED <<rpcVars, notify, closing, audioVars>>
      BY Zenon, <1>1 DEF ProcessTransfer
    <2>7. WorkerInv' /\ RequestInv'
      BY <2>1, <2>2, <2>3, <2>4, <2>5, <2>6, WorkerMoves, Zenon
    <2>8. NotifyInv' /\ AudioInv'
      BY <2>3, <2>4, <2>5, <2>6, WorkerQuiet, Zenon
    <2> QED BY Zenon, <2>7, <2>8
  <1>2. CASE Mute(n)
    <2>1. worker[n] = "mute" /\ worker[n] \notin Published
      BY Zenon, <1>2 DEF Mute, Published
    <2>2. WorkerOK(n)'
      BY Zenon, <1>0, <1>2 DEF Mute, TypeOK, WorkerOK, Unsettled, Published,
           Holding, Waiting
    <2>3. \A m \in Transfers \ {n} :
             /\ outcome'[m] = outcome[m] /\ source'[m] = source[m]
             /\ recorded'[m] = recorded[m] /\ buffered'[m] = buffered[m]
             /\ stored'[m] = stored[m] /\ closed'[m] = closed[m]
             /\ m \in muted' => m \in muted
      BY Zenon, <1>2 DEF Mute
    <2>4. WorkerInv' /\ RequestInv'
      <3>1. Goto(n, "refer") /\ UNCHANGED rpcVars
        BY Zenon, <1>2 DEF Mute
      <3> QED BY <2>1, <2>2, <2>3, <3>1, WorkerMoves, Zenon
    <2>5. NotifyInv'
      BY ZenonT(30), <1>0, <1>2 DEF Mute, TypeOK, NotifyInv, Waiting
    <2>6. AudioInv'
      BY Zenon, <1>0, <1>2 DEF Mute, AudioInv, done
    <2> QED BY Zenon, <2>4, <2>5, <2>6
  <1>3. CASE SendRefer(n)
    <2>1. CASE leg
      <3>1. worker[n] = "refer" /\ worker[n] \notin Published /\ "sent" \notin Waiting
        BY Zenon, <1>3 DEF SendRefer, Published, Waiting
      <3>2. WorkerOK(n)'
        BY ZenonT(30), <1>0, <1>3, <2>1 DEF SendRefer, TypeOK, WorkerOK, Unsettled,
             Published, Holding, Waiting
      <3>3. WorkerInv' /\ RequestInv'
        <4>1. /\ Goto(n, "sent")
              /\ UNCHANGED <<rpcVars, resultVars, doneVars, recorded, muted>>
          BY <1>3, <2>1, Zenon DEF SendRefer
        <4>2. worker[n] \notin {"none", "done"}
          BY Zenon, <3>1
        <4> QED BY <3>1, <3>2, <4>1, <4>2, WorkerMoves, Zenon
      <3>4. NotifyInv' /\ AudioInv'
        BY Zenon, <1>3, <2>1, <3>1, WorkerQuiet DEF SendRefer
      <3> QED BY Zenon, <3>3, <3>4
    <2>2. CASE ~leg
      BY Zenon, <1>e, <1>3, <2>2, SettleStep, HandlerCleared DEF SendRefer,
           Settle
    <2> QED BY Zenon, <2>1, <2>2
  <1>4. CASE ReferFails(n) \/ Deadline(n) \/ GraceExpires(n)
    BY Zenon, <1>e, <1>4, SettleStep, HandlerCleared DEF ReferFails, Deadline,
         GraceExpires, Settle, Waiting
  <1>5. CASE ReferAccepted(n)
    <2>1. CASE Settle(n, "failed", None) /\ UNCHANGED notify
      <3>1. UNCHANGED <<rpcVars, pendingVars, doneVars, recorded, closing, audioVars>>
        BY Zenon, <1>5 DEF ReferAccepted
      <3>2. worker[n] \in {"refer", "sent"} \cup Waiting
        BY Zenon, <1>5 DEF ReferAccepted
      <3>3. /\ outcome' = [outcome EXCEPT ![n] = "failed"]
            /\ source' = [source EXCEPT ![n] = None]
            /\ Goto(n, "unmute") /\ UNCHANGED notify
        BY Zenon, <2>1 DEF Settle
      <3>4. "failed" # "success"
        OBVIOUS
      <3>5. WorkerInv' /\ RequestInv' /\ AudioInv'
        BY <1>e, <3>1, <3>2, <3>3, <3>4, SettleStep, Zenon
      <3>6. NotifyInv'
        BY <3>3, HandlerCleared, Zenon
      <3> QED BY Zenon, <3>5, <3>6
    <2>2. CASE TakeParked(n)
      BY Zenon, <1>5, <1>p, <2>2 DEF ReferAccepted
    <2>3. CASE /\ Goto(n, "wait") \/ Goto(n, "grace")
               /\ Parked = {} /\ UNCHANGED <<resultVars, notify>>
      BY Zenon, <1>5, <1>w, <2>3 DEF ReferAccepted, Waiting
    <2> QED BY Zenon, <1>5, <2>1, <2>2, <2>3 DEF ReferAccepted, AfterCallDone
  <1>6. CASE SeeCallDone(n)
    <2>1. CASE TakeParked(n)
      BY Zenon, <1>6, <1>p, <2>1 DEF SeeCallDone, Waiting
    <2>2. CASE Goto(n, "grace") /\ Parked = {} /\ UNCHANGED <<resultVars, notify>>
      BY Zenon, <1>6, <1>w, <2>2 DEF SeeCallDone, Waiting
    <2> QED BY Zenon, <1>6, <2>1, <2>2 DEF SeeCallDone, AfterCallDone
  <1>7. CASE Unmute(n)
    <2>1. worker[n] \notin Published \cup {"none", "done"}
      BY Zenon, <1>7 DEF Unmute, Published
    <2>2. WorkerOK(n)'
      BY <1>0, <1>7 DEF Unmute, TypeOK, WorkerOK, Unsettled, Published,
           Holding, Waiting
    <2>3. \A m \in Transfers \ {n} :
             /\ outcome'[m] = outcome[m] /\ source'[m] = source[m]
             /\ recorded'[m] = recorded[m] /\ buffered'[m] = buffered[m]
             /\ stored'[m] = stored[m] /\ closed'[m] = closed[m]
             /\ m \in muted' => m \in muted
      BY <1>7, Zenon DEF Unmute
    <2>4. PICK label \in {"restore", "record"} : Goto(n, label)
      BY Zenon, <1>7 DEF Unmute
    <2>5. UNCHANGED <<rpcVars, pendingVars, resultVars, doneVars, recorded, notify,
                      closing>>
      BY <1>7, Zenon DEF Unmute
    <2>6. WorkerInv' /\ RequestInv'
      BY <2>1, <2>2, <2>3, <2>4, <2>5, WorkerMoves, Zenon
    <2>7. NotifyInv'
      BY Zenon, <1>0, <2>4, <2>5 DEF TypeOK, NotifyInv, Waiting
    <2>8. AudioInv'
      BY Zenon, <1>0, <1>7 DEF Unmute, AudioInv, done
    <2> QED BY Zenon, <2>6, <2>7, <2>8
  <1>8. CASE Restore(n)
    <2>1. worker[n] \notin Published \cup {"none", "done"}
      BY Zenon, <1>8 DEF Restore, Published
    <2>2. WorkerOK(n)'
      BY Zenon, <1>0, <1>8 DEF Restore, TypeOK, WorkerOK, Unsettled,
           Published, Holding, Waiting
    <2>3. \A m \in Transfers \ {n} :
             /\ outcome'[m] = outcome[m] /\ source'[m] = source[m]
             /\ recorded'[m] = recorded[m] /\ buffered'[m] = buffered[m]
             /\ stored'[m] = stored[m] /\ closed'[m] = closed[m]
             /\ m \in muted' => m \in muted
      BY <1>8, Zenon DEF Restore
    <2>4. PICK label \in {"restore", "record"} : Goto(n, label)
      BY Zenon, <1>8 DEF Restore
    <2>5. UNCHANGED <<rpcVars, pendingVars, resultVars, doneVars, recorded, notify,
                      closing>>
      BY <1>8, Zenon DEF Restore
    <2>6. WorkerInv' /\ RequestInv'
      BY <2>1, <2>2, <2>3, <2>4, <2>5, WorkerMoves, Zenon
    <2>7. NotifyInv'
      BY Zenon, <1>0, <2>4, <2>5 DEF TypeOK, NotifyInv, Waiting
    <2>8. AudioInv'
      BY Zenon, <1>0, <1>8 DEF Restore, AudioInv, done
    <2> QED BY Zenon, <2>6, <2>7, <2>8
  <1>9. CASE EndTransfer(n)
    <2>1. worker[n] \notin {"none", "done"}
      BY Zenon, <1>9 DEF EndTransfer
    <2>2. WorkerOK(n)'
      BY Zenon, <1>0, <1>9 DEF EndTransfer, TypeOK, WorkerOK, Unsettled,
           Published, Holding, Waiting
    <2>3. /\ \A m \in Transfers \ {n} :
                /\ outcome'[m] = outcome[m] /\ source'[m] = source[m]
                /\ recorded'[m] = recorded[m] /\ buffered'[m] = buffered[m]
                /\ stored'[m] = stored[m] /\ closed'[m] = closed[m]
                /\ m \in muted' => m \in muted
          /\ outcome' = outcome
      BY Zenon, <1>0, <1>9 DEF EndTransfer, TypeOK
    <2>4. PICK label \in Published \cup {"push"} :
             Goto(n, label) /\ (worker[n] \in Published => label \in Published)
      BY Zenon, <1>9 DEF EndTransfer, Published
    <2>5. label \notin Waiting
      BY Zenon DEF Waiting, Published
    <2>6. UNCHANGED <<rpcVars, resultVars, notify, closing, audioVars>>
      BY <1>9, Zenon DEF EndTransfer
    <2>7. WorkerInv' /\ RequestInv'
      BY <2>1, <2>2, <2>3, <2>4, <2>6, WorkerMoves, Zenon
    <2>8. NotifyInv' /\ AudioInv'
      BY <2>3, <2>4, <2>5, <2>6, WorkerQuiet, Zenon
    <2> QED BY Zenon, <2>7, <2>8
  <1>10. CASE Push(n)
    <2>1. worker[n] \notin {"none", "done"}
      BY Zenon, <1>10 DEF Push
    <2>2. WorkerOK(n)'
      BY Zenon, <1>0, <1>10 DEF Push, TypeOK, WorkerOK, Unsettled, Published,
           Holding, Waiting
    <2>3. /\ \A m \in Transfers \ {n} :
                /\ outcome'[m] = outcome[m] /\ source'[m] = source[m]
                /\ recorded'[m] = recorded[m] /\ buffered'[m] = buffered[m]
                /\ stored'[m] = stored[m] /\ closed'[m] = closed[m]
                /\ m \in muted' => m \in muted
          /\ outcome' = outcome
      BY Zenon, <1>0, <1>10 DEF Push, TypeOK
    <2>4. PICK label \in Published \cup {"push"} :
             Goto(n, label) /\ (worker[n] \in Published => label \in Published)
      BY Zenon, <1>10 DEF Push, Published
    <2>5. label \notin Waiting
      BY Zenon DEF Waiting, Published
    <2>6. UNCHANGED <<rpcVars, resultVars, notify, closing, audioVars>>
      BY <1>10, Zenon DEF Push
    <2>7. WorkerInv' /\ RequestInv'
      BY <2>1, <2>2, <2>3, <2>4, <2>6, WorkerMoves, Zenon
    <2>8. NotifyInv' /\ AudioInv'
      BY <2>3, <2>4, <2>5, <2>6, WorkerQuiet, Zenon
    <2> QED BY Zenon, <2>7, <2>8
  <1>11. CASE Store(n)
    <2>1. worker[n] \notin {"none", "done"}
      BY Zenon, <1>11 DEF Store
    <2>2. WorkerOK(n)'
      BY <1>0, <1>11 DEF Store, TypeOK, WorkerOK, Unsettled, Published,
           Holding, Waiting
    <2>3. /\ \A m \in Transfers \ {n} :
                /\ outcome'[m] = outcome[m] /\ source'[m] = source[m]
                /\ recorded'[m] = recorded[m] /\ buffered'[m] = buffered[m]
                /\ stored'[m] = stored[m] /\ closed'[m] = closed[m]
                /\ m \in muted' => m \in muted
          /\ outcome' = outcome
      BY Zenon, <1>0, <1>11 DEF Store, TypeOK
    <2>4. PICK label \in Published \cup {"push"} :
             Goto(n, label) /\ (worker[n] \in Published => label \in Published)
      BY Zenon, <1>11 DEF Store, Published
    <2>5. label \notin Waiting
      BY Zenon DEF Waiting, Published
    <2>6. UNCHANGED <<rpcVars, resultVars, notify, closing, audioVars>>
      BY <1>11, Zenon DEF Store
    <2>7. WorkerInv' /\ RequestInv'
      BY <2>1, <2>2, <2>3, <2>4, <2>6, WorkerMoves, Zenon
    <2>8. NotifyInv' /\ AudioInv'
      BY <2>3, <2>4, <2>5, <2>6, WorkerQuiet, Zenon
    <2> QED BY Zenon, <2>7, <2>8
  <1>12. CASE CloseDone(n)
    <2>1. worker[n] \notin {"none", "done"}
      BY Zenon, <1>12 DEF CloseDone
    <2>2. WorkerOK(n)'
      BY <1>0, <1>12 DEF CloseDone, TypeOK, WorkerOK, Unsettled, Published,
           Holding, Waiting
    <2>3. /\ \A m \in Transfers \ {n} :
                /\ outcome'[m] = outcome[m] /\ source'[m] = source[m]
                /\ recorded'[m] = recorded[m] /\ buffered'[m] = buffered[m]
                /\ stored'[m] = stored[m] /\ closed'[m] = closed[m]
                /\ m \in muted' => m \in muted
          /\ outcome' = outcome
      BY Zenon, <1>0, <1>12 DEF CloseDone, TypeOK
    <2>4. PICK label \in Published \cup {"push"} :
             Goto(n, label) /\ (worker[n] \in Published => label \in Published)
      BY Zenon, <1>12 DEF CloseDone, Published
    <2>5. label \notin Waiting
      BY Zenon DEF Waiting, Published
    <2>6. UNCHANGED <<rpcVars, resultVars, notify, closing, audioVars>>
      BY <1>12, Zenon DEF CloseDone
    <2>7. WorkerInv' /\ RequestInv'
      BY <2>1, <2>2, <2>3, <2>4, <2>6, WorkerMoves, Zenon
    <2>8. NotifyInv' /\ AudioInv'
      BY <2>3, <2>4, <2>5, <2>6, WorkerQuiet, Zenon
    <2> QED BY Zenon, <2>7, <2>8
  <1>13. CASE Delete(n)
    <2>1. worker[n] \notin {"none", "done"}
      BY Zenon, <1>13 DEF Delete
    <2>2. WorkerOK(n)'
      BY Zenon, <1>0, <1>13 DEF Delete, TypeOK, WorkerOK, Unsettled,
           Published, Holding, Waiting
    <2>3. /\ \A m \in Transfers \ {n} :
                /\ outcome'[m] = outcome[m] /\ source'[m] = source[m]
                /\ recorded'[m] = recorded[m] /\ buffered'[m] = buffered[m]
                /\ stored'[m] = stored[m] /\ closed'[m] = closed[m]
                /\ m \in muted' => m \in muted
          /\ outcome' = outcome
      BY Zenon, <1>0, <1>13 DEF Delete, TypeOK
    <2>4. PICK label \in Published \cup {"push"} :
             Goto(n, label) /\ (worker[n] \in Published => label \in Published)
      BY Zenon, <1>13 DEF Delete, Published
    <2>5. label \notin Waiting
      BY Zenon DEF Waiting, Published
    <2>6. UNCHANGED <<rpcVars, resultVars, notify, closing, audioVars>>
      BY <1>13, Zenon DEF Delete
    <2>7. WorkerInv' /\ RequestInv'
      BY <2>1, <2>2, <2>3, <2>4, <2>6, WorkerMoves, Zenon
    <2>8. NotifyInv' /\ AudioInv'
      BY <2>3, <2>4, <2>5, <2>6, WorkerQuiet, Zenon
    <2> QED BY Zenon, <2>7, <2>8
  <1> QED BY Zenon, <1>1, <1>2, <1>3, <1>4, <1>5, <1>6, <1>7, <1>8, <1>9,
       <1>10, <1>11,
            <1>12, <1>13 DEF Worker

(* The NOTIFY handlers.                                                    *)
LEMMA NotifyStep ==
  ASSUME IInv, NEW m \in Notifies, Offer(m) \/ Unpark(m)
  PROVE  WorkerInv' /\ RequestInv' /\ NotifyInv' /\ AudioInv'
  <1>0. TypeOK /\ WorkerInv /\ RequestInv /\ NotifyInv /\ AudioInv
    BY Zenon DEF IInv
  <1> DEFINE receivers == {n \in Transfers : worker[n] \in Waiting}
  <1>1. CASE Offer(m) /\ receivers = {}
    <2>1. /\ notify' = [notify EXCEPT ![m].pc = "parked"]
          /\ UNCHANGED <<worker, resultVars, rpcVars, pendingVars, doneVars, recorded,
                         closing, audioVars>>
      BY Zenon, <1>1 DEF Offer
    <2>2. notify[m].pc = "offer" /\ \A n \in Transfers : worker[n] \notin Waiting
      BY Zenon, <1>1 DEF Offer
    <2>3. NotifyInv'
      BY <1>0, <2>1, <2>2 DEF NotifyInv, TypeOK, Handlers
    <2>4. RequestInv' /\ AudioInv'
      BY Zenon, <1>0, <2>1 DEF RequestInv, AudioInv, done
    <2> QED BY Zenon, <1>0, <2>1, <2>3, <2>4, WorkersIdle
  <1>2. CASE Offer(m) /\ receivers # {}
    <2> HIDE DEF receivers
    <2>1. PICK n \in receivers :
             /\ Settle(n, notify[m].result, notify[m].about)
             /\ notify' = [notify EXCEPT ![m] = NoNotify]
      BY <1>2, Zenon DEF Offer, receivers
    <2>2. n \in Transfers /\ worker[n] \in {"refer", "sent"} \cup Waiting
      BY Zenon DEF receivers
    <2>3. notify[m].result \in Outcomes /\ notify[m].about # None
      <3>1. notify[m].pc # "idle"
        BY Zenon, <1>2 DEF Offer
      <3> QED BY Zenon, <1>0, <3>1, HeldType, TransferIds
    <2>4. /\ outcome' = [outcome EXCEPT ![n] = notify[m].result]
          /\ source' = [source EXCEPT ![n] = notify[m].about]
          /\ Goto(n, "unmute")
      BY Zenon, <2>1 DEF Settle
    <2>5. UNCHANGED <<rpcVars, pendingVars, doneVars, recorded, closing, audioVars>>
      BY Zenon, <1>2 DEF Offer
    <2>6. WorkerInv' /\ RequestInv' /\ AudioInv'
      BY <2>2, <2>3, <2>4, <2>5, SettleStep, Zenon
    <2>7. NotifyInv'
      BY <2>1, <2>2, <2>4, HandlerCleared, Zenon
    <2> QED BY Zenon, <2>6, <2>7
  <1>3. CASE Unpark(m)
    <2>1. NotifyInv'
      BY ZenonT(30), <1>0, <1>3 DEF Unpark, NotifyInv, TypeOK, NoNotify
    <2>2. RequestInv' /\ AudioInv'
      BY Zenon, <1>0, <1>3 DEF Unpark, RequestInv, AudioInv, done
    <2> QED BY Zenon, <1>0, <1>3, <2>1, <2>2, WorkersIdle DEF Unpark
  <1> QED BY Zenon, <1>1, <1>2, <1>3

(* The peer and the end of the call.                                       *)
LEMMA CallStep ==
  ASSUME IInv, Peer \/ CancelCall \/ CloseCall \/ UNCHANGED vars
  PROVE  WorkerInv' /\ RequestInv' /\ NotifyInv' /\ AudioInv'
  <1>0. TypeOK /\ WorkerInv /\ RequestInv /\ NotifyInv /\ AudioInv
    BY Zenon DEF IInv
  <1>1. ASSUME UNCHANGED <<rpcVars, pendingVars, worker, resultVars, doneVars,
                           recorded, muted>>,
               NotifyInv', AudioInv'
        PROVE  WorkerInv' /\ RequestInv' /\ NotifyInv' /\ AudioInv'
    BY <1>0, <1>1, WorkersIdle, RequestsIdle, Zenon
  <1>2. CASE RecvBye \/ CancelCall \/ UNCHANGED vars
    <2>1. UNCHANGED <<rpcVars, pendingVars, worker, resultVars, doneVars, recorded,
                      notify, closing, audioVars>>
      BY <1>2, Zenon DEF RecvBye, CancelCall, vars, callVars
    <2> QED BY Zenon, <1>0, <1>1, <2>1 DEF NotifyInv, AudioInv, done
  <1>3. CASE CloseCall
    <2>1. closing' # "up" /\ UNCHANGED <<rpcVars, pendingVars, worker, resultVars,
                                         doneVars, recorded, notify, muted>>
      BY Zenon, <1>3 DEF CloseCall, CloseStep
    <2> QED BY Zenon, <1>0, <1>1, <2>1 DEF NotifyInv, AudioInv, done
  <1>4. ASSUME NEW m \in Notifies, NEW about \in 1 .. referCseq, NEW id,
               NEW status \in Statuses, NEW t \in BOOLEAN,
               RecvNotify(m, about, id, status, t)
        PROVE  WorkerInv' /\ RequestInv' /\ NotifyInv' /\ AudioInv'
    <2>1. about # None
      BY <1>0, BoundsAssumption DEF TypeOK, Transfers, None
    <2>2. NotifyResult(status, t) \in {"success", "failed", "none"}
      BY Zenon DEF NotifyResult
    <2>3. \/ notify' = [notify EXCEPT ![m] = NoNotify]
          \/ /\ notify' = [notify EXCEPT ![m] = [pc |-> "offer", about |-> about,
                                                result |-> NotifyResult(status, t)]]
             /\ NotifyResult(status, t) # "none"
      BY <1>4, Zenon DEF RecvNotify
    <2>4. UNCHANGED <<rpcVars, pendingVars, worker, resultVars, doneVars, recorded,
                      closing, audioVars>>
      BY Zenon, <1>4 DEF RecvNotify
    <2>5. NotifyInv'
      BY <1>0, <2>1, <2>2, <2>3, <2>4 DEF NotifyInv, TypeOK, NoNotify
    <2> QED BY Zenon, <1>0, <1>1, <2>4, <2>5 DEF AudioInv, done
  <1> QED BY <1>2, <1>3, <1>4, Zenon DEF Peer

(* Init satisfies the inductive invariant.                                 *)
LEMMA IInvInit == Init => IInv
  <1> SUFFICES ASSUME Init PROVE IInv
    OBVIOUS
  <1>0. TRUE \in BOOLEAN /\ FALSE \in BOOLEAN
    OBVIOUS
  <1>1. {leg, callDone, output} \subseteq BOOLEAN
    BY Zenon DEF Init
  <1>2. TypeOK
    BY <1>0, <1>1, Zenon DEF Init, TypeOK, NoNotify, Handlers, ClosePCs, WorkerPCs
  <1>3. WorkerInv
    BY Zenon DEF Init, WorkerInv, WorkerOK, Unsettled, Published, Holding
  <1>4. RequestInv /\ NotifyInv
    BY Zenon DEF Init, RequestInv, NotifyInv, NoNotify, Outcomes, Failures
  <1>5. AudioInv
    BY Zenon DEF Init, AudioInv
  <1> QED BY Zenon, <1>2, <1>3, <1>4, <1>5 DEF IInv

(* Every reachable state of the transfers satisfies the inductive          *)
(* invariant.                                                              *)
THEOREM TransferInvariance == Spec => []IInv
  <1>1. IInv /\ [Next]_vars => IInv'
    <2> SUFFICES ASSUME IInv, [Next]_vars PROVE IInv'
      OBVIOUS
    <2>0. TypeOK /\ RequestInv /\ NotifyInv
      BY Zenon DEF IInv
    <2>1. CASE \E r \in Requests : Request(r) \/ Await(r)
      BY Zenon, <2>0, <2>1, RequestType, RequestStep DEF IInv
    <2>2. CASE \E n \in Transfers : Worker(n)
      BY Zenon, <2>0, <2>2, WorkerType, WorkerStep DEF IInv
    <2>3. CASE \E m \in Notifies : Offer(m) \/ Unpark(m)
      BY Zenon, <2>0, <2>3, CallType, NotifyStep DEF IInv
    <2>4. CASE Peer \/ CancelCall \/ CloseCall \/ UNCHANGED vars
      <3>1. TypeOK'
        <4>1. CASE Peer \/ CancelCall \/ CloseCall
          BY <2>0, <4>1, CallType, Zenon
        <4>2. CASE UNCHANGED vars
          BY Zenon, <2>0, <4>2 DEF TypeOK, vars
        <4> QED BY <2>4, <4>1, <4>2, Zenon
      <3> QED BY <2>4, <3>1, CallStep, Zenon DEF IInv
    <2> QED BY Zenon, <2>1, <2>2, <2>3, <2>4 DEF Next, Terminated
  <1> QED BY <1>1, IInvInit, PTL DEF Spec

(* All callers of transferSIPParticipant that wait for a transfer return   *)
(* its outcome, the one that was recorded.                                 *)
THEOREM SameOutcomeHolds == Spec => []SameOutcome
  <1>1. IInv => SameOutcome
    BY DEF IInv, SameOutcome, RequestInv, WorkerInv, WorkerOK, TypeOK
  <1> QED BY <1>1, TransferInvariance, PTL

(* pendingTransfers lets at most one worker run, so that referDone has at  *)
(* most one receiver.                                                      *)
THEOREM OneReceiverHolds == Spec => []OneReceiver
  <1>1. IInv => OneReceiver
    BY Zenon DEF IInv, OneReceiver, WorkerInv, WorkerOK
  <1> QED BY <1>1, TransferInvariance, PTL

(* waitReferResult reports a success only on a NOTIFY that says so.        *)
THEOREM SuccessWasNotifiedHolds == Spec => []SuccessWasNotified
  <1>1. IInv => SuccessWasNotified
    BY Zenon DEF IInv, SuccessWasNotified, WorkerInv, WorkerOK
  <1> QED BY <1>1, TransferInvariance, PTL

(* transferCall's deferred SwapOutput gives the room its output back after *)
(* a failed transfer of a call that is still up.                           *)
THEOREM AudioRestoredHolds == Spec => []AudioRestored
  <1>1. ASSUME IInv, pending = None
        PROVE  muted = {}
    <2>1. ASSUME NEW n \in Transfers PROVE n \notin muted
      BY Zenon, <1>1, TransferIds DEF IInv, WorkerInv, WorkerOK, Holding,
           Waiting
    <2> QED BY Zenon, <1>1, <2>1 DEF IInv, TypeOK
  <1>2. IInv => AudioRestored
    BY Zenon, <1>1 DEF IInv, AudioRestored, AudioInv, done
  <1> QED BY <1>2, TransferInvariance, PTL

(* waitReferResult ends a transfer with the end of the call only when no   *)
(* NOTIFY handler is parked on the handoff.                                *)
THEOREM ResultWinsHolds == Spec => ResultWins
  <1> DEFINE A == \A n \in Transfers :
                    outcome'[n] = "call-ended" /\ outcome[n] = "none" => Parked = {}
  <1>1. IInv /\ [Next]_vars => [A]_vars
    <2> SUFFICES ASSUME IInv, Next, NEW n \in Transfers,
                        outcome'[n] = "call-ended", outcome[n] = "none"
                 PROVE  Parked = {}
      BY Zenon
    <2>0. TypeOK /\ NotifyInv
      BY Zenon DEF IInv
    <2>1. ASSUME NEW l \in Transfers, worker[l] \in Waiting
          PROVE  Parked = {}
      BY Zenon, <2>0, <2>1 DEF NotifyInv, Parked
    <2>2. ASSUME NEW l, NEW m \in Notifies, notify[m].pc # "idle",
                 outcome' = [outcome EXCEPT ![l] = notify[m].result]
          PROVE  FALSE
      BY Zenon, <2>0, <2>2 DEF NotifyInv, TypeOK
    <2>3. CASE UNCHANGED outcome
      BY Zenon, <2>3
    <2>4. ASSUME NEW l, outcome' = [outcome EXCEPT ![l] = "failed"]
          PROVE  FALSE
      BY Zenon, <2>0, <2>4 DEF TypeOK
    <2>5. ASSUME NEW l, TakeParked(l)
          PROVE  FALSE
      <3>1. PICK m \in Parked : Settle(l, notify[m].result, notify[m].about)
        BY <2>5, Zenon DEF TakeParked
      <3>2. m \in Notifies /\ notify[m].pc # "idle"
        BY Zenon DEF Parked
      <3> QED BY <2>2, <3>1, <3>2, Zenon DEF Settle
    <2>6. ASSUME NEW l \in Transfers, Worker(l)
          PROVE  Parked = {}
      <3>1. CASE ProcessTransfer(l) \/ SendRefer(l) \/ ReferFails(l) \/ Deadline(l)
        BY Zenon, <2>3, <2>4, <3>1 DEF ProcessTransfer, SendRefer, ReferFails,
             Deadline, Settle
      <3>2. CASE ReferAccepted(l) \/ SeeCallDone(l)
        BY Zenon, <2>3, <2>4, <2>5, <3>2 DEF ReferAccepted, SeeCallDone,
             AfterCallDone, Settle
      <3>3. CASE GraceExpires(l)
        BY Zenon, <2>1, <3>3 DEF GraceExpires, Waiting
      <3>4. CASE \/ Mute(l) \/ Unmute(l) \/ Restore(l) \/ EndTransfer(l) \/ Push(l)
                 \/ Store(l) \/ CloseDone(l) \/ Delete(l)
        BY <2>3, <3>4, Zenon DEF Mute, Unmute, Restore, EndTransfer, Push, Store,
             CloseDone, Delete, resultVars
      <3> QED BY <2>6, <3>1, <3>2, <3>3, <3>4, Zenon DEF Worker
    <2>7. ASSUME NEW m \in Notifies, Offer(m)
          PROVE  Parked = {}
      <3>1. notify[m].pc # "idle"
        BY Zenon, <2>7 DEF Offer
      <3> QED BY <2>2, <2>3, <2>7, <3>1, Zenon DEF Offer, Settle
    <2>8. CASE \E r \in Requests : Request(r) \/ Await(r)
      <3>1. UNCHANGED resultVars
        BY <2>8, Zenon DEF Request, Await, CheckProvider, RequestUnknown, StartNew,
             JoinPending, ReceiveOutcome, GiveUp
      <3> QED BY Zenon, <2>3, <3>1
    <2>9. CASE (\E m \in Notifies : Unpark(m)) \/ Peer \/ CancelCall \/ CloseCall
      <3>1. UNCHANGED resultVars
        BY <2>9, Zenon DEF Unpark, Peer, RecvBye, RecvNotify, CancelCall, CloseCall
      <3> QED BY Zenon, <2>3, <3>1
    <2> QED BY Zenon, <2>3, <2>6, <2>7, <2>8, <2>9 DEF Next, Terminated, vars
  <1> QED BY <1>1, TransferInvariance, PTL DEF Spec, ResultWins
=============================================================================
