----------------------------- MODULE SipInbound -----------------------------
(***************************************************************************)
(* The SIP leg of an inbound call, sipInbound of pkg/sip/inbound.go: the   *)
(* INVITE transaction, the dialog it may become, the goroutine that        *)
(* repeats 180 Ringing, and the mutex c.mu that serialises them.  The      *)
(* operators are the methods of sipInbound; InboundCall gives them         *)
(* callers.  A method that never blocks while it holds c.mu is one step    *)
(* guarded by a free mutex; Accept (which waits for an ACK) and sendBye    *)
(* (which waits for the answer to the BYE) hold c.mu across steps.         *)
(***************************************************************************)
EXTENDS Naturals

CONSTANTS
  MaxRings,                    \* bound on the 180s a behaviour sends
  InviteOKRetryAttempts,       \* inviteOKRetryAttempts
  InviteOKRetryAttemptsNoACK,  \* inviteOKRetryAttemptsNoACK
  Confs,                       \* the configurations considered
  Events                       \* the events of the environment considered

ASSUME MaxRingsAssumption == MaxRings \in Nat \ {0}
ASSUME RetryAssumption ==
  /\ InviteOKRetryAttempts \in Nat
  /\ InviteOKRetryAttemptsNoACK \in Nat
ASSUME ConfsAssumption == Confs \subseteq [waitACK : BOOLEAN, udp : BOOLEAN]

VARIABLES
  conf,       \* Experimental.InboundWaitACK and whether legTr is UDP
  invite,     \* c.invite # nil
  inviteTx,   \* c.inviteTx # nil
  inviteOk,   \* c.inviteOk # nil
  ringing,    \* c.ringing # nil
  mu,         \* holder of c.mu across steps, "free" when nobody holds it
  tries,      \* 200s Accept has sent: its loop variable
  ringer,     \* the ringing goroutine: "idle", "select", "tick", "exited"
  cancelReq,  \* a CANCEL request waits in tx.Cancels()
  cancelled,  \* c.cancelled is closed
  acked,      \* the c.acked fuse is broken
  final,      \* wire: the first final response sent to the INVITE
  finals,     \* wire: how many different final responses were sent
  rings,      \* wire: how many 180s were sent
  byeSent,    \* wire: a BYE was sent
  txFailed    \* the transport refused a response: the transaction is dead

legVars == <<invite, inviteTx, inviteOk, ringing>>
ringVars == <<ringer, cancelReq, cancelled>>
wireVars == <<final, finals, rings, byeSent, txFailed>>
sipVars == <<conf, legVars, mu, tries, ringVars, acked, wireVars>>

Callers == {"handler", "stop"}
Finals == {"ok", "error", "terminated"}

SipTypeOK ==
  /\ conf \in Confs
  /\ invite \in BOOLEAN
  /\ inviteTx \in BOOLEAN
  /\ inviteOk \in BOOLEAN
  /\ ringing \in BOOLEAN
  /\ mu \in Callers \cup {"free"}
  /\ tries \in Nat
  /\ ringer \in {"idle", "select", "tick", "exited"}
  /\ cancelReq \in BOOLEAN
  /\ cancelled \in BOOLEAN
  /\ acked \in BOOLEAN
  /\ final \in Finals \cup {"none"}
  /\ finals \in Nat
  /\ rings \in Nat
  /\ byeSent \in BOOLEAN
  /\ txFailed \in BOOLEAN

(* newInbound: the INVITE and its transaction are there, nothing is sent.  *)
SipInit ==
  /\ conf \in Confs
  /\ invite = TRUE /\ inviteTx = TRUE /\ inviteOk = FALSE
  /\ ringing = FALSE
  /\ mu = "free"
  /\ tries = 0
  /\ ringer = "idle"
  /\ cancelReq = FALSE /\ cancelled = FALSE
  /\ acked = FALSE
  /\ final = "none" /\ finals = 0
  /\ rings = 0
  /\ byeSent = FALSE /\ txFailed = FALSE
-----------------------------------------------------------------------------
(* External: the server transaction.  A final response reaches the wire    *)
(* unless an earlier send failed, which leaves the transaction dead.  A    *)
(* retransmission of the same 200 is not another final response.           *)
SendFinal(code) ==
  IF txFailed
    THEN UNCHANGED <<final, finals>>
    ELSE /\ final' = IF final = "none" THEN code ELSE final
         /\ finals' = finals + 1

stopRinging == ringing' = FALSE

(* Mutant of drop: the ringing goroutine is forgotten.                     *)
drop_KeepsRinging ==
  /\ inviteTx' = FALSE
  /\ invite' = FALSE
  /\ inviteOk' = FALSE
  /\ UNCHANGED ringing

drop ==
  /\ stopRinging
  /\ inviteTx' = FALSE
  /\ invite' = FALSE
  /\ inviteOk' = FALSE

(* sendRinging: respond does nothing once the call let go of the           *)
(* transaction, and a dead one sends nothing.                              *)
sendRinging == rings' = IF inviteTx /\ ~txFailed THEN rings + 1 ELSE rings

(* StartRinging with a live transaction.  On a nil c.inviteTx it panics at *)
(* tx.Cancels(); InboundCall gives that case its own action.               *)
StartRinging ==
  /\ mu = "free"
  /\ inviteTx
  /\ sendRinging
  /\ ringing' = TRUE
  /\ ringer' = "select"
  /\ UNCHANGED <<conf, invite, inviteTx, inviteOk, mu, tries, cancelReq,
                 cancelled, acked, final, finals, byeSent, txFailed>>

Drop ==
  /\ mu = "free"
  /\ drop
  /\ UNCHANGED <<conf, mu, tries, ringVars, acked, wireVars>>

RespondAndDrop ==
  /\ mu = "free"
  /\ IF inviteTx THEN SendFinal("error") ELSE UNCHANGED <<final, finals>>
  /\ drop
  /\ UNCHANGED <<conf, mu, tries, ringVars, acked, rings, byeSent, txFailed>>
-----------------------------------------------------------------------------
(* The ringing goroutine.  Its select takes any ready case.                *)
RingStop ==
  /\ ringer = "select"
  /\ ~ringing
  /\ ringer' = "exited"
  /\ UNCHANGED <<conf, legVars, mu, tries, cancelReq, cancelled, acked, wireVars>>

RingCancel ==
  /\ ringer = "select"
  /\ cancelReq
  /\ cancelReq' = FALSE
  /\ cancelled' = TRUE
  /\ ringer' = "exited"
  /\ UNCHANGED <<conf, legVars, mu, tries, acked, wireVars>>

RingTick ==
  /\ ringer = "select"
  /\ rings < MaxRings
  /\ ringer' = "tick"
  /\ UNCHANGED <<conf, legVars, mu, tries, cancelReq, cancelled, acked, wireVars>>

(* Mutant of RingAgain: the 180 is sent without taking c.mu.               *)
RingAgain_NoLock ==
  /\ ringer = "tick"
  /\ sendRinging
  /\ ringer' = "select"
  /\ UNCHANGED <<conf, legVars, mu, tries, cancelReq, cancelled, acked,
                 final, finals, byeSent, txFailed>>

RingAgain ==
  /\ ringer = "tick"
  /\ mu = "free"
  /\ sendRinging
  /\ ringer' = "select"
  /\ UNCHANGED <<conf, legVars, mu, tries, cancelReq, cancelled, acked,
                 final, finals, byeSent, txFailed>>

(* External: a CANCEL is matched to the INVITE transaction while that is   *)
(* still held by the call.                                                 *)
RecvCancel ==
  /\ "cancel" \in Events
  /\ inviteTx
  /\ ~cancelReq /\ ~cancelled
  /\ cancelReq' = TRUE
  /\ UNCHANGED <<conf, legVars, mu, tries, ringer, cancelled, acked, wireVars>>
-----------------------------------------------------------------------------
maxRetries ==
  IF ~conf.udp THEN 1
  ELSE IF conf.waitACK THEN InviteOKRetryAttempts
  ELSE InviteOKRetryAttemptsNoACK

(* Mutant of AcceptBegin: c.mu is released before the 200 goes out.        *)
AcceptBegin_Unlocked ==
  /\ mu = "free"
  /\ inviteTx
  /\ stopRinging
  /\ tries' = 0
  /\ UNCHANGED <<conf, invite, inviteTx, inviteOk, mu, ringVars, acked, wireVars>>

(* Accept up to its retry loop: takes c.mu and keeps it.                   *)
AcceptBegin ==
  /\ mu = "free"
  /\ inviteTx
  /\ stopRinging
  /\ mu' = "handler"
  /\ tries' = 0
  /\ UNCHANGED <<conf, invite, inviteTx, inviteOk, ringVars, acked, wireVars>>

(* Mutant of accepted: the 200 is not remembered in c.inviteOk.            *)
accepted_NoInviteOk ==
  /\ inviteTx' = FALSE
  /\ mu' = "free"
  /\ tries' = 0
  /\ UNCHANGED inviteOk

accepted ==
  /\ inviteOk' = TRUE
  /\ inviteTx' = FALSE
  /\ mu' = "free"
  /\ tries' = 0

(* The 200 went out; the loop goes on to wait for the ACK.                 *)
AcceptSend ==
  /\ ~txFailed
  /\ conf.udp \/ conf.waitACK
  /\ IF final = "ok" THEN UNCHANGED <<final, finals>> ELSE SendFinal("ok")
  /\ tries' = tries + 1
  /\ UNCHANGED <<conf, legVars, mu, ringVars, acked, rings, byeSent, txFailed>>

(* The 200 went out on a reliable transport with InboundWaitACK off.       *)
AcceptSendOnce ==
  /\ ~txFailed
  /\ ~conf.udp /\ ~conf.waitACK
  /\ SendFinal("ok")
  /\ accepted
  /\ UNCHANGED <<conf, invite, ringing, ringVars, acked, rings, byeSent, txFailed>>

(* Respond failed: Accept returns with inviteTx in place and no inviteOk.  *)
AcceptSendFails ==
  /\ "sendFailure" \in Events
  /\ txFailed' = TRUE
  /\ mu' = "free"
  /\ tries' = 0
  /\ UNCHANGED <<conf, legVars, ringVars, acked, final, finals, rings, byeSent>>

(* The loop ends: on an ACK, seen by the transaction or by onAck, or when  *)
(* the retries are used up.                                                *)
AcceptEnd ==
  /\ accepted
  /\ UNCHANGED <<conf, invite, ringing, ringVars, acked, wireVars>>

AcceptAck ==
  /\ "ack" \in Events
  /\ acked' = TRUE
  /\ UNCHANGED <<conf, legVars, mu, tries, ringVars, wireVars>>
-----------------------------------------------------------------------------
(* AcceptBye after its 200 to the BYE was sent.                            *)
AcceptBye == Drop

(* CloseWithStatus.  The BYE is sent with c.mu held by p and the leg       *)
(* dropped already; sendStatus and the bare drop finish in one step.       *)
sendBye(p) ==
  /\ mu = "free"
  /\ inviteOk /\ invite
  /\ drop
  /\ byeSent' = TRUE
  /\ mu' = p
  /\ UNCHANGED <<conf, tries, ringVars, acked, final, finals, rings, txFailed>>

sendStatus(code) ==
  /\ mu = "free"
  /\ ~inviteOk /\ inviteTx
  /\ SendFinal(code)
  /\ drop
  /\ UNCHANGED <<conf, mu, tries, ringVars, acked, rings, byeSent, txFailed>>

(* Mutant of closeDropped: an answered leg is dropped as well.             *)
closeDropped_Answered ==
  /\ ~inviteTx
  /\ Drop

closeDropped ==
  /\ ~inviteOk /\ ~inviteTx
  /\ Drop

(* The BYE transaction ended, answered or timed out; c.mu is released.     *)
byeDone(p) ==
  /\ mu = p
  /\ mu' = "free"
  /\ UNCHANGED <<conf, legVars, tries, ringVars, acked, wireVars>>
=============================================================================
