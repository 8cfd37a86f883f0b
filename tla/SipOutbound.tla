---------------------------- MODULE SipOutbound ----------------------------
(***************************************************************************)
(* The SIP leg of an outbound call: sipOutbound of pkg/sip/outbound.go,    *)
(* the INVITE transactions it starts, the goroutine that watches a         *)
(* cancelled INVITE (watchCancelledInvite) and the callee.  cc.mu is held  *)
(* through the whole of Invite and through the wait for the response to a  *)
(* BYE, so the lock is a variable.  invite and inviteOk are only ever set  *)
(* together, so one flag stands for both (and sendCancel, which needs the  *)
(* first without the second, never runs).                                  *)
(***************************************************************************)
EXTENDS Naturals

CONSTANTS
  MaxTries,  \* INVITEs Invite sends before it gives up authenticating: 5
  Events,    \* what may happen to the call: "badAnswer", "roomEnds",
             \* "mediaTimeout"
  Requests   \* the sets of requests that may come together: of "rpc"
             \* (EndCall), "stop" (Client.Stop) and "xfer" (a transfer)

ASSUME MaxTriesAssumption == MaxTries \in Nat \ {0}
ASSUME RequestsAssumption == Requests \subseteq SUBSET {"rpc", "stop", "xfer"}

(* The goroutines that take the locks of the call: the one that dials it   *)
(* and then waits for its end, the EndCall RPC, Client.Stop, the BYE       *)
(* handler and a transfer.                                                 *)
Actors == {"dial", "rpc", "stop", "bye", "xfer"}

VARIABLES
  ccmu,       \* who holds cc.mu, or "free"
  inviteOk,   \* cc.invite and cc.inviteOk are set
  malformed,  \* the 200 had no To header or no tag
  tries,      \* INVITEs sent
  tx,         \* the INVITE transaction: "none", "live", "done" (it timed out)
  resp,       \* the response in tx.Responses()
  watcher,    \* watchCancelledInvite: "none", "watch", "bye", "done"
  peer,       \* the callee
  acks,       \* ACKs written
  byes,       \* BYEs written
  byeRcvd,    \* a BYE of the callee was accepted
  byeIn,      \* a BYE of the callee is on its way
  expired,    \* the transaction or the grace period of the watcher timed out
  missed,     \* an answer that came after that, or a request that could not
              \* be written: the client is closed
  closing,    \* c.closing of the Client
  cliClosed   \* sipCli.Close() was called

sipVars == <<ccmu, inviteOk, malformed, tries, tx, resp, watcher, peer, acks,
             byes, byeRcvd, byeIn, expired, missed, closing, cliClosed>>

Answers == {"200", "bad200"}
Responses == Answers \cup {"1xx", "401", "refusal"}
PeerUp == {"answered", "talking"}

SipTypeOK ==
  /\ ccmu \in Actors \cup {"free"}
  /\ inviteOk \in BOOLEAN
  /\ malformed \in BOOLEAN
  /\ tries \in 0..MaxTries
  /\ tx \in {"none", "live", "done"}
  /\ resp \in Responses \cup {"none"}
  /\ watcher \in {"none", "watch", "bye", "done"}
  /\ peer \in PeerUp \cup {"idle", "called", "refused", "ended"}
  /\ acks \in Nat
  /\ byes \in Nat
  /\ byeRcvd \in BOOLEAN
  /\ byeIn \in BOOLEAN
  /\ expired \in BOOLEAN
  /\ missed \in BOOLEAN
  /\ closing \in BOOLEAN
  /\ cliClosed \in BOOLEAN

SipInit ==
  /\ ccmu = "free"
  /\ inviteOk = FALSE /\ malformed = FALSE
  /\ tries = 0
  /\ tx = "none" /\ resp = "none" /\ watcher = "none"
  /\ peer = "idle"
  /\ acks = 0 /\ byes = 0
  /\ byeRcvd = FALSE /\ byeIn = FALSE
  /\ expired = FALSE /\ missed = FALSE
  /\ closing = FALSE /\ cliClosed = FALSE
-----------------------------------------------------------------------------
(* The callee, and the timers of the SIP stack.                            *)

(* A response reaches tx.Responses() while the transaction lives.          *)
Respond(r) == resp' = IF tx = "live" THEN r ELSE resp

PeerRings ==
  /\ peer = "called" /\ tx = "live" /\ resp = "none"
  /\ resp' = "1xx"
  /\ UNCHANGED <<ccmu, inviteOk, malformed, tries, tx, watcher, peer, acks,
                 byes, byeRcvd, byeIn, expired, missed, closing, cliClosed>>

PeerAnswers ==
  /\ peer = "called" /\ (tx = "live" => resp = "none")
  /\ peer' = "answered"
  /\ \E r \in Answers :
       /\ r = "bad200" => "badAnswer" \in Events
       /\ Respond(r)
  /\ missed' = (missed \/ expired)
  /\ UNCHANGED <<ccmu, inviteOk, malformed, tries, tx, watcher, acks, byes,
                 byeRcvd, byeIn, expired, closing, cliClosed>>

(* Refused, or 487 in answer to our CANCEL.                                *)
PeerRefuses ==
  /\ peer = "called" /\ (tx = "live" => resp = "none")
  /\ peer' = "refused"
  /\ Respond("refusal")
  /\ UNCHANGED <<ccmu, inviteOk, malformed, tries, tx, watcher, acks, byes,
                 byeRcvd, byeIn, expired, missed, closing, cliClosed>>

(* 401 or 407: the callee forgets the INVITE.                              *)
PeerChallenges ==
  /\ peer = "called" /\ tx = "live" /\ resp = "none"
  /\ peer' = "idle"
  /\ resp' = "401"
  /\ UNCHANGED <<ccmu, inviteOk, malformed, tries, tx, watcher, acks, byes,
                 byeRcvd, byeIn, expired, missed, closing, cliClosed>>

(* A BYE of the callee does not overtake its answer.                       *)
PeerHangsUp ==
  /\ peer \in PeerUp
  /\ resp \notin Answers
  /\ peer' = "ended"
  /\ byeIn' = TRUE
  /\ UNCHANGED <<ccmu, inviteOk, malformed, tries, tx, resp, watcher, acks,
                 byes, byeRcvd, expired, missed, closing, cliClosed>>

(* tx.Done(): no final response in time, or the transport failed.          *)
TxTimeout ==
  /\ tx = "live" /\ resp = "none"
  /\ tx' = "done"
  /\ expired' = TRUE
  /\ UNCHANGED <<ccmu, inviteOk, malformed, tries, resp, watcher, peer, acks,
                 byes, byeRcvd, byeIn, missed, closing, cliClosed>>

Environment ==
  \/ PeerRings
  \/ PeerAnswers
  \/ PeerRefuses
  \/ PeerChallenges
  \/ PeerHangsUp
  \/ TxTimeout
-----------------------------------------------------------------------------
(* Requests of the dialog as the callee sees them.                         *)

WriteAck ==
  /\ acks' = acks + 1
  /\ peer' = IF peer = "answered" /\ ~cliClosed THEN "talking" ELSE peer

WriteBye ==
  /\ byes' = byes + 1
  /\ peer' = IF peer \in PeerUp /\ ~cliClosed THEN "ended" ELSE peer
  /\ missed' = (missed \/ cliClosed)

(* drop                                                                    *)
drop == inviteOk' = FALSE

(* The BYE of a stopping client is written without waiting for the         *)
(* response, and the dialog is not dropped.                                *)
sendBye(p) ==
  /\ WriteBye
  /\ IF closing
     THEN UNCHANGED <<inviteOk, ccmu>>
     ELSE drop /\ ccmu' = p

(* cc.Close: hang up if there is a dialog.  waits tells whether it is left *)
(* waiting for the response to the BYE, with cc.mu.                        *)
ccClose(p) ==
  /\ ccmu = "free"
  /\ IF inviteOk
     THEN sendBye(p)
     ELSE drop /\ UNCHANGED <<ccmu, byes, peer, missed>>
  /\ UNCHANGED <<malformed, tries, tx, resp, watcher, acks, byeRcvd, byeIn,
                 expired, closing, cliClosed>>
ByeWaits == inviteOk /\ ~closing

(* The response to the BYE, or the end of its transaction.                 *)
ByeAnswered(p) ==
  /\ ccmu = p
  /\ ccmu' = "free"
  /\ UNCHANGED <<inviteOk, malformed, tries, tx, resp, watcher, peer, acks,
                 byes, byeRcvd, byeIn, expired, missed, closing, cliClosed>>

(* Mutant of AcceptBye: c.mu of the leg is not unlocked.                   *)
AcceptBye_KeepsLock ==
  /\ ccmu = "free"
  /\ ccmu' = "bye"
  /\ drop
  /\ byeRcvd' = TRUE
  /\ UNCHANGED <<malformed, tries, tx, resp, watcher, peer, acks, byes, byeIn,
                 expired, missed, closing, cliClosed>>

(* Mutant of AcceptBye: the dialog is kept.                                *)
AcceptBye_NoDrop ==
  /\ ccmu = "free"
  /\ byeRcvd' = TRUE
  /\ UNCHANGED <<ccmu, inviteOk, malformed, tries, tx, resp, watcher, peer,
                 acks, byes, byeIn, expired, missed, closing, cliClosed>>

AcceptBye ==
  /\ ccmu = "free"
  /\ drop
  /\ byeRcvd' = TRUE
  /\ UNCHANGED <<ccmu, malformed, tries, tx, resp, watcher, peer, acks, byes,
                 byeIn, expired, missed, closing, cliClosed>>
-----------------------------------------------------------------------------
(* Invite and attemptInvite, run by the dialling goroutine.  The outcome   *)
(* of each step is a label of that goroutine: see OutboundCall.            *)

(* TransactionRequest: a new INVITE leaves.                                *)
attemptInvite ==
  /\ ccmu \in {"free", "dial"}
  /\ tries < MaxTries
  /\ ~cliClosed
  /\ ccmu' = "dial"
  /\ tries' = tries + 1
  /\ tx' = "live" /\ resp' = "none"
  /\ peer' = "called"
  /\ UNCHANGED <<inviteOk, malformed, watcher, acks, byes, byeRcvd, byeIn,
                 expired, missed, closing, cliClosed>>

(* Invite returns an error before a transaction is there: no tries are     *)
(* left, or TransactionRequest fails.                                      *)
attemptFails ==
  /\ ccmu \in {"free", "dial"}
  /\ ccmu' = "free"
  /\ UNCHANGED <<inviteOk, malformed, tries, tx, resp, watcher, peer, acks,
                 byes, byeRcvd, byeIn, expired, missed, closing, cliClosed>>

(* Mutant of AbandonInvite: nobody watches the transaction.                *)
AbandonInvite_NoWatcher(ctxDone) ==
  /\ ccmu' = "free"
  /\ tx' = "none" /\ resp' = "none"
  /\ UNCHANGED <<inviteOk, malformed, tries, watcher, peer, acks, byes,
                 byeRcvd, byeIn, expired, missed, closing, cliClosed>>

(* sipResponse gave up on the transaction.  It is handed to the watcher if *)
(* the context is done or the client stops, and terminated otherwise.      *)
AbandonInvite(ctxDone) ==
  /\ ccmu' = "free"
  /\ IF ctxDone \/ closing
     THEN watcher' = "watch" /\ UNCHANGED <<tx, resp>>
     ELSE tx' = "none" /\ resp' = "none" /\ UNCHANGED watcher
  /\ UNCHANGED <<inviteOk, malformed, tries, peer, acks, byes, byeRcvd,
                 byeIn, expired, missed, closing, cliClosed>>

(* Mutant of responseCancelled: the context is not watched.                *)
responseCancelled_NoCtx(ctxDone) ==
  /\ closing
  /\ AbandonInvite(ctxDone)

(* The two cases of the select that cancel the INVITE.                     *)
responseCancelled(ctxDone) ==
  /\ ctxDone \/ closing
  /\ AbandonInvite(ctxDone)

responseTimedOut(ctxDone) ==
  /\ tx = "done"
  /\ AbandonInvite(ctxDone)

responseProvisional ==
  /\ resp = "1xx"
  /\ resp' = "none"
  /\ UNCHANGED <<ccmu, inviteOk, malformed, tries, tx, watcher, peer, acks,
                 byes, byeRcvd, byeIn, expired, missed, closing, cliClosed>>

(* A final response ends the transaction.  An answer makes the dialog,     *)
(* also when Invite then fails on its To header; a challenge keeps the     *)
(* lock when Invite tries again.                                           *)
responseFinal(r, again) ==
  /\ resp = r
  /\ tx' = "none" /\ resp' = "none"
  /\ ccmu' = IF again THEN "dial" ELSE "free"
  /\ inviteOk' = (r \in Answers)
  /\ malformed' = (r = "bad200")
  /\ UNCHANGED <<tries, watcher, peer, acks, byes, byeRcvd, byeIn, expired,
                 missed, closing, cliClosed>>

(* AckInviteOK fails when the dialog was dropped, or when the request      *)
(* cannot be written.                                                      *)
AckInviteOK ==
  /\ ccmu = "free"
  /\ inviteOk
  /\ ~cliClosed
  /\ WriteAck
  /\ UNCHANGED <<ccmu, inviteOk, malformed, tries, tx, resp, watcher, byes,
                 byeRcvd, byeIn, expired, missed, closing, cliClosed>>
-----------------------------------------------------------------------------
(* watchCancelledInvite                                                    *)

WatchProvisional ==
  /\ watcher = "watch"
  /\ responseProvisional

(* The callee answered before the CANCEL reached it: ACK, then BYE.        *)
WatchAnswer ==
  /\ watcher = "watch"
  /\ resp \in Answers
  /\ resp' = "none"
  /\ WriteAck
  /\ watcher' = "bye"
  /\ UNCHANGED <<ccmu, inviteOk, malformed, tries, tx, byes, byeRcvd, byeIn,
                 expired, missed, closing, cliClosed>>

WatchBye ==
  /\ watcher = "bye"
  /\ WriteBye
  /\ watcher' = "done"
  /\ tx' = "none"
  /\ UNCHANGED <<ccmu, inviteOk, malformed, tries, resp, acks, byeRcvd, byeIn,
                 expired, closing, cliClosed>>

(* Another final response, the end of the transaction or the grace period. *)
(* The select may take the timer with an answer in the channel.            *)
WatchEnds ==
  /\ watcher = "watch"
  /\ watcher' = "done"
  /\ tx' = "none" /\ resp' = "none"
  /\ expired' = TRUE
  /\ missed' = (missed \/ resp \in Answers)
  /\ UNCHANGED <<ccmu, inviteOk, malformed, tries, peer, acks, byes, byeRcvd,
                 byeIn, closing, cliClosed>>

Watcher == WatchProvisional \/ WatchAnswer \/ WatchBye \/ WatchEnds
=============================================================================
