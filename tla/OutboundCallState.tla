-------------------------- MODULE OutboundCallState --------------------------
(***************************************************************************)
(* The state of an outbound call (OutboundCall has its steps): where its   *)
(* goroutines are, who holds c.mu, what the call owns, what was reported   *)
(* of it; and the invariant that ties these to the SIP leg.                *)
(***************************************************************************)
EXTENDS SipOutbound

VARIABLES
  pc,          \* where each goroutine is
  mu,          \* who holds c.mu, or "free"
  wait,        \* req.WaitUntilAnswered
  ret,         \* what createSIPParticipant is about to return: "none",
               \* "joined", "error"; "done" once it returned
  retry,       \* the error it returns invites the caller to try again
  invited,     \* sigTs.InviteTime is set
  ctx,         \* the context of sipSignal is done
  canceller,   \* the goroutine of sipSignal that cancels it is running
  media,       \* c.media: "none", "open", "closed"
  room,        \* c.lkRoom: "none", "joined", "stopped" by LiveKit, "left"
  rpc,         \* the EndCall RPC is registered in the room
  topic,       \* the transfer RPC topic of the call is registered
  active,      \* the call is in Client.activeCalls
  target,      \* Client.Stop found the call there
  once,        \* who runs, or ran, the body of stopped.Once
  stopped,     \* c.stopped
  early,       \* the call was closed before it was dialled
  unlisted,    \* the call was closed before it was registered
  terms,       \* terminations reported to the call monitor
  sessionEnds, \* OnSessionEnd calls
  started,     \* c.started
  infoError,   \* info.Error of the call state
  status,      \* info.CallStatus
  ended,       \* ensureClosed wrote the last status of the call
  stale,       \* createSIPParticipant then replaced it by PARTICIPANT_JOINED
  output,      \* the room's audio goes to the SIP leg
  muted        \* the writer the transfer took out of the room: "none" before
               \* SwapOutput, "nil" or "writer" after it

callVars == <<pc, mu, wait, ret, retry, invited, ctx, canceller, media, room,
              rpc, topic, active, target, once, stopped, early, unlisted,
              terms, sessionEnds, started, infoError, status, ended, stale,
              output, muted>>
vars == <<sipVars, callVars>>

ClosePCs == {"lock", "hangup", "byeWait", "release"}
DialPCs == {"request", "media", "join", "register", "created", "dial",
            "offer", "invite", "await", "inviteErr", "errWait", "fail",
            "answer", "ack", "acked", "active", "wait", "timeout",
            "ensureClosed"}
OtherPCs == {"snapshot", "closeClient", "accept", "swap", "refer", "referWait",
             "restore", "byeTimer", "panic"}

PCs == ClosePCs \cup DialPCs \cup OtherPCs \cup {"idle", "done"}

CallTypeOK ==
  /\ pc \in [Actors -> PCs]
  /\ mu \in Actors \cup {"free"}
  /\ wait \in BOOLEAN
  /\ ret \in {"none", "joined", "error", "done"}
  /\ retry \in BOOLEAN
  /\ invited \in BOOLEAN
  /\ ctx \in BOOLEAN
  /\ canceller \in BOOLEAN
  /\ media \in {"none", "open", "closed"}
  /\ room \in {"none", "joined", "stopped", "left"}
  /\ rpc \in BOOLEAN
  /\ topic \in BOOLEAN
  /\ active \in BOOLEAN
  /\ target \in BOOLEAN
  /\ once \in Actors \cup {"none"}
  /\ stopped \in BOOLEAN
  /\ early \in BOOLEAN
  /\ unlisted \in BOOLEAN
  /\ terms \in Nat
  /\ sessionEnds \in Nat
  /\ started \in BOOLEAN
  /\ infoError \in BOOLEAN
  /\ status \in {"none", "joined", "active", "error", "disconnected"}
  /\ ended \in BOOLEAN
  /\ stale \in BOOLEAN
  /\ output \in BOOLEAN
  /\ muted \in {"none", "nil", "writer"}

TypeOK == SipTypeOK /\ CallTypeOK

At(p, label) == pc[p] = label
Goto(p, label) == pc' = [pc EXCEPT ![p] = label]

requestVars == <<wait, ret, retry, invited>>
dialVars == <<ctx, canceller, started>>
linkVars == <<media, room, rpc, output, muted>>
tableVars == <<topic, active, target>>
closeVars == <<once, stopped, early, unlisted, terms, sessionEnds>>
stateVars == <<infoError, status, ended, stale>>
dialRest == <<mu, requestVars, dialVars, linkVars, tableVars, closeVars,
              stateVars>>
-----------------------------------------------------------------------------
DialHolds == {"offer", "invite", "await", "inviteErr", "errWait", "fail",
              "answer", "ack", "acked"}
Closing == {"hangup", "byeWait", "release"}

(* Who may hold the locks, run close() and read the transaction.           *)
LockInv ==
  /\ mu # "free" => pc[mu] \in Closing \cup DialHolds
  /\ pc["dial"] \in DialHolds => mu = "dial"
  /\ ccmu # "free" => pc[ccmu] \in {"byeWait", "errWait", "await", "invite"}
  /\ \A p \in Actors : pc[p] \in Closing =>
       once = p /\ (mu = p \/ (p = "dial" /\ ~active))
  /\ tx = "live" => At("dial", "await") \/ watcher \in {"watch", "bye"}

(* The inductive invariant.  Where each goroutine can be.                  *)
PcInv ==
  /\ pc["dial"] \in ClosePCs \cup DialPCs \cup {"done"}
  /\ pc["rpc"] \in ClosePCs \cup {"idle", "done"}
  /\ pc["stop"] \in ClosePCs \cup {"idle", "snapshot", "closeClient", "done"}
  /\ pc["bye"] \in ClosePCs \cup {"idle", "accept", "done"}
  /\ pc["xfer"] \in ClosePCs \cup (OtherPCs \ {"snapshot", "closeClient", "accept"})
                             \cup {"idle", "done"}

(* Nobody but the dialling goroutine has seen the call.                    *)
Private ==
  /\ once = "none" /\ mu = "free" /\ status = "none"
  /\ ~rpc /\ ~topic /\ ~active /\ ~invited
  /\ {pc["rpc"], pc["bye"], pc["xfer"]} \subseteq {"idle", "done"}
  /\ pc["stop"] \in {"idle", "snapshot", "closeClient", "done"}

(* The body of stopped.Once has run.                                       *)
Released == once # "none" /\ pc[once] \notin Closing

(* It runs once, for a call that others can see or that newCall gives up.  *)
OnceInv ==
  /\ pc["dial"] \in {"request", "media", "join"} => Private /\ ret = "none"
  /\ pc["dial"] = "done" /\ once = "none" => Private /\ ret = "done"
  /\ pc["dial"] = "ensureClosed" \/ stopped => once # "none"
  /\ pc["dial"] = "register" /\ once # "none" => unlisted
  /\ pc["dial"] \in DialHolds /\ ~early => once = "none"
  /\ pc["dial"] \in Closing /\ mu # "dial" => ~invited
  /\ terms = IF once = "none" THEN 0 ELSE 1
  /\ sessionEnds = IF Released THEN 1 ELSE 0
  /\ Released => /\ media # "open" /\ room \in {"none", "left"}
                 /\ ~topic /\ (active => unlisted)

(* No INVITE was sent yet; Invite and dialSIP after the offer.             *)
Unsent == {"request", "media", "join", "register", "created", "dial", "offer"}
Sending == {"invite", "await", "inviteErr", "errWait", "answer", "ack", "acked"}

(* The last status, and the error a caller may act on.                     *)
ReportInv ==
  /\ ended => pc["dial"] = "done" /\ (status \in {"error", "disconnected"} \/ stale)
  /\ pc["dial"] = "done" /\ once # "none" /\ ~ended =>
       ret = "error" \/ (ret = "done" /\ status = "error")
  /\ invited => pc["dial"] \notin Unsent
  /\ pc["dial"] \in Sending => invited
  /\ ~invited => tries = 0 /\ peer = "idle"
  /\ retry => ~invited /\ pc["dial"] \in Closing \cup {"ensureClosed", "done"}

(* What the leg and the watcher have seen of the callee.                   *)
LegInv ==
  /\ pc["dial"] \in Unsent \cup {"invite"} =>
       peer = "idle" /\ tx = "none" /\ resp = "none"
  /\ pc["dial"] \in Unsent \cup {"invite", "await"} => ~inviteOk /\ ~malformed
  /\ pc["dial"] \in Unsent \cup {"invite", "await", "answer", "ack"} =>
       watcher = "none" /\ acks = 0 /\ byes = 0
  /\ pc["dial"] = "inviteErr" /\ inviteOk => malformed /\ byes = 0
  /\ resp = "401" => peer = "idle"
  /\ resp \in Answers => peer = "answered"
  /\ resp = "refusal" => peer = "refused"
  /\ byeIn \/ byeRcvd \/ pc["bye"] # "idle" => peer = "ended"
  /\ byeIn => pc["bye"] = "idle"
  /\ inviteOk => tx = "none" /\ resp = "none" /\ watcher = "none" /\ ~byeRcvd
  /\ inviteOk /\ byes # 0 =>
       (malformed /\ byes = 1) \/ (once # "none" /\ pc[once] # "hangup")
  /\ watcher = "watch" => acks = 0 /\ byes = 0
  /\ watcher = "bye" => acks = 1 /\ byes = 0 /\ resp = "none" /\ peer # "called"

(* A callee that is up will be hung up on: its answer is still to be read, *)
(* the watcher has its BYE to send, or close() has.                        *)
HangUpInv ==
  /\ peer = "called" => tx = "live" \/ expired
  /\ peer \in PeerUp /\ ~missed /\ ~early =>
       \/ resp \in Answers /\ tx = "live"
       \/ watcher = "bye"
       \/ inviteOk /\ (once = "none" \/ pc[once] = "hangup")

(* The conjunction the proofs carry through every step.                    *)
StepInv ==
  LockInv /\ PcInv /\ OnceInv /\ ReportInv /\ LegInv /\ HangUpInv

IInv == TypeOK /\ StepInv
=============================================================================
