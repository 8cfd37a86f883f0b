----------------------------- MODULE InviteAuth -----------------------------
(***************************************************************************)
(* The admission of inbound INVITEs, Server.processInvite up to the call   *)
(* (pkg/sip/inbound.go): the cache of rejections, re-INVITEs of registered *)
(* calls, the authorisation of the handler and the digest handshake with   *)
(* its challenge timers.  Every INVITE is a goroutine; a step ends where   *)
(* the code takes a lock, stores an atomic or calls out.                   *)
(*                                                                         *)
(* An INVITE is a number, which also names the local tag newInbound would  *)
(* make up for it, its CallState and the nonce of the challenge it may     *)
(* get.  All INVITEs of one Call-ID come from one caller, with one From    *)
(* tag, so the Call-ID stands for the key of the caches as well.           *)
(***************************************************************************)
EXTENDS Naturals, Sequences, FiniteSets

CONSTANTS
  CallIDs,      \* the Call-IDs of the callers
  MaxInvites,   \* bound on the INVITEs of a behaviour
  DigestLimit,  \* digestLimit
  Replies       \* the answers of GetSIPTrunkAuthentication considered,
                \* "error" for a failed request

ASSUME BoundsAssumption == MaxInvites \in Nat \ {0} /\ DigestLimit \in Nat \ {0}
ASSUME RepliesAssumption ==
  Replies \subseteq {"error", "quotaExceeded", "noTrunk", "drop", "credentials",
                     "noPassword"}

(* The AuthInfo the handler of the service makes of an answer.             *)
GetAuthCredentials(reply) ==
  CASE reply = "error" -> "unavailable"
    [] reply \in {"quotaExceeded", "noTrunk"} -> "refuse"
    [] reply = "drop" -> "drop"
    [] reply = "credentials" -> "password"
    [] OTHER -> "accept"

(* Another implementation of Handler may give an AuthPassword without a    *)
(* username or a password: "open".                                         *)
Results == {GetAuthCredentials(r) : r \in Replies} \cup {"open"}

Invites == 1 .. MaxInvites
NoInvite == 0
NoCred == 0                \* no Proxy-Authorization header
BadCred == MaxInvites + 1  \* one that answers no challenge

VARIABLES
  callID,      \* the Call-IDs of the INVITEs received so far
  pc,          \* where the goroutine of an INVITE is
  secret,      \* GetAuthCredentials gave it a username and a password to check
  cred,        \* the nonce its Proxy-Authorization answers, NoCred or BadCred
  tag,         \* its local tag, cc.ID()
  holds,       \* inviteState, the entry processInvite got from getInvite
  objs,        \* every inProgressInvite ever allocated
  inProgress,  \* s.inProgressInvites, oldest first, as indices of objs
  timers,      \* the INVITEs whose challenge timer is running
  provisional, \* s.provisionalInvites: the local tag a caller's retry reuses
  rejected,    \* s.rejectedInvites: the Call-IDs with a cached rejection
  registered,  \* s.byLocalTag: the INVITE of the call under a local tag
  status,      \* the CallStatus of the CallState of an INVITE
  finalized,   \* how often that CallState was given its last status
  superseded   \* a later INVITE of the Call-ID stored authResolved after the 407

cacheVars == <<provisional, rejected, registered>>
tableVars == <<objs, inProgress>>
stateVars == <<status, finalized>>
requestVars == <<callID, cred, tag>>
vars == <<requestVars, secret, pc, holds, tableVars, timers, cacheVars, stateVars, superseded>>

PCs == {"new", "lookup", "auth", "supersede", "digest", "challenged",
        "unauthorized", "schedule", "register", "call", "done"}
Entries == [callID : CallIDs, nonce : Invites \cup {NoInvite}, authResolved : BOOLEAN]

TypeOK ==
  /\ pc \in [Invites -> PCs]
  /\ callID \in Seq(CallIDs)
  /\ Len(callID) <= MaxInvites
  /\ cred \in [Invites -> NoCred .. BadCred]
  /\ tag \in [Invites -> Invites \cup {NoInvite}]
  /\ secret \in [Invites -> BOOLEAN]
  /\ holds \in [Invites -> 0 .. Len(objs)]
  /\ objs \in Seq(Entries)
  /\ inProgress \in Seq(1 .. Len(objs))
  /\ timers \subseteq Invites
  /\ provisional \in [CallIDs -> Invites \cup {NoInvite}]
  /\ rejected \subseteq CallIDs
  /\ registered \in [Invites -> Invites \cup {NoInvite}]
  /\ status \in [Invites -> {"none", "incoming", "error", "ended"}]
  /\ finalized \in [Invites -> Nat]
  /\ superseded \in [Invites -> BOOLEAN]

Init ==
  /\ pc = [i \in Invites |-> "new"]
  /\ callID = <<>>
  /\ cred = [i \in Invites |-> NoCred]
  /\ tag = [i \in Invites |-> NoInvite]
  /\ secret = [i \in Invites |-> FALSE]
  /\ holds = [i \in Invites |-> 0]
  /\ objs = <<>>
  /\ inProgress = <<>>
  /\ timers = {}
  /\ provisional = [k \in CallIDs |-> NoInvite]
  /\ rejected = {}
  /\ registered = [t \in Invites |-> NoInvite]
  /\ status = [i \in Invites |-> "none"]
  /\ finalized = [i \in Invites |-> 0]
  /\ superseded = [i \in Invites |-> FALSE]
-----------------------------------------------------------------------------
Goto(i, label) == pc' = [pc EXCEPT ![i] = label]

(* The INVITEs that were answered with a 407.                              *)
Challenged ==
  {i \in Invites : \/ pc[i] \in {"challenged", "schedule"}
                   \/ pc[i] = "done" /\ secret[i] /\ cred[i] = NoCred}

(* The deferred state.Update of processInvite: it runs when the goroutine  *)
(* of i returns with a state.                                              *)
Finalize(i, s) ==
  /\ status' = [status EXCEPT ![i] = s]
  /\ finalized' = [finalized EXCEPT ![i] = @ + 1]

(* Mutant of getInvite: any entry will do, whatever its Call-ID.           *)
getInvite_AnyCall(k) ==
  LET fresh == Len(objs) + 1
  IN  IF inProgress # <<>>
        THEN [id |-> Head(inProgress), objs |-> objs, table |-> inProgress]
        ELSE [id |-> fresh,
              objs |-> Append(objs, [callID |-> k, nonce |-> NoInvite,
                                     authResolved |-> FALSE]),
              table |-> <<fresh>>]

(* Mutant of getInvite: it evicts one entry too late.                      *)
getInvite_OffByOne(k) ==
  LET found == {n \in DOMAIN inProgress : objs[inProgress[n]].callID = k}
      fresh == Len(objs) + 1
  IN  IF found # {}
        THEN [id |-> inProgress[CHOOSE n \in found : \A m \in found : n <= m],
              objs |-> objs, table |-> inProgress]
        ELSE [id |-> fresh,
              objs |-> Append(objs, [callID |-> k, nonce |-> NoInvite,
                                     authResolved |-> FALSE]),
              table |-> Append(IF Len(inProgress) > DigestLimit
                                 THEN Tail(inProgress) ELSE inProgress, fresh)]

(* The entry of Call-ID k, as [id, objs, table]; a full table loses its    *)
(* oldest entry to a new one.                                              *)
getInvite(k) ==
  LET found == {n \in DOMAIN inProgress : objs[inProgress[n]].callID = k}
      fresh == Len(objs) + 1
  IN  IF found # {}
        THEN [id |-> inProgress[CHOOSE n \in found : \A m \in found : n <= m],
              objs |-> objs, table |-> inProgress]
        ELSE [id |-> fresh,
              objs |-> Append(objs, [callID |-> k, nonce |-> NoInvite,
                                     authResolved |-> FALSE]),
              table |-> Append(IF Len(inProgress) >= DigestLimit
                                 THEN Tail(inProgress) ELSE inProgress, fresh)]
-----------------------------------------------------------------------------
(* A request comes in and newInbound gives it a local tag: the To tag it   *)
(* carries into the dialog of a call, or else the one its caller was       *)
(* challenged or refused under, if that is still cached, or else a new     *)
(* one.  Credentials answer a challenge sent to this caller or another.    *)
Receive(k, c, toTag) ==
  LET i == Len(callID) + 1
  IN  /\ i <= MaxInvites
      /\ callID' = Append(callID, k)
      /\ cred' = [cred EXCEPT ![i] = c]
      /\ tag' = [tag EXCEPT ![i] = IF toTag # NoInvite THEN toTag
                                   ELSE IF provisional[k] # NoInvite THEN provisional[k]
                                   ELSE i]
      /\ Goto(i, "lookup")
      /\ UNCHANGED <<secret, holds, tableVars, timers, cacheVars, stateVars, superseded>>

(* The To tags Call-ID k can carry: none, or that of a call it set up.     *)
ToTags(k) ==
  {NoInvite} \cup {tag[j] : j \in {n \in DOMAIN callID : callID[n] = k /\ pc[n] = "call"}}

(* A rejection cached for the caller is replayed, and cached again; a      *)
(* re-INVITE of a registered call is answered with the call's SDP.  The    *)
(* CSeqs of a caller grow, so a later INVITE has the larger one.           *)
ReplayRejection(i) ==
  /\ pc[i] = "lookup"
  /\ callID[i] \in rejected
  /\ Goto(i, "done")
  /\ UNCHANGED <<requestVars, secret, holds, tableVars, timers, cacheVars, stateVars, superseded>>

Reinvite(i) ==
  /\ pc[i] = "lookup"
  /\ callID[i] \notin rejected
  /\ registered[tag[i]] \in 1 .. (i - 1)
  /\ Goto(i, "done")
  /\ UNCHANGED <<requestVars, secret, holds, tableVars, timers, cacheVars, stateVars, superseded>>

Process(i) ==
  /\ pc[i] = "lookup"
  /\ callID[i] \notin rejected
  /\ registered[tag[i]] \notin 1 .. (i - 1)
  /\ Goto(i, "auth")
  /\ UNCHANGED <<requestVars, secret, holds, tableVars, timers, cacheVars, stateVars, superseded>>

(* GetAuthCredentials answers and the CallState is created and flushed.    *)
(* RespondAndDrop caches what it answers, a 503 included; a dropped flood  *)
(* gets no answer and leaves no cache entry.                               *)
Unavailable(i) ==
  /\ "unavailable" \in Results
  /\ pc[i] = "auth"
  /\ rejected' = rejected \cup {callID[i]}
  /\ Goto(i, "done")
  /\ UNCHANGED <<requestVars, secret, holds, tableVars, timers, provisional, registered,
                 stateVars, superseded>>

DropFlood(i) ==
  /\ "drop" \in Results
  /\ pc[i] = "auth"
  /\ Finalize(i, "error")
  /\ Goto(i, "done")
  /\ UNCHANGED <<requestVars, secret, holds, tableVars, timers, cacheVars, superseded>>

Refuse(i) ==
  /\ "refuse" \in Results
  /\ pc[i] = "auth"
  /\ rejected' = rejected \cup {callID[i]}
  /\ Finalize(i, "error")
  /\ Goto(i, "done")
  /\ UNCHANGED <<requestVars, secret, holds, tableVars, timers, provisional, registered, superseded>>

AskPassword(i) ==
  /\ pc[i] = "auth"
  /\ \/ "password" \in Results /\ secret' = [secret EXCEPT ![i] = TRUE]
     \/ "open" \in Results /\ UNCHANGED secret
  /\ status' = [status EXCEPT ![i] = "incoming"]
  /\ Goto(i, "supersede")
  /\ UNCHANGED <<requestVars, holds, tableVars, timers, cacheVars, finalized, superseded>>

AcceptAnyway(i) ==
  /\ "accept" \in Results
  /\ pc[i] = "auth"
  /\ status' = [status EXCEPT ![i] = "incoming"]
  /\ Goto(i, "register")
  /\ UNCHANGED <<requestVars, secret, holds, tableVars, timers, cacheVars, finalized, superseded>>
-----------------------------------------------------------------------------
(* inviteState.authResolved.Store(true).                                   *)
Supersede(i) ==
  /\ pc[i] = "supersede"
  /\ LET got == getInvite(callID[i])
     IN  /\ holds' = [holds EXCEPT ![i] = got.id]
         /\ objs' = [got.objs EXCEPT ![got.id].authResolved = TRUE]
         /\ inProgress' = got.table
  /\ superseded' = [j \in Invites |->
       superseded[j] \/ (j \in Challenged /\ callID[j] = callID[i])]
  /\ Goto(i, "digest")
  /\ UNCHANGED <<requestVars, secret, timers, cacheVars, stateVars>>

(* handleInviteAuth lets a call in that has no username or password to     *)
(* check.                                                                  *)
SkipAuthentication(i) ==
  /\ pc[i] = "digest"
  /\ ~secret[i]
  /\ Goto(i, "register")
  /\ UNCHANGED <<requestVars, secret, holds, tableVars, timers, cacheVars, stateVars, superseded>>

(* It looks the entry up again.  Without credentials it stores a new       *)
(* challenge and sends the 407.                                            *)
SendChallenge(i) ==
  /\ pc[i] = "digest"
  /\ secret[i]
  /\ cred[i] = NoCred
  /\ LET got == getInvite(callID[i])
     IN  /\ objs' = [got.objs EXCEPT ![got.id].nonce = i]
         /\ inProgress' = got.table
  /\ Goto(i, "challenged")
  /\ UNCHANGED <<requestVars, secret, holds, timers, cacheVars, stateVars, superseded>>

(* With credentials it computes the digest of the entry's challenge: an    *)
(* empty one, another nonce or a bad header give a 401.                    *)
CheckCredentials(i) ==
  /\ pc[i] = "digest"
  /\ secret[i]
  /\ cred[i] # NoCred
  /\ LET got == getInvite(callID[i])
     IN  /\ objs' = got.objs
         /\ inProgress' = got.table
         /\ Goto(i, IF got.objs[got.id].nonce = cred[i]
                      THEN "register" ELSE "unauthorized")
  /\ UNCHANGED <<requestVars, secret, holds, timers, cacheVars, stateVars, superseded>>

(* After a 407 or a 401 the local tag is kept for the caller's retry; the  *)
(* 401 is final for the call state.                                        *)
Remember(i) ==
  /\ pc[i] \in {"challenged", "unauthorized"}
  /\ provisional' = [provisional EXCEPT ![callID[i]] = tag[i]]
  /\ IF pc[i] = "challenged"
       THEN Goto(i, "schedule") /\ UNCHANGED stateVars
       ELSE Goto(i, "done") /\ Finalize(i, "error")
  /\ UNCHANGED <<requestVars, secret, holds, tableVars, timers, rejected, registered, superseded>>

(* Mutant of Schedule: the deferred update keeps the state it gave away.   *)
Schedule_KeepsState(i) ==
  /\ pc[i] = "schedule"
  /\ objs' = [objs EXCEPT ![holds[i]].authResolved = FALSE]
  /\ timers' = timers \cup {i}
  /\ Finalize(i, "error")
  /\ Goto(i, "done")
  /\ UNCHANGED <<requestVars, secret, holds, inProgress, cacheVars, superseded>>

(* Mutant of Schedule: authResolved keeps the TRUE of this INVITE's own    *)
(* Supersede, and the timer will find it resolved.                         *)
Schedule_NotReset(i) ==
  /\ pc[i] = "schedule"
  /\ timers' = timers \cup {i}
  /\ Goto(i, "done")
  /\ UNCHANGED <<requestVars, secret, holds, tableVars, cacheVars, stateVars, superseded>>

(* scheduleAuthChallengeTimeout, on the entry processInvite got first; the *)
(* state now belongs to the timer.                                         *)
Schedule(i) ==
  /\ pc[i] = "schedule"
  /\ objs' = [objs EXCEPT ![holds[i]].authResolved = FALSE]
  /\ timers' = timers \cup {i}
  /\ Goto(i, "done")
  /\ UNCHANGED <<requestVars, secret, holds, inProgress, cacheVars, stateVars, superseded>>

(* The timer of i fires: it ends the call only if it wins authResolved.    *)
TimerFires(i) ==
  /\ i \in timers
  /\ timers' = timers \ {i}
  /\ IF objs[holds[i]].authResolved
       THEN UNCHANGED <<objs, stateVars>>
       ELSE /\ objs' = [objs EXCEPT ![holds[i]].authResolved = TRUE]
            /\ Finalize(i, "error")
  /\ UNCHANGED <<requestVars, secret, pc, holds, inProgress, cacheVars, superseded>>
-----------------------------------------------------------------------------
(* newInboundCall; the call then runs to its end, which takes its local    *)
(* tag out of byLocalTag and returns to processInvite.                     *)
Register(i) ==
  /\ pc[i] = "register"
  /\ registered' = [registered EXCEPT ![tag[i]] = i]
  /\ Goto(i, "call")
  /\ UNCHANGED <<requestVars, secret, holds, tableVars, timers, provisional, rejected,
                 stateVars, superseded>>

(* The dispatch of handleInvite refuses the call with RespondAndDrop.      *)
RefuseCall(i) ==
  /\ "refuse" \in Results
  /\ pc[i] = "call"
  /\ callID[i] \notin rejected
  /\ rejected' = rejected \cup {callID[i]}
  /\ UNCHANGED <<requestVars, secret, pc, holds, tableVars, timers, provisional,
                 registered, stateVars, superseded>>

(* close() reports "error" or "disconnected"; one value stands for both.   *)
CallEnds(i) ==
  /\ pc[i] = "call"
  /\ registered' = [registered EXCEPT ![tag[i]] = NoInvite]
  /\ Finalize(i, "ended")
  /\ Goto(i, "done")
  /\ UNCHANGED <<requestVars, secret, holds, tableVars, timers, provisional, rejected, superseded>>

(* External: the entries of the expirable caches live callCacheTTL.        *)
Expire ==
  /\ \E k \in CallIDs :
       \/ /\ provisional[k] # NoInvite
          /\ provisional' = [provisional EXCEPT ![k] = NoInvite]
          /\ UNCHANGED rejected
       \/ /\ k \in rejected
          /\ rejected' = rejected \ {k}
          /\ UNCHANGED provisional
  /\ UNCHANGED <<requestVars, secret, pc, holds, tableVars, timers, registered, stateVars, superseded>>

processInvite(i) ==
  \/ ReplayRejection(i)
  \/ Reinvite(i)
  \/ Process(i)
  \/ Unavailable(i)
  \/ DropFlood(i)
  \/ Refuse(i)
  \/ AskPassword(i)
  \/ AcceptAnyway(i)
  \/ Supersede(i)
  \/ SkipAuthentication(i)
  \/ SendChallenge(i)
  \/ CheckCredentials(i)
  \/ Remember(i)
  \/ Schedule(i)
  \/ Register(i)
  \/ RefuseCall(i)
  \/ CallEnds(i)

Terminated ==
  /\ Len(callID) = MaxInvites
  /\ \A i \in Invites : pc[i] = "done"
  /\ timers = {}
  /\ UNCHANGED vars

Next ==
  \/ \E k \in CallIDs :
       \E c \in {NoCred, BadCred} \cup Challenged, t \in ToTags(k) : Receive(k, c, t)
  \/ \E i \in Invites : processInvite(i)
  \/ \E i \in Invites : TimerFires(i)
  \/ Expire
  \/ Terminated

Spec == Init /\ [][Next]_vars
-----------------------------------------------------------------------------
(* A call that had to give a password got in only with the digest of a     *)
(* challenge that was sent to its own Call-ID, whatever was evicted from   *)
(* inProgressInvites or overwritten by concurrent INVITEs in between.      *)
AdmittedAnsweredChallenge ==
  \A i \in Invites : pc[i] \in {"register", "call"} /\ secret[i] =>
    cred[i] \in 1 .. (i - 1) /\ callID[cred[i]] = callID[i]

(* The state of an INVITE is given its last status once: by the deferred   *)
(* update of processInvite or by the challenge timer, never by both.       *)
FinalizedOnce == \A i \in Invites : finalized[i] <= 1

(* The table of handshakes in progress is bounded by digestLimit and has   *)
(* one entry per Call-ID.                                                  *)
TableSound ==
  /\ TypeOK
  /\ Len(inProgress) <= DigestLimit
  /\ \A m, n \in DOMAIN inProgress :
       objs[inProgress[m]].callID = objs[inProgress[n]].callID => m = n

(* The INVITEs with Call-ID k.                                             *)
Of(k) == {i \in DOMAIN callID : callID[i] = k}

(* A 407 is never the last that is heard of a Call-ID: when its handlers   *)
(* have returned and its timers have fired, an end was reported, by the    *)
(* challenge timer or for an INVITE that got in its way.                   *)
ChallengeSettled ==
  \A k \in CallIDs :
    /\ Of(k) \cap Challenged # {}
    /\ Of(k) \cap timers = {}
    /\ \A i \in Of(k) : pc[i] = "done"
    => \E i \in Of(k) : finalized[i] > 0

(* scheduleAuthChallengeTimeout "finalizes st as SCS_ERROR after           *)
(* authChallengeTimeout unless authResolved is set to true (by a follow-up *)
(* INVITE) before the timer fires".                                        *)
ChallengeTimeoutFinalizes ==
  \A i \in Invites :
    (i \in Challenged /\ pc[i] = "done" /\ i \notin timers /\ ~superseded[i])
      => status[i] = "error"
-----------------------------------------------------------------------------
(* What holds of an INVITE wherever its goroutine is.  The challenge its   *)
(* credentials answer went to an earlier one.  It has a password to check  *)
(* only once it was asked for, and an entry of its own Call-ID only once   *)
(* it superseded.  Its state is final only when neither the goroutine nor  *)
(* a timer is left to finalize it.                                         *)
InviteOK(i) ==
  /\ pc[i] = "new" <=> i > Len(callID)
  /\ cred[i] \in {NoCred, BadCred} \cup 1 .. (i - 1)
  /\ secret[i] => pc[i] \notin {"new", "lookup", "auth"}
  /\ secret[i] => pc[i] = "supersede" \/ holds[i] # 0
  /\ pc[i] \in {"new", "lookup", "auth", "supersede"} => holds[i] = 0
  /\ pc[i] \in {"digest", "challenged", "schedule"} => holds[i] # 0
  /\ holds[i] # 0 => callID[i] = objs[holds[i]].callID
  /\ i \in timers => pc[i] = "done" /\ holds[i] # 0
  /\ finalized[i] # 0 => finalized[i] = 1 /\ pc[i] = "done" /\ i \notin timers
  /\ pc[i] \in {"register", "call"} /\ secret[i] =>
       cred[i] \in 1 .. (i - 1) /\ callID[cred[i]] = callID[i]

InviteInv == \A i \in Invites : InviteOK(i)

(* The nonce of an entry was sent to an INVITE of its Call-ID.             *)
NonceInv ==
  \A o \in DOMAIN objs : objs[o].nonce # NoInvite =>
    objs[o].nonce <= Len(callID) /\ callID[objs[o].nonce] = objs[o].callID

(* Someone who took entry o will finalize its state, or has.               *)
Busy(o, j) == holds[j] = o /\ (pc[j] # "done" \/ finalized[j] # 0)

(* authResolved is set only with such a one behind it, and every entry     *)
(* that was taken has one, or a timer.                                     *)
SettleInv ==
  /\ \A o \in DOMAIN objs : objs[o].authResolved => \E j \in Invites : Busy(o, j)
  /\ \A i \in Invites : holds[i] # 0 =>
       \E j \in Invites : Busy(holds[i], j) \/ (holds[j] = holds[i] /\ j \in timers)

(* The conjunction the proofs carry through every step.                    *)
IInv == TableSound /\ InviteInv /\ NonceInv /\ SettleInv
=============================================================================
