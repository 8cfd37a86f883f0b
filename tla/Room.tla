-------------------------------- MODULE Room --------------------------------
(***************************************************************************)
(* The LiveKit side of a call: Room of pkg/sip/room.go.                    *)
(*                                                                         *)
(* The goroutine of the call connects, publishes its track and subscribes; *)
(* callbacks of the LiveKit SDK announce participants and tracks, and tell *)
(* when the signal connection is lost and recovered; a goroutine for each  *)
(* new session subscribes again; the call, or Server.Stop from another     *)
(* goroutine, closes the room.                                             *)
(*                                                                         *)
(* The SDK and the server are external: sess, sid, published and subs are  *)
(* their state, as the callbacks and the methods of lksdk.Room show it.    *)
(***************************************************************************)
EXTENDS Naturals, FiniteSets

CONSTANTS
  Tracks,      \* the tracks other participants publish
  MaxLosses    \* how often the signal connection is lost

ASSUME RoomAssumption == MaxLosses \in Nat

Sessions == 1..MaxLosses + 1
Callers == {"call", "shutdown"}

VARIABLES
  call,        \* where the goroutine of the call is
  close,       \* where CloseWithReason is, for each of its callers
  once,        \* who runs, or ran, the body of closed.Once
  closed,      \* the fuse
  handle,      \* r.room is not nil
  sess,        \* the session: "none", "up", "down", "left"
  sid,         \* its participant SID, 0 before there is one
  losses,      \* connections lost so far
  pid,         \* the SID in r.p
  callSid,     \* the SID Connect has read and not stored yet
  overlap,     \* it was replaced in between
  subscribe,   \* r.subscribe
  ready, subscribed, stopped,   \* fuses
  sdk,         \* where the SDK is with a recovery
  prev,        \* r.reconnect: 0 for nil or an unknown SID
  resumed,     \* what onReconnected made of it
  recovering,  \* stats.Recovering
  resub,       \* the goroutine that subscribes again, for each session
  todo,        \* the tracks subscribeAll has still to go through
  published,   \* tracks the SDK knows of
  audio,       \* those that are audio
  event,       \* the OnTrackPublished callback of each track
  sip,         \* the OnParticipantConnected callback of another SIP leg
  subs,        \* tracks subscribed in this session
  failed,      \* tracks whose SetSubscribed was lost with the connection
  mixed,       \* tracks that feed the mixer
  late         \* something was set that close() had already released

callVars == <<call, callSid, overlap>>
closeVars == <<close, once, closed>>
sdkVars == <<sess, sid, losses, sdk, prev, resumed, recovering>>
trackVars == <<published, audio, event, sip, subs, failed, mixed, subscribed>>
subVars == <<resub, todo>>
roomVars == <<handle, pid, subscribe, ready, stopped, late>>
vars == <<callVars, closeVars, sdkVars, trackVars, subVars, roomVars>>

TypeOK ==
  /\ call \in {"idle", "join", "store", "participant", "refresh", "ready",
               "publish", "subscribe", "flag", "list", "tracks", "up",
               "closing", "done"}
  /\ close \in [Callers -> {"idle", "flag", "room", "done"}]
  /\ once \in Callers \cup {"none"}
  /\ {closed, handle, overlap, subscribe, ready, subscribed, stopped, resumed,
      recovering, late} \subseteq BOOLEAN
  /\ sess \in {"none", "up", "down", "left"}
  /\ {sid, pid, callSid, prev} \subseteq Sessions \cup {0}
  /\ losses \in 0..MaxLosses
  /\ sdk \in {"idle", "lost", "waiting", "recovered", "refresh", "again"}
  /\ resub \in [Sessions -> {"none", "start", "list", "tracks", "done"}]
  /\ todo \in [{0} \cup Sessions -> SUBSET Tracks]
  /\ event \in [Tracks -> {"none", "pending", "subscribe"}]
  /\ sip \in {"none", "pending", "seen"}
  /\ {published, audio, subs, failed, mixed} \subseteq SUBSET Tracks

Init ==
  /\ call = "idle" /\ callSid = 0 /\ overlap = FALSE
  /\ close = [p \in Callers |-> "idle"] /\ once = "none" /\ closed = FALSE
  /\ sess = "none" /\ sid = 0 /\ losses = 0
  /\ sdk = "idle" /\ prev = 0 /\ resumed = FALSE /\ recovering = FALSE
  /\ published = {} /\ audio = {}
  /\ event = [t \in Tracks |-> "none"] /\ sip = "none"
  /\ subs = {} /\ failed = {} /\ mixed = {} /\ subscribed = FALSE
  /\ resub = [n \in Sessions |-> "none"]
  /\ todo = [n \in {0} \cup Sessions |-> {}]
  /\ handle = FALSE /\ pid = 0 /\ subscribe = FALSE /\ ready = FALSE
  /\ stopped = FALSE /\ late = FALSE
-----------------------------------------------------------------------------
(* Connect                                                                 *)

(* r.p without a SID, then JoinWithContextAndToken.                        *)
Connect ==
  /\ call = "idle"
  /\ pid' = 0
  /\ call' = "join"
  /\ UNCHANGED <<callSid, overlap, closeVars, sdkVars, trackVars, subVars,
                 handle, subscribe, ready, stopped, late>>

ConnectFails ==
  /\ call = "join"
  /\ call' = "closing"
  /\ UNCHANGED <<callSid, overlap, closeVars, sdkVars, trackVars, subVars,
                 roomVars>>

Joined ==
  /\ call = "join"
  /\ sess' = "up" /\ sid' = 1
  /\ call' = "store"
  /\ UNCHANGED <<callSid, overlap, closeVars, losses, sdk, prev, resumed,
                 recovering, trackVars, subVars, roomVars>>

(* late: CloseWithReason has already taken the handle out.                 *)
StoreRoom ==
  /\ call = "store"
  /\ handle' = TRUE
  /\ late' = (late \/ \E p \in Callers : once = p /\ close[p] = "done")
  /\ call' = "participant"
  /\ UNCHANGED <<callSid, overlap, closeVars, sdkVars, trackVars, subVars,
                 pid, subscribe, ready, stopped>>

(* setParticipantFromRoom: the SID is read, then stored.                   *)
setParticipantReads ==
  /\ call = "participant"
  /\ IF handle
     THEN callSid' = sid /\ call' = "refresh"
     ELSE call' = "ready" /\ UNCHANGED callSid
  /\ UNCHANGED <<overlap, closeVars, sdkVars, trackVars, subVars, roomVars>>

setParticipantStores ==
  /\ call = "refresh"
  /\ pid' = callSid
  /\ overlap' = (sid # callSid)
  /\ call' = "ready"
  /\ UNCHANGED <<callSid, closeVars, sdkVars, trackVars, subVars, handle,
                 subscribe, ready, stopped, late>>

ConnectReturns ==
  /\ call = "ready"
  /\ ready' = TRUE
  /\ subscribe' = FALSE
  /\ call' = "publish"
  /\ UNCHANGED <<callSid, overlap, closeVars, sdkVars, trackVars, subVars,
                 handle, pid, stopped, late>>

(* Without a room, or when it cannot publish, the call is closed.          *)
NewParticipantTrack ==
  /\ call = "publish"
  /\ \/ handle /\ call' = "subscribe"
     \/ call' = "closing"
  /\ UNCHANGED <<callSid, overlap, closeVars, sdkVars, trackVars, subVars,
                 roomVars>>

-----------------------------------------------------------------------------
(* Subscribe and subscribeAll                                              *)

(* g: 0 for the goroutine of the call, or the session to subscribe again.  *)
subscribeAll(g) ==
  /\ todo' = [todo EXCEPT ![g] = published]
  /\ subscribed' = (subscribed \/ sip # "none")
  /\ UNCHANGED <<published, audio, event, sip, subs, failed, mixed>>

(* The request is lost when the connection is down.  Then SetSubscribed    *)
(* fails, or the write only seems to succeed.                              *)
subscribeTo(t) ==
  \/ /\ t \notin audio
     /\ UNCHANGED <<subs, failed, subscribed>>
  \/ /\ t \in audio
     /\ IF sess = "up"
        THEN subs' = subs \cup {t} /\ subscribed' = TRUE /\ UNCHANGED failed
        ELSE /\ failed' = failed \cup {t}
             /\ subscribed' \in {subscribed, TRUE}
             /\ UNCHANGED subs

subscribeNext(g, t) ==
  /\ t \in todo[g]
  /\ subscribeTo(t)
  /\ todo' = [todo EXCEPT ![g] = @ \ {t}]
  /\ UNCHANGED <<published, audio, event, sip, mixed>>

Subscribe ==
  /\ call = "subscribe"
  /\ call' = IF handle THEN "flag" ELSE "up"
  /\ UNCHANGED <<callSid, overlap, closeVars, sdkVars, trackVars, subVars,
                 roomVars>>

SubscribeFlag ==
  /\ call = "flag"
  /\ subscribe' = TRUE
  /\ call' = "list"
  /\ UNCHANGED <<callSid, overlap, closeVars, sdkVars, trackVars, subVars,
                 handle, pid, ready, stopped, late>>

SubscribeLists ==
  /\ call = "list"
  /\ subscribeAll(0)
  /\ call' = "tracks"
  /\ UNCHANGED <<callSid, overlap, closeVars, sdkVars, resub, roomVars>>

SubscribeTracks ==
  /\ call = "tracks"
  /\ IF todo[0] = {}
     THEN call' = "up" /\ UNCHANGED <<trackVars, todo>>
     ELSE (\E t \in Tracks : subscribeNext(0, t)) /\ UNCHANGED call
  /\ UNCHANGED <<callSid, overlap, closeVars, sdkVars, resub, roomVars>>

(* The call ends, for whatever reason.                                     *)
CallEnds ==
  /\ call = "up"
  /\ call' = "closing"
  /\ UNCHANGED <<callSid, overlap, closeVars, sdkVars, trackVars, subVars,
                 roomVars>>
-----------------------------------------------------------------------------
(* Callbacks of the SDK                                                    *)

(* The SDK knows a track or a participant before it tells.                 *)
Publish(t) ==
  /\ sess = "up"
  /\ t \notin published
  /\ published' = published \cup {t}
  /\ audio' \in {audio, audio \cup {t}}
  /\ event' = [event EXCEPT ![t] = "pending"]
  /\ UNCHANGED <<callVars, closeVars, sdkVars, sip, subs, failed, mixed,
                 subscribed, subVars, roomVars>>

SipJoins ==
  /\ sess = "up"
  /\ sip = "none"
  /\ sip' = "pending"
  /\ UNCHANGED <<callVars, closeVars, sdkVars, published, audio, event, subs,
                 failed, mixed, subscribed, subVars, roomVars>>

OnTrackPublished(t) ==
  /\ event[t] = "pending"
  /\ event' = [event EXCEPT ![t] = IF subscribe THEN "subscribe" ELSE "none"]
  /\ UNCHANGED <<callVars, closeVars, sdkVars, published, audio, sip, subs,
                 failed, mixed, subscribed, subVars, roomVars>>

OnTrackPublishedSubscribes(t) ==
  /\ event[t] = "subscribe"
  /\ subscribeTo(t)
  /\ event' = [event EXCEPT ![t] = "none"]
  /\ UNCHANGED <<callVars, closeVars, sdkVars, published, audio, sip, mixed,
                 subVars, roomVars>>

(* participantJoin: another SIP leg need not publish before we answer.     *)
OnParticipantConnected ==
  /\ sip = "pending"
  /\ sip' = "seen"
  /\ subscribed' = (subscribed \/ subscribe)
  /\ UNCHANGED <<callVars, closeVars, sdkVars, published, audio, event, subs,
                 failed, mixed, subVars, roomVars>>

(* The goroutine that feeds the mixer until the track ends.                *)
OnTrackSubscribed(t) ==
  /\ t \in subs \ mixed
  /\ ready
  /\ \A p \in Callers : once = p => close[p] # "done"
  /\ mixed' = mixed \cup {t}
  /\ UNCHANGED <<callVars, closeVars, sdkVars, published, audio, event, sip,
                 subs, failed, subscribed, subVars, roomVars>>
-----------------------------------------------------------------------------
(* Recovery of the signal connection                                       *)

SignalLost ==
  /\ sess = "up" /\ sdk = "idle"
  /\ losses < MaxLosses
  /\ losses' = losses + 1
  /\ sess' = "down"
  /\ sdk' = "lost"
  /\ UNCHANGED <<callVars, closeVars, sid, prev, resumed, recovering,
                 trackVars, subVars, roomVars>>

onReconnecting ==
  /\ sdk = "lost"
  /\ prev' = IF handle THEN sid ELSE 0
  /\ recovering' = TRUE
  /\ sdk' = "waiting"
  /\ UNCHANGED <<callVars, closeVars, sess, sid, losses, resumed, trackVars,
                 subVars, roomVars>>

(* A resume keeps the session and what was subscribed in it.               *)
Resumes ==
  /\ sdk = "waiting" /\ sess = "down"
  /\ sess' = "up"
  /\ sdk' = "recovered"
  /\ UNCHANGED <<callVars, closeVars, sid, losses, prev, resumed, recovering,
                 trackVars, subVars, roomVars>>

(* A reconnect makes a new one, with a new SID and nothing subscribed.     *)
Reconnects ==
  /\ sdk = "waiting" /\ sess = "down"
  /\ sess' = "up" /\ sid' = sid + 1
  /\ subs' = {} /\ failed' = {} /\ mixed' = {}
  /\ sdk' = "recovered"
  /\ UNCHANGED <<callVars, closeVars, losses, prev, resumed, recovering,
                 published, audio, event, sip, subscribed, subVars, roomVars>>

(* The SDK gives up, or the server ends the session.                       *)
OnDisconnected ==
  /\ \/ sdk = "waiting" /\ sess = "down"
     \/ sdk = "idle" /\ sess = "up"
  /\ sess' = "left"
  /\ stopped' = TRUE
  /\ sdk' = "idle"
  /\ UNCHANGED <<callVars, closeVars, sid, losses, prev, resumed, recovering,
                 trackVars, subVars, handle, pid, subscribe, ready, late>>

(* Mutant of onReconnected: any known SID counts as a resume.              *)
onReconnected_AlwaysResumed ==
  /\ sdk = "recovered"
  /\ prev' = 0
  /\ recovering' = FALSE
  /\ IF handle
     THEN resumed' = (prev # 0) /\ sdk' = "refresh"
     ELSE sdk' = "idle" /\ UNCHANGED resumed
  /\ UNCHANGED <<callVars, closeVars, sess, sid, losses, trackVars, subVars,
                 roomVars>>

onReconnected ==
  /\ sdk = "recovered"
  /\ prev' = 0
  /\ recovering' = FALSE
  /\ IF handle
     THEN resumed' = (prev = sid) /\ sdk' = "refresh"
     ELSE sdk' = "idle" /\ UNCHANGED resumed
  /\ UNCHANGED <<callVars, closeVars, sess, sid, losses, trackVars, subVars,
                 roomVars>>

(* Mutant of onReconnectedRefreshes: the cached participant is kept.       *)
onReconnectedRefreshes_Keeps ==
  /\ sdk = "refresh"
  /\ sdk' = "again"
  /\ UNCHANGED <<callVars, closeVars, sess, sid, losses, prev, resumed,
                 recovering, trackVars, subVars, roomVars>>

(* setParticipantFromRoom checks the handle again.                         *)
onReconnectedRefreshes ==
  /\ sdk = "refresh"
  /\ pid' = IF handle THEN sid ELSE pid
  /\ sdk' = "again"
  /\ UNCHANGED <<callVars, closeVars, sess, sid, losses, prev, resumed,
                 recovering, trackVars, subVars, handle, subscribe, ready,
                 stopped, late>>

(* Mutant of onReconnectedSubscribes: r.subscribe is not checked.          *)
onReconnectedSubscribes_Early ==
  /\ sdk = "again"
  /\ resub' = IF resumed THEN resub ELSE [resub EXCEPT ![sid] = "start"]
  /\ sdk' = "idle"
  /\ UNCHANGED <<callVars, closeVars, sess, sid, losses, prev, resumed,
                 recovering, trackVars, todo, roomVars>>

onReconnectedSubscribes ==
  /\ sdk = "again"
  /\ resub' = IF resumed \/ ~subscribe
              THEN resub ELSE [resub EXCEPT ![sid] = "start"]
  /\ sdk' = "idle"
  /\ UNCHANGED <<callVars, closeVars, sess, sid, losses, prev, resumed,
                 recovering, trackVars, todo, roomVars>>

resubscribeAfterReconnect(n) ==
  /\ resub[n] = "start"
  /\ resub' = [resub EXCEPT ![n] =
                 IF closed \/ stopped THEN "done" ELSE "list"]
  /\ UNCHANGED <<callVars, closeVars, sdkVars, trackVars, todo, roomVars>>

ResubscribeLists(n) ==
  /\ resub[n] = "list"
  /\ subscribeAll(n)
  /\ resub' = [resub EXCEPT ![n] = "tracks"]
  /\ UNCHANGED <<callVars, closeVars, sdkVars, roomVars>>

ResubscribeTracks(n) ==
  /\ resub[n] = "tracks"
  /\ IF todo[n] = {}
     THEN resub' = [resub EXCEPT ![n] = "done"] /\ UNCHANGED <<trackVars,
                                                               todo>>
     ELSE (\E t \in Tracks : subscribeNext(n, t)) /\ UNCHANGED resub
  /\ UNCHANGED <<callVars, closeVars, sdkVars, roomVars>>
-----------------------------------------------------------------------------
(* CloseWithReason: the first caller runs the body of closed.Once.         *)

CloseWithReason(p) ==
  /\ close[p] = "idle"
  /\ p = "call" => call = "closing"
  /\ IF once = "none"
     THEN once' = p /\ close' = [close EXCEPT ![p] = "flag"]
     ELSE close' = [close EXCEPT ![p] = "done"] /\ UNCHANGED once
  /\ call' = IF p = "call" THEN "done" ELSE call
  /\ UNCHANGED <<callSid, overlap, closed, sdkVars, trackVars, subVars,
                 roomVars>>

(* The fuse breaks at some point of the body.                              *)
ClosedBreaks ==
  /\ once # "none" /\ ~closed
  /\ closed' = TRUE
  /\ UNCHANGED <<callVars, close, once, sdkVars, trackVars, subVars,
                 roomVars>>

(* r.subscribe, then the output and the DTMF output are taken away.        *)
CloseOutput(p) ==
  /\ close[p] = "flag"
  /\ subscribe' = FALSE
  /\ close' = [close EXCEPT ![p] = "room"]
  /\ UNCHANGED <<callVars, once, closed, sdkVars, trackVars, subVars, handle,
                 pid, ready, stopped, late>>

(* Mutant of CloseRoom: the handle is dropped, the session is not left.    *)
CloseRoom_NoDisconnect(p) ==
  /\ close[p] = "room"
  /\ handle' = FALSE
  /\ closed' = TRUE
  /\ close' = [close EXCEPT ![p] = "done"]
  /\ UNCHANGED <<callVars, once, sdkVars, trackVars, subVars, pid, subscribe,
                 ready, stopped, late>>

(* Leaving the session ends the tracks, and OnDisconnected may be called;  *)
(* then the mixer stops.                                                   *)
CloseRoom(p) ==
  /\ close[p] = "room"
  /\ handle' = FALSE
  /\ IF handle
     THEN /\ sess' = "left"
          /\ mixed' = {}
          /\ stopped' \in {stopped, TRUE}
     ELSE UNCHANGED <<sess, mixed, stopped>>
  /\ closed' = TRUE
  /\ close' = [close EXCEPT ![p] = "done"]
  /\ UNCHANGED <<callVars, once, sid, losses, sdk, prev, resumed, recovering,
                 published, audio, event, sip, subs, failed, subscribed,
                 subVars, pid, subscribe, ready, late>>
-----------------------------------------------------------------------------
CallSteps ==
  \/ Connect \/ ConnectFails \/ Joined \/ StoreRoom
  \/ setParticipantReads \/ setParticipantStores \/ ConnectReturns
  \/ NewParticipantTrack
  \/ Subscribe \/ SubscribeFlag \/ SubscribeLists \/ SubscribeTracks
  \/ CallEnds

Callbacks ==
  \/ \E t \in Tracks :
       OnTrackPublished(t) \/ OnTrackPublishedSubscribes(t)
         \/ OnTrackSubscribed(t)
  \/ OnParticipantConnected
  \/ onReconnecting \/ onReconnected
  \/ onReconnectedRefreshes \/ onReconnectedSubscribes

Server ==
  \/ \E t \in Tracks : Publish(t)
  \/ SipJoins
  \/ SignalLost \/ Resumes \/ Reconnects \/ OnDisconnected

Resubscriber(n) ==
  resubscribeAfterReconnect(n) \/ ResubscribeLists(n) \/ ResubscribeTracks(n)

Closer(p) ==
  CloseWithReason(p) \/ CloseOutput(p) \/ CloseRoom(p)

Next ==
  \/ CallSteps \/ Callbacks \/ Server \/ ClosedBreaks
  \/ \E n \in Sessions : Resubscriber(n)
  \/ \E p \in Callers : Closer(p)

Spec == Init /\ [][Next]_vars
-----------------------------------------------------------------------------
(* Properties                                                              *)

(* No goroutine or callback has anything left to do.                       *)
Quiet ==
  /\ call \in {"up", "done"}
  /\ \A p \in Callers : close[p] \in {"idle", "done"}
  /\ sdk = "idle"
  /\ \A t \in Tracks : event[t] = "none"
  /\ \A n \in Sessions : resub[n] \in {"none", "done"}

(* Room audio is pulled in only once Subscribe was called: not by a track  *)
(* or a reconnect that comes before it (onReconnected: "subscribing here   *)
(* would pull room audio into a leg that has not been accepted"), and      *)
(* therefore never into a room that is not ready.                          *)
NoEarlyAudio ==
  /\ TypeOK
  /\ subs \cup failed # {} \/ subscribed \/ subscribe =>
       ready /\ call \in {"list", "tracks", "up", "closing", "done"}

(* No audio track is missed: whichever way its publication, Subscribe and  *)
(* the recoveries of the connection interleave, in a room that is open and *)
(* connected it is subscribed in the current session once all of them are  *)
(* done.  Except: the request was lost with a connection that was resumed, *)
(* when nobody subscribes again.                                           *)
NoTrackMissed ==
  Quiet /\ call = "up" /\ once = "none" /\ sess = "up" /\ subscribe =>
    audio \subseteq subs \cup failed

(* Participant() tells the SID of the current session after every recovery *)
(* ("since a reconnect gets a new SID").  Except: the session was replaced *)
(* while Connect stored the one before.                                    *)
ParticipantCurrent ==
  Quiet /\ call = "up" /\ handle /\ sess = "up" => pid = sid \/ overlap

(* After the room is closed, by the call or by Server.Stop beside it, the  *)
(* session is left.  Except: the close came while Connect was joining,     *)
(* which then stores a room nobody leaves.                                 *)
SessionLeft ==
  Quiet /\ once # "none" /\ call = "done" =>
    sess \in {"none", "left"} \/ late

(* "room is cleared on close": there is no handle once CloseWithReason is  *)
(* done.                                                                   *)
ClearedOnClose == (\E p \in Callers : once = p /\ close[p] = "done") => ~handle
-----------------------------------------------------------------------------
(* The inductive invariant behind the four, in named parts.                *)

(* The body of closed.Once has run.                                        *)
BodyDone == \E p \in Callers : once = p /\ close[p] = "done"

(* The call has stored its room, and has not given up.                     *)
Stored == {"participant", "refresh", "ready", "publish", "subscribe", "flag",
           "list", "tracks", "up"}
(* It has been answered: Subscribe is past its flag, or everything is over. *)
Open == {"list", "tracks", "up", "closing", "done"}

(* The sessions: one before any loss and at most one more for each.        *)
SessionInv ==
  /\ call \in {"idle", "join"} => sess = "none"
  /\ sess = "none" => sid = 0 /\ sdk = "idle"
  /\ sess # "none" => sid > 0
  /\ handle \/ call = "store" => sess # "none"
  /\ sid <= losses + 1
  /\ sess = "down" => sdk \in {"lost", "waiting"} /\ sid <= losses
  /\ sdk \in {"lost", "waiting"} => sess # "up"
  /\ sdk = "waiting" => prev <= sid
  /\ stopped => sess = "left"

(* CloseWithReason has one winner, which alone takes the handle away; the  *)
(* session is left with the handle, unless Connect has still to store it.  *)
CloseInv ==
  /\ \A p \in Callers : /\ close[p] \in {"flag", "room"} => once = p
                        /\ once = p => close[p] # "idle"
  /\ closed => once # "none"
  /\ close["call"] # "idle" => call = "done"
  /\ ~handle /\ ~BodyDone => call \in {"idle", "join", "store"} \/ sess = "none"
  /\ ready \/ call \in Stored => handle \/ once # "none"
  /\ BodyDone =>
       sess \in {"none", "left"} \/ late \/ call \in {"idle", "join", "store"}

(* Nothing is subscribed, and nobody is about to, before Subscribe.        *)
OpenInv ==
  /\ call \in {"publish", "subscribe", "flag", "list", "tracks", "up"} => ready
  /\ \/ subs \cup failed # {} \/ subscribed \/ subscribe
     \/ \E n \in Sessions : resub[n] # "none"
     \/ \E t \in Tracks : event[t] = "subscribe"
     => ready /\ call \in Open

(* Someone is going to subscribe to the track t: its own callback, the     *)
(* call, the goroutine of the session, or a recovery that will start it.   *)
Pending(t) ==
  \/ event[t] # "none"
  \/ call = "list"
  \/ call = "tracks" /\ t \in todo[0]
  \/ resub[sid] \in {"start", "list"}
  \/ resub[sid] = "tracks" /\ t \in todo[sid]
  \/ sdk = "recovered" /\ prev # sid
  \/ sdk \in {"refresh", "again"} /\ ~resumed

TrackInv ==
  /\ audio \subseteq published
  /\ once = "none" /\ sess \in {"up", "down"} /\ subscribe =>
       \A t \in audio : t \in subs \cup failed \/ Pending(t)

(* The cached participant is that of the session, until a recovery that    *)
(* has still to refresh it.                                                *)
PidInv ==
  handle /\ sess \in {"up", "down"}
         /\ call \in Stored \ {"participant", "refresh"} =>
    pid = sid \/ overlap \/ sdk \in {"lost", "waiting", "recovered", "refresh"}

IInv ==
  /\ TypeOK
  /\ SessionInv /\ CloseInv /\ OpenInv /\ TrackInv /\ PidInv
=============================================================================
