----------------------------- MODULE RoomProofs -----------------------------
(***************************************************************************)
(* The room of a call, for any set of tracks and any number of lost        *)
(* connections: no audio before Subscribe, no track missed, the            *)
(* participant current, the session left.  The invariant IInv of Room says *)
(* who has still to subscribe to a track (Pending), which recovery has     *)
(* still to refresh the participant, and what the body of CloseWithReason  *)
(* has left behind.  There is one lemma for each goroutine and one step in *)
(* it for each action.                                                     *)
(***************************************************************************)
EXTENDS Room, TLAPS

USE SMTT(30)
USE DEF vars, callVars, closeVars, sdkVars, trackVars, subVars, roomVars

(* Sessions are numbered from one, and there is room for one after each    *)
(* loss.                                                                   *)
LEMMA Numbers ==
  ASSUME TypeOK
  PROVE  /\ MaxLosses \in Nat /\ losses \in Nat /\ losses <= MaxLosses
         /\ sid \in Nat /\ prev \in Nat /\ 1 \in Sessions /\ 0 \notin Sessions
         /\ \A i \in Nat : i > 0 /\ i <= MaxLosses + 1 => i \in Sessions
         /\ sid > 0 => sid \in Sessions
  BY RoomAssumption DEF TypeOK, Sessions

(* subscribeTo of an audio track: requested, or lost with the connection.  *)
LEMMA SubscribeTo ==
  ASSUME TypeOK, NEW t \in Tracks, subscribeTo(t)
  PROVE  /\ subs \subseteq subs' /\ failed \subseteq failed'
         /\ {subs', failed'} \subseteq SUBSET Tracks
         /\ t \in audio => t \in subs' \cup failed'
  <1>1. CASE t \notin audio /\ UNCHANGED <<subs, failed>>
    BY Zenon, <1>1 DEF TypeOK
  <1>2. CASE t \in audio /\ subs' = subs \cup {t} /\ UNCHANGED failed
    BY Zenon, <1>2 DEF TypeOK
  <1>3. CASE t \in audio /\ failed' = failed \cup {t} /\ UNCHANGED subs
    BY Zenon, <1>3 DEF TypeOK
  <1> QED BY <1>1, <1>2, <1>3, Zenon DEF subscribeTo

(* A step that touches neither the session nor the handle.                 *)
LEMMA SessionFrame ==
  ASSUME SessionInv, UNCHANGED <<call, sess, sid, sdk, handle, losses, prev,
           stopped>>
  PROVE  SessionInv'
  BY Zenon DEF SessionInv

(* A step that touches nothing CloseWithReason and Connect share.          *)
LEMMA CloseFrame ==
  ASSUME CloseInv, UNCHANGED <<close, once, closed, call, handle, sess, ready,
           late>>
  PROVE  CloseInv'
  BY Zenon DEF CloseInv, BodyDone

(* A step that subscribes to nothing, and starts nothing that would.       *)
LEMMA OpenFrame ==
  ASSUME OpenInv, UNCHANGED <<call, ready, subs, failed, subscribed, subscribe,
           resub, event>>
  PROVE  OpenInv'
  BY Zenon DEF OpenInv

(* A step that touches no track and no recovery.                           *)
LEMMA TrackFrame ==
  ASSUME TrackInv, UNCHANGED <<audio, published, once, sess, subscribe, subs,
           failed, event, call, todo, resub, sid, sdk, prev, resumed>>
  PROVE  TrackInv'
  BY Zenon DEF TrackInv, Pending

(* A step before Subscribe: nobody has to subscribe yet.                   *)
LEMMA EarlyTrack ==
  ASSUME OpenInv, TrackInv, call \notin Open, subscribe' => subscribe,
         UNCHANGED <<audio, published>>
  PROVE  TrackInv'
  BY Zenon DEF OpenInv, TrackInv

(* A step that leaves the cached participant and its session alone.        *)
LEMMA PidFrame ==
  ASSUME PidInv, UNCHANGED <<handle, sess, call, pid, sid, overlap, sdk>>
  PROVE  PidInv'
  BY Zenon DEF PidInv

(* The flags that the goroutine of a new session assigns stay Boolean.     *)
LEMMA ResubscriberFlags ==
  ASSUME TypeOK, NEW n \in Sessions, Resubscriber(n)
  PROVE  {closed', handle', overlap', subscribe', ready', subscribed',
          stopped', resumed', recovering', late'}
           \subseteq BOOLEAN
  <1>1. \A x \in {closed, handle, overlap, subscribe, ready, subscribed,
                   stopped, resumed, recovering, late} : x \in BOOLEAN
    BY Zenon DEF TypeOK
  <1> QED
    BY <1>1, ZenonT(60) DEF Resubscriber, resubscribeAfterReconnect,
         ResubscribeLists, ResubscribeTracks, subscribeAll, subscribeNext,
         subscribeTo

(* resubscribeAfterReconnect keeps it: it gives up only in a room that is  *)
(* closed or was left, and goes through every track it listed.             *)
LEMMA ResubscriberStep ==
  ASSUME IInv, NEW n \in Sessions, Resubscriber(n)
  PROVE  IInv'
  <1> TypeOK /\ SessionInv /\ CloseInv /\ OpenInv /\ TrackInv /\ PidInv
    BY Zenon DEF IInv
  <1>f. {closed', handle', overlap', subscribe', ready', subscribed',
          stopped', resumed', recovering', late'}
          \subseteq BOOLEAN
    BY Zenon, ResubscriberFlags
  <1>1. CASE resubscribeAfterReconnect(n)
    <2>1. TypeOK'
      BY <1>1, <1>f DEF resubscribeAfterReconnect, TypeOK
    <2>2. OpenInv'
      BY Zenon, <1>1 DEF resubscribeAfterReconnect, OpenInv, Open, TypeOK
    <2>3. TrackInv'
      <3>1. ASSUME once = "none", sess \in {"up", "down"}
            PROVE  resub'[n] = "list"
        <4>1. ~closed /\ ~stopped
          BY Zenon, <3>1 DEF CloseInv, SessionInv
        <4>2. resub' = [resub EXCEPT ![n] = "list"]
          BY <1>1, <4>1, Zenon DEF resubscribeAfterReconnect
        <4> QED BY Zenon, <4>2 DEF TypeOK
      <3>2. \A m \in Sessions : m # n => resub'[m] = resub[m]
        BY Zenon, <1>1 DEF resubscribeAfterReconnect, TypeOK
      <3>3. sess \in {"up", "down"} => sid \in Sessions
        BY Zenon, Numbers DEF SessionInv
      <3> QED
        BY <1>1, <3>1, <3>2, <3>3 DEF resubscribeAfterReconnect, TrackInv,
             Pending
    <2>4. SessionInv' /\ CloseInv' /\ PidInv'
      BY Zenon, <1>1, SessionFrame, CloseFrame, PidFrame DEF
           resubscribeAfterReconnect
    <2> QED BY Zenon, <2>1, <2>2, <2>3, <2>4 DEF IInv
  <1>2. CASE ResubscribeLists(n)
    <2>1. TypeOK'
      BY <1>2, <1>f DEF ResubscribeLists, subscribeAll, TypeOK
    <2>2. OpenInv'
      BY Zenon, <1>2 DEF ResubscribeLists, subscribeAll, OpenInv, Open, TypeOK
    <2>3. TrackInv'
      BY <1>2 DEF ResubscribeLists, subscribeAll, TrackInv, Pending, TypeOK
    <2>4. SessionInv' /\ CloseInv' /\ PidInv'
      BY Zenon, <1>2, SessionFrame, CloseFrame, PidFrame DEF ResubscribeLists,
           subscribeAll
    <2> QED BY Zenon, <2>1, <2>2, <2>3, <2>4 DEF IInv
  <1>3. CASE ResubscribeTracks(n)

    <2>0. /\ resub[n] = "tracks"
          /\ UNCHANGED <<callVars, closeVars, sdkVars, roomVars, published,
               audio, event, sip, mixed>>
      BY Zenon, <1>3 DEF ResubscribeTracks, subscribeNext
    <2>t. \/ /\ todo[n] = {} /\ resub' = [resub EXCEPT ![n] = "done"]
             /\ UNCHANGED <<subs, failed, subscribed, todo>>
          \/ \E t \in todo[n] \cap Tracks :
               resub' = resub /\ subscribeTo(t)
                 /\ todo' = [todo EXCEPT ![n] = todo[n] \ {t}]
      BY Zenon, <1>3 DEF ResubscribeTracks, subscribeNext
    <2>s. /\ subs \subseteq subs' /\ failed \subseteq failed'
          /\ {subs', failed'} \subseteq SUBSET Tracks
          /\ todo' \in [{0} \cup Sessions -> SUBSET Tracks]
          /\ resub' \in [Sessions ->
                           {"none", "start", "list", "tracks", "done"}]
          /\ \A m \in {0} \cup Sessions : m # n => todo'[m] = todo[m]
          /\ \A m \in Sessions : m # n => resub'[m] = resub[m]
          /\ \A u \in audio \cap todo[n] :
               \/ u \in subs' \cup failed'
               \/ resub'[n] = "tracks" /\ u \in todo'[n]
      <3>1. CASE /\ todo[n] = {} /\ resub' = [resub EXCEPT ![n] = "done"]
                 /\ UNCHANGED <<subs, failed, subscribed, todo>>
        BY Zenon, <3>1 DEF TypeOK
      <3>2. ASSUME NEW t \in todo[n] \cap Tracks, resub' = resub,
                   subscribeTo(t), todo' = [todo EXCEPT ![n] = todo[n] \ {t}]
            PROVE  /\ subs \subseteq subs' /\ failed \subseteq failed'
                   /\ {subs', failed'} \subseteq SUBSET Tracks
                   /\ todo' \in [{0} \cup Sessions -> SUBSET Tracks]
                   /\ resub' \in [Sessions ->
                                 {"none", "start", "list", "tracks", "done"}]
                   /\ \A m \in {0} \cup Sessions : m # n => todo'[m] = todo[m]
                   /\ \A m \in Sessions : m # n => resub'[m] = resub[m]
                   /\ \A u \in audio \cap todo[n] :
                        \/ u \in subs' \cup failed'
                        \/ resub'[n] = "tracks" /\ u \in todo'[n]
        <4>1. /\ subs \subseteq subs' /\ failed \subseteq failed'
              /\ {subs', failed'} \subseteq SUBSET Tracks
              /\ t \in audio => t \in subs' \cup failed'
          BY Zenon, <3>2, SubscribeTo
        <4> QED BY Zenon, <2>0, <3>2, <4>1 DEF TypeOK
      <3> QED BY <2>t, <3>1, <3>2, Zenon
    <2>1. TypeOK'
      BY <1>f, <2>0, <2>s DEF TypeOK
    <2>2. SessionInv'
      BY Zenon, <2>0 DEF SessionInv
    <2>3. CloseInv'
      BY Zenon, <2>0 DEF CloseInv, BodyDone, Stored
    <2>4. OpenInv'
      BY Zenon, <2>0 DEF OpenInv, Open
    <2>5. TrackInv'
      <3>1. sess \in {"up", "down"} => sid \in Sessions
        BY Zenon, Numbers DEF SessionInv
      <3>2. todo'[0] = todo[0]
        BY Zenon, <2>s, Numbers
      <3>3. ASSUME sid \in Sessions, NEW u \in audio, Pending(u)
            PROVE  u \in subs' \cup failed' \/ Pending(u)'
        <4>1. CASE sid = n
          <5>1. \/ u \notin todo[n] \/ u \in subs' \cup failed'
                \/ resub'[n] = "tracks" /\ u \in todo'[n]
            BY <2>s, <3>3, Zenon
          <5>2. /\ resub[sid] \notin {"start", "list"}
                /\ UNCHANGED <<event, call, sid, sdk, prev, resumed>>
            BY Zenon, <2>0, <4>1
          <5> QED BY <3>2, <3>3, <4>1, <5>1, <5>2, Zenon DEF Pending
        <4>2. CASE sid # n
          <5>1. resub'[sid] = resub[sid] /\ todo'[sid] = todo[sid]
            BY <2>s, <3>3, <4>2, Zenon
          <5>2. UNCHANGED <<event, call, sid, sdk, prev, resumed>>
            BY Zenon, <2>0
          <5> QED BY <3>2, <3>3, <5>1, <5>2, Zenon DEF Pending
        <4> QED BY Zenon, <4>1, <4>2
      <3> QED BY Zenon, <2>0, <2>s, <3>1, <3>3 DEF TrackInv
    <2>6. PidInv'
      BY Zenon, <2>0 DEF PidInv, Stored
    <2> QED BY Zenon, <2>1, <2>2, <2>3, <2>4, <2>5, <2>6 DEF IInv
  <1> QED
    BY Zenon, <1>1, <1>2, <1>3 DEF Resubscriber

(* The flags that CloseWithReason assigns stay Boolean.                    *)
LEMMA CloserFlags ==
  ASSUME TypeOK, NEW p \in Callers, Closer(p) \/ ClosedBreaks
  PROVE  {closed', handle', overlap', subscribe', ready', subscribed',
          stopped', resumed', recovering', late'}
           \subseteq BOOLEAN
  <1>1. \A x \in {closed, handle, overlap, subscribe, ready, subscribed,
                   stopped, resumed, recovering, late} : x \in BOOLEAN
    BY Zenon DEF TypeOK
  <1> QED
    BY <1>1, ZenonT(60) DEF Closer, CloseWithReason, ClosedBreaks, CloseOutput,
         CloseRoom

(* CloseWithReason keeps it: one caller runs the body, which leaves the    *)
(* session if Connect has stored it.                                       *)
LEMMA CloserStep ==
  ASSUME IInv, NEW p \in Callers, Closer(p) \/ ClosedBreaks
  PROVE  IInv'
  <1> TypeOK /\ SessionInv /\ CloseInv /\ OpenInv /\ TrackInv /\ PidInv
    BY Zenon DEF IInv
  <1>f. {closed', handle', overlap', subscribe', ready', subscribed',
          stopped', resumed', recovering', late'}
          \subseteq BOOLEAN
    BY Zenon, CloserFlags
  <1>1. CASE CloseWithReason(p)
    <2>1. TypeOK'
      BY ZenonT(30), <1>1, <1>f DEF CloseWithReason, TypeOK
    <2>2. SessionInv'
      BY Zenon, <1>1 DEF CloseWithReason, SessionInv
    <2>3. CloseInv'
      BY <1>1 DEF CloseWithReason, CloseInv, BodyDone, Stored, TypeOK, Callers
    <2>4. OpenInv'
      BY Zenon, <1>1 DEF CloseWithReason, OpenInv, Open
    <2>5. TrackInv'
      BY Zenon, <1>1 DEF CloseWithReason, TrackInv, Pending, Callers
    <2>6. PidInv'
      BY Zenon, <1>1 DEF CloseWithReason, PidInv, Stored
    <2> QED BY Zenon, <2>1, <2>2, <2>3, <2>4, <2>5, <2>6 DEF IInv
  <1>2. CASE ClosedBreaks
    <2>1. TypeOK'
      BY <1>2, <1>f DEF ClosedBreaks, TypeOK
    <2>2. CloseInv'
      BY Zenon, <1>2 DEF ClosedBreaks, CloseInv, BodyDone, Stored
    <2>3. SessionInv' /\ OpenInv' /\ TrackInv' /\ PidInv'
      BY Zenon, <1>2, SessionFrame, OpenFrame, TrackFrame, PidFrame DEF
           ClosedBreaks
    <2> QED BY Zenon, <2>1, <2>2, <2>3 DEF IInv
  <1>3. CASE CloseOutput(p)
    <2>1. TypeOK'
      BY <1>3, <1>f DEF CloseOutput, TypeOK
    <2>2. CloseInv'
      BY <1>3 DEF CloseOutput, CloseInv, BodyDone, Stored, TypeOK, Callers
    <2>3. OpenInv'
      BY Zenon, <1>3 DEF CloseOutput, OpenInv, Open
    <2>4. TrackInv'
      BY Zenon, <1>3 DEF CloseOutput, TrackInv, Pending
    <2>5. SessionInv' /\ PidInv'
      BY Zenon, <1>3, SessionFrame, PidFrame DEF CloseOutput
    <2> QED BY Zenon, <2>1, <2>2, <2>3, <2>4, <2>5 DEF IInv
  <1>4. CASE CloseRoom(p)

    <2>0. /\ close[p] = "room" /\ close' = [close EXCEPT ![p] = "done"]
          /\ ~handle' /\ closed'
          /\ UNCHANGED <<callVars, once, sid, losses, sdk, prev, resumed,
               recovering, published, audio, event, sip, subs, failed,
               subscribed, subVars, pid, subscribe, ready, late>>
      BY <1>4, Zenon DEF CloseRoom
    <2>h. \/ handle /\ sess' = "left" /\ mixed' = {}
          \/ ~handle /\ UNCHANGED <<sess, mixed, stopped>>
      BY <1>4, Zenon DEF CloseRoom
    <2>o. once = p /\ close' \in [Callers -> {"idle", "flag", "room", "done"}]
      BY Zenon, <2>0 DEF CloseInv, TypeOK
    <2>1. TypeOK'
      <3>1. /\ sess' \in {"none", "up", "down", "left"}
            /\ mixed' \in SUBSET Tracks
        BY Zenon, <2>h DEF TypeOK
      <3> QED BY <1>f, <2>0, <2>o, <3>1 DEF TypeOK
    <2>2. SessionInv'
      BY <2>0, <2>h DEF SessionInv
    <2>3. CloseInv'
      <3>1. /\ close'[p] = "done"
            /\ \A q \in Callers : q # p => close'[q] = close[q]
        BY Zenon, <2>0 DEF TypeOK
      <3>2. BodyDone'
        BY Zenon, <2>0, <2>o, <3>1 DEF BodyDone
      <3>3. ~BodyDone
        BY Zenon, <2>0, <2>o DEF BodyDone
      <3>4. \/ sess' \in {"none", "left"}
            \/ call \in {"idle", "join", "store"}
        BY Zenon, <2>h, <3>3 DEF CloseInv
      <3>5. once \in Callers /\ once # "none"
        BY Zenon, <2>o DEF Callers
      <3> QED BY Zenon, <2>0, <2>o, <3>1, <3>2, <3>4, <3>5 DEF CloseInv,
           Callers
    <2>4. OpenInv'
      BY Zenon, <2>0 DEF OpenInv
    <2>5. TrackInv'
      BY Zenon, <2>0, <2>o DEF TrackInv, Callers
    <2>6. PidInv'
      BY Zenon, <2>0 DEF PidInv
    <2> QED BY Zenon, <2>1, <2>2, <2>3, <2>4, <2>5, <2>6 DEF IInv
  <1> QED
    BY Zenon, <1>1, <1>2, <1>3, <1>4 DEF Closer

(* The flags that the callbacks assign stay Boolean.                       *)
LEMMA CallbackFlags ==
  ASSUME TypeOK, Callbacks
  PROVE  {closed', handle', overlap', subscribe', ready', subscribed',
          stopped', resumed', recovering', late'}
           \subseteq BOOLEAN
  <1>1. \A x \in {closed, handle, overlap, subscribe, ready, subscribed,
                   stopped, resumed, recovering, late} : x \in BOOLEAN
    BY Zenon DEF TypeOK
  <1> QED
    BY <1>1, ZenonT(60) DEF Callbacks, OnTrackPublished,
         OnTrackPublishedSubscribes, OnTrackSubscribed, OnParticipantConnected,
         onReconnecting, onReconnected, onReconnectedRefreshes,
         onReconnectedSubscribes, subscribeTo

(* The callbacks keep it.  onReconnected leaves what it has still to do    *)
(* behind in resumed: a session that was replaced is subscribed again.     *)
LEMMA CallbackStep ==
  ASSUME IInv, Callbacks
  PROVE  IInv'
  <1> TypeOK /\ SessionInv /\ CloseInv /\ OpenInv /\ TrackInv /\ PidInv
    BY Zenon DEF IInv
  <1>f. {closed', handle', overlap', subscribe', ready', subscribed',
          stopped', resumed', recovering', late'}
          \subseteq BOOLEAN
    BY Zenon, CallbackFlags
  <1>1. CASE \E t \in Tracks : OnTrackPublished(t)
    <2>1. TypeOK'
      BY <1>1, <1>f DEF OnTrackPublished, TypeOK
    <2>2. OpenInv'
      BY <1>1 DEF OnTrackPublished, OpenInv, Open, TypeOK
    <2>3. TrackInv'
      BY <1>1 DEF OnTrackPublished, TrackInv, Pending, TypeOK
    <2>4. SessionInv' /\ CloseInv' /\ PidInv'
      BY Zenon, <1>1, SessionFrame, CloseFrame, PidFrame DEF OnTrackPublished
    <2> QED BY Zenon, <2>1, <2>2, <2>3, <2>4 DEF IInv
  <1>2. CASE \E t \in Tracks : OnTrackPublishedSubscribes(t)
    <2>1. TypeOK'
      <3> PICK t \in Tracks : OnTrackPublishedSubscribes(t)
        BY Zenon, <1>2
      <3>1. {subs', failed'} \subseteq SUBSET Tracks
        BY Zenon, SubscribeTo DEF OnTrackPublishedSubscribes
      <3>2. /\ event' = [event EXCEPT ![t] = "none"]
            /\ UNCHANGED <<callVars, closeVars, sdkVars, published, audio, sip,
                 mixed, subVars, roomVars>>
        BY Zenon DEF OnTrackPublishedSubscribes
      <3> QED BY <1>f, <3>1, <3>2 DEF TypeOK
    <2>2. OpenInv'
      BY <1>2 DEF OnTrackPublishedSubscribes, subscribeTo, OpenInv, Open,
           TypeOK
    <2>3. TrackInv'
      <3> PICK t \in Tracks : OnTrackPublishedSubscribes(t)
        BY Zenon, <1>2
      <3>1. /\ subs \subseteq subs' /\ failed \subseteq failed'
            /\ t \in audio => t \in subs' \cup failed'
        BY Zenon, SubscribeTo DEF OnTrackPublishedSubscribes
      <3>2. /\ event' = [event EXCEPT ![t] = "none"]
            /\ UNCHANGED <<callVars, closeVars, sdkVars, published, audio, sip,
                 mixed, subVars, roomVars>>
        BY Zenon DEF OnTrackPublishedSubscribes
      <3>3. \A u \in Tracks : u # t => event'[u] = event[u]
        BY Zenon, <3>2 DEF TypeOK
      <3>4. audio \subseteq Tracks
        BY Zenon DEF TypeOK
      <3>5. \A u \in Tracks : u # t /\ Pending(u) => Pending(u)'
        BY Zenon, <3>2, <3>3 DEF Pending
      <3> QED BY Zenon, <3>1, <3>2, <3>4, <3>5 DEF TrackInv
    <2>4. SessionInv' /\ CloseInv' /\ PidInv'
      BY Zenon, <1>2, SessionFrame, CloseFrame, PidFrame DEF
           OnTrackPublishedSubscribes, subscribeTo
    <2> QED BY Zenon, <2>1, <2>2, <2>3, <2>4 DEF IInv
  <1>3. CASE \E t \in Tracks : OnTrackSubscribed(t)
    <2>1. TypeOK'
      BY <1>3, <1>f DEF OnTrackSubscribed, TypeOK
    <2>2. SessionInv' /\ CloseInv' /\ OpenInv' /\ TrackInv' /\ PidInv'
      BY Zenon, <1>3, SessionFrame, CloseFrame, OpenFrame, TrackFrame,
           PidFrame DEF OnTrackSubscribed
    <2> QED BY Zenon, <2>1, <2>2 DEF IInv
  <1>4. CASE OnParticipantConnected
    <2>1. TypeOK'
      BY <1>4, <1>f DEF OnParticipantConnected, TypeOK
    <2>2. OpenInv'
      <3>1. subscribed' => subscribed \/ subscribe
        BY <1>4, Zenon DEF OnParticipantConnected
      <3> QED BY Zenon, <1>4, <3>1 DEF OnParticipantConnected, OpenInv, Open
    <2>3. SessionInv' /\ CloseInv' /\ TrackInv' /\ PidInv'
      BY Zenon, <1>4, SessionFrame, CloseFrame, TrackFrame, PidFrame DEF
           OnParticipantConnected
    <2> QED BY Zenon, <2>1, <2>2, <2>3 DEF IInv
  <1>5. CASE onReconnecting
    <2>1. TypeOK'
      BY <1>5, <1>f DEF onReconnecting, TypeOK
    <2>2. SessionInv'
      BY <1>5, Numbers DEF onReconnecting, SessionInv
    <2>3. TrackInv'
      BY Zenon, <1>5 DEF onReconnecting, TrackInv, Pending
    <2>4. PidInv'
      BY Zenon, <1>5 DEF onReconnecting, PidInv, Stored
    <2>5. CloseInv' /\ OpenInv'
      BY Zenon, <1>5, CloseFrame, OpenFrame DEF onReconnecting
    <2> QED BY Zenon, <2>1, <2>2, <2>3, <2>4, <2>5 DEF IInv
  <1>6. CASE onReconnected
    <2>1. TypeOK'
      BY <1>6, <1>f DEF onReconnected, TypeOK
    <2>2. SessionInv'
      BY Zenon, <1>6 DEF onReconnected, SessionInv
    <2>3. TrackInv'
      <3>1. ASSUME once' = "none", subscribe'
            PROVE  handle
        BY Zenon, <1>6, <3>1 DEF onReconnected, OpenInv, CloseInv
      <3>2. handle => sdk' = "refresh" /\ (resumed' => prev = sid)
        BY <1>6, Zenon DEF onReconnected
      <3>3. handle => \A t \in Tracks : Pending(t) => Pending(t)'
        BY Zenon, <1>6, <3>2 DEF onReconnected, Pending
      <3>4. audio \subseteq Tracks
        BY Zenon DEF TypeOK
      <3> QED BY Zenon, <1>6, <3>1, <3>3, <3>4 DEF onReconnected, TrackInv
    <2>4. PidInv'
      BY Zenon, <1>6 DEF onReconnected, PidInv, Stored
    <2>5. CloseInv' /\ OpenInv'
      BY Zenon, <1>6, CloseFrame, OpenFrame DEF onReconnected
    <2> QED BY Zenon, <2>1, <2>2, <2>3, <2>4, <2>5 DEF IInv
  <1>7. CASE onReconnectedRefreshes
    <2>1. TypeOK'
      BY <1>7, <1>f DEF onReconnectedRefreshes, TypeOK
    <2>2. SessionInv'
      BY Zenon, <1>7 DEF onReconnectedRefreshes, SessionInv
    <2>3. TrackInv'
      BY Zenon, <1>7 DEF onReconnectedRefreshes, TrackInv, Pending
    <2>4. PidInv'
      BY Zenon, <1>7 DEF onReconnectedRefreshes, PidInv, Stored
    <2>5. CloseInv' /\ OpenInv'
      BY Zenon, <1>7, CloseFrame, OpenFrame DEF onReconnectedRefreshes
    <2> QED BY Zenon, <2>1, <2>2, <2>3, <2>4, <2>5 DEF IInv
  <1>8. CASE onReconnectedSubscribes
    <2>1. TypeOK'
      <3>1. resub' \in [Sessions -> {"none", "start", "list", "tracks",
                                      "done"}]
        <4>1. CASE resub' = resub
          BY Zenon, <4>1 DEF TypeOK
        <4>2. CASE resub' = [resub EXCEPT ![sid] = "start"]
          <5>1. resub \in [Sessions -> {"none", "start", "list", "tracks",
                                        "done"}]
            BY Zenon DEF TypeOK
          <5>2. sid \in Sessions
            BY Zenon, <1>8, Numbers DEF onReconnectedSubscribes, SessionInv
          <5> QED BY Zenon, <4>2, <5>1, <5>2
        <4> QED BY <1>8, <4>1, <4>2, Zenon DEF onReconnectedSubscribes
      <3> QED BY ZenonT(30), <1>8, <1>f, <3>1 DEF onReconnectedSubscribes, TypeOK
    <2>2. SessionInv'
      BY Zenon, <1>8 DEF onReconnectedSubscribes, SessionInv
    <2>3. OpenInv'
      BY Zenon, <1>8 DEF onReconnectedSubscribes, OpenInv, Open, TypeOK
    <2>4. TrackInv'
      <3>1. \/ resub' = resub /\ (resumed \/ ~subscribe)
            \/ resub' = [resub EXCEPT ![sid] = "start"]
        BY <1>8, Zenon DEF onReconnectedSubscribes
      <3>2. sess \in {"up", "down"} => sid \in Sessions
        BY Zenon, Numbers DEF SessionInv
      <3>3. ASSUME subscribe, sess \in {"up", "down"}, NEW t \in Tracks,
                   Pending(t)
            PROVE  Pending(t)'
        <4>1. CASE resub' = resub /\ resumed
          BY Zenon, <1>8, <3>3, <4>1 DEF onReconnectedSubscribes, Pending
        <4>2. CASE resub' = [resub EXCEPT ![sid] = "start"]
          <5>1. resub'[sid] = "start" /\ sid' = sid
            BY Zenon, <1>8, <3>2, <3>3, <4>2 DEF onReconnectedSubscribes,
                 TypeOK
          <5> QED BY Zenon, <5>1 DEF Pending
        <4> QED BY Zenon, <3>1, <3>3, <4>1, <4>2
      <3>4. /\ audio \subseteq Tracks
            /\ UNCHANGED <<once, sess, subscribe, audio, published, subs,
                           failed>>
        BY Zenon, <1>8 DEF onReconnectedSubscribes, TypeOK
      <3> QED BY Zenon, <3>3, <3>4 DEF TrackInv
    <2>5. PidInv'
      BY Zenon, <1>8 DEF onReconnectedSubscribes, PidInv, Stored
    <2>6. CloseInv'
      BY Zenon, <1>8, CloseFrame DEF onReconnectedSubscribes
    <2> QED BY Zenon, <2>1, <2>2, <2>3, <2>4, <2>5, <2>6 DEF IInv
  <1> QED
    BY Zenon, <1>1, <1>2, <1>3, <1>4, <1>5, <1>6, <1>7, <1>8 DEF Callbacks

(* The flags that the server and the SDK assign stay Boolean.              *)
LEMMA ServerFlags ==
  ASSUME TypeOK, Server
  PROVE  {closed', handle', overlap', subscribe', ready', subscribed',
          stopped', resumed', recovering', late'}
           \subseteq BOOLEAN
  <1>1. \A x \in {closed, handle, overlap, subscribe, ready, subscribed,
                   stopped, resumed, recovering, late} : x \in BOOLEAN
    BY Zenon DEF TypeOK
  <1> QED
    BY <1>1, ZenonT(60) DEF Server, Publish, SipJoins, SignalLost, Resumes,
         Reconnects, OnDisconnected

(* The server and the SDK keep it.  A new session forgets every            *)
(* subscription, and its SID differs from the one onReconnecting kept.     *)
LEMMA ServerStep ==
  ASSUME IInv, Server
  PROVE  IInv'
  <1> TypeOK /\ SessionInv /\ CloseInv /\ OpenInv /\ TrackInv /\ PidInv
    BY Zenon DEF IInv
  <1>f. {closed', handle', overlap', subscribe', ready', subscribed',
          stopped', resumed', recovering', late'}
          \subseteq BOOLEAN
    BY Zenon, ServerFlags
  <1>1. CASE \E t \in Tracks : Publish(t)
    <2>1. TypeOK'
      BY <1>1, <1>f DEF Publish, TypeOK
    <2>2. OpenInv'
      BY <1>1 DEF Publish, OpenInv, Open, TypeOK
    <2>3. TrackInv'
      BY <1>1 DEF Publish, TrackInv, Pending, TypeOK
    <2>4. SessionInv' /\ CloseInv' /\ PidInv'
      BY Zenon, <1>1, SessionFrame, CloseFrame, PidFrame DEF Publish
    <2> QED BY Zenon, <2>1, <2>2, <2>3, <2>4 DEF IInv
  <1>2. CASE SipJoins
    <2>1. TypeOK'
      BY ZenonT(30), <1>2, <1>f DEF SipJoins, TypeOK
    <2>2. SessionInv' /\ CloseInv' /\ OpenInv' /\ TrackInv' /\ PidInv'
      BY Zenon, <1>2, SessionFrame, CloseFrame, OpenFrame, TrackFrame,
           PidFrame DEF SipJoins
    <2> QED BY Zenon, <2>1, <2>2 DEF IInv
  <1>3. CASE SignalLost
    <2>1. TypeOK'
      BY <1>3, <1>f, Numbers DEF SignalLost, TypeOK
    <2>2. SessionInv'
      BY <1>3, Numbers DEF SignalLost, SessionInv
    <2>3. CloseInv'
      BY Zenon, <1>3 DEF SignalLost, CloseInv, BodyDone, Stored
    <2>4. TrackInv'
      BY Zenon, <1>3 DEF SignalLost, TrackInv, Pending
    <2>5. PidInv'
      BY Zenon, <1>3 DEF SignalLost, PidInv, Stored
    <2>6. OpenInv'
      BY Zenon, <1>3, OpenFrame DEF SignalLost
    <2> QED BY Zenon, <2>1, <2>2, <2>3, <2>4, <2>5, <2>6 DEF IInv
  <1>4. CASE Resumes
    <2>1. TypeOK'
      BY Zenon, <1>4, <1>f DEF Resumes, TypeOK
    <2>2. SessionInv'
      BY Zenon, <1>4 DEF Resumes, SessionInv
    <2>3. CloseInv'
      BY Zenon, <1>4 DEF Resumes, CloseInv, BodyDone, Stored
    <2>4. TrackInv'
      BY Zenon, <1>4 DEF Resumes, TrackInv, Pending
    <2>5. PidInv'
      BY Zenon, <1>4 DEF Resumes, PidInv, Stored
    <2>6. OpenInv'
      BY Zenon, <1>4, OpenFrame DEF Resumes
    <2> QED BY Zenon, <2>1, <2>2, <2>3, <2>4, <2>5, <2>6 DEF IInv
  <1>5. CASE Reconnects
    <2>1. TypeOK'
      <3>1. sid' \in Sessions
        BY <1>5, Numbers DEF Reconnects, SessionInv
      <3> QED BY <1>5, <1>f, <3>1 DEF Reconnects, TypeOK
    <2>2. SessionInv'
      BY <1>5, Numbers DEF Reconnects, SessionInv
    <2>3. CloseInv'
      BY Zenon, <1>5 DEF Reconnects, CloseInv, BodyDone, Stored
    <2>4. OpenInv'
      BY Zenon, <1>5 DEF Reconnects, OpenInv, Open
    <2>5. TrackInv'
      <3>1. sdk' = "recovered" /\ prev' # sid'
        BY <1>5, Numbers DEF Reconnects, SessionInv
      <3> QED BY Zenon, <1>5, <3>1 DEF Reconnects, TrackInv, Pending
    <2>6. PidInv'
      BY Zenon, <1>5 DEF Reconnects, PidInv, Stored
    <2> QED BY Zenon, <2>1, <2>2, <2>3, <2>4, <2>5, <2>6 DEF IInv
  <1>6. CASE OnDisconnected
    <2>1. TypeOK'
      BY Zenon, <1>6, <1>f DEF OnDisconnected, TypeOK
    <2>2. SessionInv'
      BY Zenon, <1>6 DEF OnDisconnected, SessionInv
    <2>3. CloseInv'
      BY Zenon, <1>6 DEF OnDisconnected, CloseInv, BodyDone, Stored
    <2>4. TrackInv'
      BY Zenon, <1>6 DEF OnDisconnected, TrackInv, Pending
    <2>5. PidInv'
      BY Zenon, <1>6 DEF OnDisconnected, PidInv, Stored
    <2>6. OpenInv'
      BY Zenon, <1>6, OpenFrame DEF OnDisconnected
    <2> QED BY Zenon, <2>1, <2>2, <2>3, <2>4, <2>5, <2>6 DEF IInv
  <1> QED
    BY Zenon, <1>1, <1>2, <1>3, <1>4, <1>5, <1>6 DEF Server

(* The flags that the goroutine of the call assigns stay Boolean.          *)
LEMMA CallFlags ==
  ASSUME TypeOK, CallSteps
  PROVE  {closed', handle', overlap', subscribe', ready', subscribed',
          stopped', resumed', recovering', late'}
           \subseteq BOOLEAN
  <1>1. \A x \in {closed, handle, overlap, subscribe, ready, subscribed,
                   stopped, resumed, recovering, late} : x \in BOOLEAN
    BY Zenon DEF TypeOK
  <1> QED
    BY <1>1, ZenonT(60) DEF CallSteps, Connect, ConnectFails, Joined,
         StoreRoom, setParticipantReads, setParticipantStores, ConnectReturns,
         NewParticipantTrack, Subscribe, SubscribeFlag, SubscribeLists,
         SubscribeTracks, CallEnds, subscribeAll, subscribeNext, subscribeTo

(* Connect, NewParticipantTrack and Subscribe keep the invariant: a track  *)
(* that is published before Subscribe sets its flag is in the list it goes *)
(* through next, and one published after it has a callback that sees the   *)
(* flag.                                                                   *)
LEMMA CallStep ==
  ASSUME IInv, CallSteps
  PROVE  IInv'
  <1> TypeOK /\ SessionInv /\ CloseInv /\ OpenInv /\ TrackInv /\ PidInv
    BY Zenon DEF IInv
  <1>f. {closed', handle', overlap', subscribe', ready', subscribed',
          stopped', resumed', recovering', late'}
          \subseteq BOOLEAN
    BY Zenon, CallFlags
  <1>1. CASE Connect
    <2>1. TypeOK'
      BY <1>1, <1>f DEF Connect, TypeOK
    <2>2. SessionInv'
      BY Zenon, <1>1 DEF Connect, SessionInv
    <2>3. CloseInv'
      BY Zenon, <1>1 DEF Connect, CloseInv, BodyDone, Stored
    <2>4. OpenInv'
      BY Zenon, <1>1 DEF Connect, OpenInv, Open
    <2>5. TrackInv'
      BY Zenon, <1>1, EarlyTrack DEF Connect, Open
    <2>6. PidInv'
      BY Zenon, <1>1 DEF Connect, PidInv, Stored
    <2> QED BY Zenon, <2>1, <2>2, <2>3, <2>4, <2>5, <2>6 DEF IInv
  <1>2. CASE ConnectFails
    <2>1. TypeOK'
      BY Zenon, <1>2, <1>f DEF ConnectFails, TypeOK
    <2>2. SessionInv'
      BY Zenon, <1>2 DEF ConnectFails, SessionInv
    <2>3. CloseInv'
      BY Zenon, <1>2 DEF ConnectFails, CloseInv, BodyDone, Stored, SessionInv
    <2>4. OpenInv'
      BY Zenon, <1>2 DEF ConnectFails, OpenInv, Open
    <2>5. TrackInv'
      BY Zenon, <1>2, EarlyTrack DEF ConnectFails, Open
    <2>6. PidInv'
      BY Zenon, <1>2 DEF ConnectFails, PidInv, Stored
    <2> QED BY Zenon, <2>1, <2>2, <2>3, <2>4, <2>5, <2>6 DEF IInv
  <1>3. CASE Joined
    <2>1. TypeOK'
      BY <1>3, <1>f, Numbers DEF Joined, TypeOK
    <2>2. SessionInv'
      BY <1>3, Numbers DEF Joined, SessionInv
    <2>3. CloseInv'
      BY Zenon, <1>3 DEF Joined, CloseInv, BodyDone, Stored
    <2>4. OpenInv'
      BY Zenon, <1>3 DEF Joined, OpenInv, Open
    <2>5. TrackInv'
      BY Zenon, <1>3, EarlyTrack DEF Joined, Open
    <2>6. PidInv'
      BY Zenon, <1>3 DEF Joined, PidInv, Stored
    <2> QED BY Zenon, <2>1, <2>2, <2>3, <2>4, <2>5, <2>6 DEF IInv
  <1>4. CASE StoreRoom
    <2>1. TypeOK'
      BY Zenon, <1>4, <1>f DEF StoreRoom, TypeOK
    <2>2. SessionInv'
      BY Zenon, <1>4 DEF StoreRoom, SessionInv
    <2>3. CloseInv'
      <3>1. handle' /\ (BodyDone => late')
        BY <1>4, Zenon DEF StoreRoom, BodyDone
      <3>2. BodyDone' <=> BodyDone
        BY Zenon, <1>4 DEF StoreRoom, BodyDone
      <3>3. call' = "participant" /\ UNCHANGED <<close, once, closed, sess>>
        BY Zenon, <1>4 DEF StoreRoom
      <3>4. call = "store" /\ call # "done"
        BY Zenon, <1>4 DEF StoreRoom
      <3> QED BY Zenon, <3>1, <3>2, <3>3, <3>4 DEF CloseInv, Stored
    <2>4. OpenInv'
      BY Zenon, <1>4 DEF StoreRoom, OpenInv, Open
    <2>5. TrackInv'
      BY Zenon, <1>4, EarlyTrack DEF StoreRoom, Open
    <2>6. PidInv'
      BY Zenon, <1>4 DEF StoreRoom, PidInv, Stored
    <2> QED BY Zenon, <2>1, <2>2, <2>3, <2>4, <2>5, <2>6 DEF IInv
  <1>5. CASE setParticipantReads
    <2>1. TypeOK'
      BY <1>5, <1>f DEF setParticipantReads, TypeOK
    <2>2. SessionInv'
      BY Zenon, <1>5 DEF setParticipantReads, SessionInv
    <2>3. CloseInv'
      BY Zenon, <1>5 DEF setParticipantReads, CloseInv, BodyDone, Stored
    <2>4. OpenInv'
      BY Zenon, <1>5 DEF setParticipantReads, OpenInv, Open
    <2>5. TrackInv'
      BY Zenon, <1>5, EarlyTrack DEF setParticipantReads, Open
    <2>6. PidInv'
      BY Zenon, <1>5 DEF setParticipantReads, PidInv, Stored
    <2> QED BY Zenon, <2>1, <2>2, <2>3, <2>4, <2>5, <2>6 DEF IInv
  <1>6. CASE setParticipantStores
    <2>1. TypeOK'
      BY <1>6, <1>f DEF setParticipantStores, TypeOK
    <2>2. SessionInv'
      BY Zenon, <1>6 DEF setParticipantStores, SessionInv
    <2>3. CloseInv'
      BY Zenon, <1>6 DEF setParticipantStores, CloseInv, BodyDone, Stored
    <2>4. OpenInv'
      BY Zenon, <1>6 DEF setParticipantStores, OpenInv, Open
    <2>5. TrackInv'
      BY Zenon, <1>6, EarlyTrack DEF setParticipantStores, Open
    <2>6. PidInv'
      <3>1. pid' = sid' \/ overlap'
        BY <1>6, Zenon DEF setParticipantStores
      <3> QED BY Zenon, <3>1 DEF PidInv
    <2> QED BY Zenon, <2>1, <2>2, <2>3, <2>4, <2>5, <2>6 DEF IInv
  <1>7. CASE ConnectReturns
    <2>1. TypeOK'
      BY ZenonT(30), <1>7, <1>f DEF ConnectReturns, TypeOK
    <2>2. SessionInv'
      BY Zenon, <1>7 DEF ConnectReturns, SessionInv
    <2>3. CloseInv'
      BY Zenon, <1>7 DEF ConnectReturns, CloseInv, BodyDone, Stored
    <2>4. OpenInv'
      BY Zenon, <1>7 DEF ConnectReturns, OpenInv, Open
    <2>5. TrackInv'
      BY Zenon, <1>7, EarlyTrack DEF ConnectReturns, Open
    <2>6. PidInv'
      BY Zenon, <1>7 DEF ConnectReturns, PidInv, Stored
    <2> QED BY Zenon, <2>1, <2>2, <2>3, <2>4, <2>5, <2>6 DEF IInv
  <1>8. CASE NewParticipantTrack
    <2>1. TypeOK'
      BY <1>8, <1>f DEF NewParticipantTrack, TypeOK
    <2>2. SessionInv'
      BY Zenon, <1>8 DEF NewParticipantTrack, SessionInv
    <2>3. CloseInv'
      BY Zenon, <1>8 DEF NewParticipantTrack, CloseInv, BodyDone, Stored
    <2>4. OpenInv'
      BY Zenon, <1>8 DEF NewParticipantTrack, OpenInv, Open
    <2>5. TrackInv'
      BY Zenon, <1>8, EarlyTrack DEF NewParticipantTrack, Open
    <2>6. PidInv'
      BY Zenon, <1>8 DEF NewParticipantTrack, PidInv, Stored
    <2> QED BY Zenon, <2>1, <2>2, <2>3, <2>4, <2>5, <2>6 DEF IInv
  <1>9. CASE Subscribe
    <2>1. TypeOK'
      BY Zenon, <1>9, <1>f DEF Subscribe, TypeOK
    <2>2. SessionInv'
      BY Zenon, <1>9 DEF Subscribe, SessionInv
    <2>3. CloseInv'
      BY Zenon, <1>9 DEF Subscribe, CloseInv, BodyDone, Stored
    <2>4. OpenInv'
      BY Zenon, <1>9 DEF Subscribe, OpenInv, Open
    <2>5. TrackInv'
      BY Zenon, <1>9, EarlyTrack DEF Subscribe, Open
    <2>6. PidInv'
      BY Zenon, <1>9 DEF Subscribe, PidInv, Stored
    <2> QED BY Zenon, <2>1, <2>2, <2>3, <2>4, <2>5, <2>6 DEF IInv
  <1>10. CASE SubscribeFlag
    <2>1. TypeOK'
      BY Zenon, <1>10, <1>f DEF SubscribeFlag, TypeOK
    <2>2. SessionInv'
      BY Zenon, <1>10 DEF SubscribeFlag, SessionInv
    <2>3. CloseInv'
      BY Zenon, <1>10 DEF SubscribeFlag, CloseInv, BodyDone, Stored
    <2>4. OpenInv'
      BY Zenon, <1>10 DEF SubscribeFlag, OpenInv, Open
    <2>5. TrackInv'
      BY Zenon, <1>10 DEF SubscribeFlag, TrackInv, Pending
    <2>6. PidInv'
      BY Zenon, <1>10 DEF SubscribeFlag, PidInv, Stored
    <2> QED BY Zenon, <2>1, <2>2, <2>3, <2>4, <2>5, <2>6 DEF IInv
  <1>11. CASE SubscribeLists
    <2>1. TypeOK'
      BY Zenon, <1>11, <1>f DEF SubscribeLists, subscribeAll, TypeOK
    <2>2. SessionInv'
      BY Zenon, <1>11 DEF SubscribeLists, subscribeAll, SessionInv
    <2>3. CloseInv'
      BY Zenon, <1>11 DEF SubscribeLists, subscribeAll, CloseInv, BodyDone,
           Stored
    <2>4. OpenInv'
      BY Zenon, <1>11 DEF SubscribeLists, subscribeAll, OpenInv, Open
    <2>5. TrackInv'
      BY Zenon, <1>11 DEF SubscribeLists, subscribeAll, TrackInv, Pending,
           TypeOK
    <2>6. PidInv'
      BY Zenon, <1>11 DEF SubscribeLists, subscribeAll, PidInv, Stored
    <2> QED BY Zenon, <2>1, <2>2, <2>3, <2>4, <2>5, <2>6 DEF IInv
  <1>12. CASE SubscribeTracks

    <2>0. /\ call = "tracks" /\ call' \in {"tracks", "up"}
          /\ UNCHANGED <<callSid, overlap, closeVars, sdkVars, resub, roomVars,
               published, audio, event, sip, mixed>>
      BY Zenon, <1>12 DEF SubscribeTracks, subscribeNext
    <2>t. \/ call' = "up" /\ todo[0] = {} /\ UNCHANGED <<subs, failed, todo>>
          \/ \E t \in todo[0] \cap Tracks :
               call' = call /\ subscribeTo(t)
                 /\ todo' = [todo EXCEPT ![0] = todo[0] \ {t}]
      BY Zenon, <1>12 DEF SubscribeTracks, subscribeNext
    <2>s. /\ subs \subseteq subs' /\ failed \subseteq failed'
          /\ {subs', failed'} \subseteq SUBSET Tracks
          /\ todo' \in [{0} \cup Sessions -> SUBSET Tracks]
          /\ \A n \in Sessions : todo'[n] = todo[n]
          /\ \A u \in audio \cap todo[0] :
               \/ u \in subs' \cup failed'
               \/ call' = "tracks" /\ u \in todo'[0]
      <3>1. CASE /\ call' = "up" /\ todo[0] = {}
                 /\ UNCHANGED <<subs, failed, todo>>
        BY Zenon, <3>1 DEF TypeOK
      <3>2. ASSUME NEW t \in todo[0] \cap Tracks, call' = call, subscribeTo(t),
                   todo' = [todo EXCEPT ![0] = todo[0] \ {t}]
            PROVE  /\ subs \subseteq subs' /\ failed \subseteq failed'
                   /\ {subs', failed'} \subseteq SUBSET Tracks
                   /\ todo' \in [{0} \cup Sessions -> SUBSET Tracks]
                   /\ \A n \in Sessions : todo'[n] = todo[n]
                   /\ \A u \in audio \cap todo[0] :
                        \/ u \in subs' \cup failed'
                        \/ call' = "tracks" /\ u \in todo'[0]
        <4>1. /\ subs \subseteq subs' /\ failed \subseteq failed'
              /\ {subs', failed'} \subseteq SUBSET Tracks
              /\ t \in audio => t \in subs' \cup failed'
          BY Zenon, <3>2, SubscribeTo
        <4> QED BY Zenon, <2>0, <3>2, <4>1, Numbers DEF TypeOK
      <3> QED BY <2>t, <3>1, <3>2, Zenon
    <2>1. TypeOK'
      BY <1>f, <2>0, <2>s DEF TypeOK
    <2>2. SessionInv'
      BY Zenon, <2>0 DEF SessionInv
    <2>3. CloseInv'
      BY Zenon, <2>0 DEF CloseInv, BodyDone, Stored
    <2>4. OpenInv'
      BY Zenon, <2>0 DEF OpenInv, Open
    <2>5. TrackInv'
      BY Zenon, <2>0, <2>s, Numbers DEF TrackInv, Pending, SessionInv
    <2>6. PidInv'
      BY Zenon, <2>0 DEF PidInv, Stored
    <2> QED BY Zenon, <2>1, <2>2, <2>3, <2>4, <2>5, <2>6 DEF IInv
  <1>13. CASE CallEnds
    <2>1. TypeOK'
      BY Zenon, <1>13, <1>f DEF CallEnds, TypeOK
    <2>2. SessionInv'
      BY Zenon, <1>13 DEF CallEnds, SessionInv
    <2>3. CloseInv'
      BY Zenon, <1>13 DEF CallEnds, CloseInv, BodyDone, Stored
    <2>4. OpenInv'
      BY Zenon, <1>13 DEF CallEnds, OpenInv, Open
    <2>5. TrackInv'
      BY Zenon, <1>13 DEF CallEnds, TrackInv, Pending
    <2>6. PidInv'
      BY Zenon, <1>13 DEF CallEnds, PidInv, Stored
    <2> QED BY Zenon, <2>1, <2>2, <2>3, <2>4, <2>5, <2>6 DEF IInv
  <1> QED
    BY Zenon, <1>1, <1>2, <1>3, <1>4, <1>5, <1>6, <1>7, <1>8, <1>9, <1>10,
         <1>11,
         <1>12, <1>13 DEF CallSteps

(* Before Connect there is nothing to keep.                                *)
LEMMA RoomStarts == Init => IInv
  <1> SUFFICES ASSUME Init PROVE IInv
    OBVIOUS
  <1>1. {closed, handle, overlap, subscribe, ready, subscribed, stopped,
         resumed, recovering, late} \subseteq BOOLEAN
    BY Zenon DEF Init
  <1>2. TypeOK
    BY <1>1, RoomAssumption DEF Init, TypeOK, Sessions
  <1>3. ~closed /\ ~handle /\ ~subscribe /\ ~subscribed /\ ~ready /\ ~stopped
    BY Zenon DEF Init
  <1>4. SessionInv
    BY <1>3 DEF Init, SessionInv
  <1>5. CloseInv
    BY Zenon, <1>3 DEF Init, CloseInv, BodyDone, Stored, Callers
  <1>6. OpenInv /\ TrackInv /\ PidInv
    BY Zenon, <1>3 DEF Init, OpenInv, TrackInv, PidInv, Stored
  <1> QED BY Zenon, <1>2, <1>4, <1>5, <1>6 DEF IInv

(* Every reachable state of a room, for any set of tracks and any number   *)
(* of lost connections, satisfies the inductive invariant.                 *)
THEOREM RoomInvariance == Spec => []IInv
  <1>1. IInv /\ [Next]_vars => IInv'
    <2> SUFFICES ASSUME IInv, [Next]_vars PROVE IInv'
      OBVIOUS
    <2>1. CASE CallSteps
      BY Zenon, <2>1, CallStep
    <2>2. CASE Callbacks
      BY Zenon, <2>2, CallbackStep
    <2>3. CASE Server
      BY Zenon, <2>3, ServerStep
    <2>4. CASE ClosedBreaks
      <3>1. "call" \in Callers
        BY Zenon DEF Callers
      <3> QED BY Zenon, <2>4, <3>1, CloserStep
    <2>5. ASSUME NEW n \in Sessions, Resubscriber(n)
          PROVE  IInv'
      BY Zenon, <2>5, ResubscriberStep
    <2>6. ASSUME NEW p \in Callers, Closer(p)
          PROVE  IInv'
      BY Zenon, <2>6, CloserStep
    <2>7. CASE UNCHANGED vars
      <3>1. TypeOK'
        BY <2>7 DEF IInv, TypeOK
      <3> QED BY Zenon, <2>7, <3>1, SessionFrame, CloseFrame, OpenFrame,
           TrackFrame, PidFrame DEF IInv
    <2> QED BY Zenon, <2>1, <2>2, <2>3, <2>4, <2>5, <2>6, <2>7 DEF Next
  <1> QED BY <1>1, RoomStarts, PTL DEF Spec

(* Neither a track published nor a connection recovered before Subscribe   *)
(* pulls room audio into a leg that has not been accepted.                 *)
THEOREM NoEarlyAudioHolds == Spec => []NoEarlyAudio
  <1>1. IInv => NoEarlyAudio
    BY Zenon DEF IInv, NoEarlyAudio, OpenInv, Open
  <1> QED BY <1>1, RoomInvariance, PTL

(* Once the callbacks, Subscribe and the goroutines that subscribe again   *)
(* are done, no audio track of an open room is left out, but for requests  *)
(* lost with a connection that was resumed.                                *)
THEOREM NoTrackMissedHolds == Spec => []NoTrackMissed
  <1>1. ASSUME IInv
        PROVE  NoTrackMissed
    <2> SUFFICES ASSUME Quiet, call = "up", once = "none", sess = "up",
                        subscribe, NEW t \in audio
                 PROVE  t \in subs \cup failed
      BY Zenon DEF NoTrackMissed
    <2>1. TypeOK /\ SessionInv /\ TrackInv
      BY Zenon, <1>1 DEF IInv
    <2>2. t \in Tracks
      BY Zenon, <2>1 DEF TypeOK
    <2>3. sid \in Sessions
      BY Zenon, <2>1, Numbers DEF SessionInv
    <2>4. /\ event[t] = "none" /\ sdk = "idle"
          /\ resub[sid] \in {"none", "done"}
      BY Zenon, <2>2, <2>3 DEF Quiet
    <2>5. ~Pending(t)
      BY Zenon, <2>4 DEF Pending
    <2> QED BY Zenon, <2>1, <2>5 DEF TrackInv
  <1> QED BY <1>1, RoomInvariance, PTL

(* After every recovery the cached participant is that of the session,     *)
(* unless the session was replaced while Connect stored the one before.    *)
THEOREM ParticipantCurrentHolds == Spec => []ParticipantCurrent
  <1>1. IInv => ParticipantCurrent
    BY Zenon DEF IInv, ParticipantCurrent, Quiet, PidInv, Stored
  <1> QED BY <1>1, RoomInvariance, PTL

(* CloseWithReason leaves the session, whoever calls it and whenever,      *)
(* unless Connect stores the room after it.                                *)
THEOREM SessionLeftHolds == Spec => []SessionLeft
  <1>1. ASSUME IInv
        PROVE  SessionLeft
    <2> SUFFICES ASSUME Quiet, once # "none", call = "done"
                 PROVE  sess \in {"none", "left"} \/ late
      BY Zenon DEF SessionLeft
    <2>1. CloseInv /\ once \in Callers
      BY Zenon, <1>1 DEF IInv, TypeOK
    <2>2. close[once] = "done"
      BY Zenon, <2>1 DEF Quiet, CloseInv
    <2> QED BY Zenon, <2>1, <2>2 DEF CloseInv, BodyDone
  <1> QED BY <1>1, RoomInvariance, PTL

=============================================================================
