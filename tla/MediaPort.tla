------------------------------ MODULE MediaPort -----------------------------
(***************************************************************************)
(* The UDP port of a call and the goroutines that read from it: MediaPort  *)
(* and udpConn of pkg/sip/media_port.go, SetConfig and rtpLoop of          *)
(* pkg/sip/media_pipeline.go, DrainPort of pkg/sip/draining_port.go, over  *)
(* the DTLS-SRTP session of DtlsSession.                                   *)
(*                                                                         *)
(* Up to three readers follow each other on one socket: discardLoop before *)
(* the answer, the session, and DrainPort after Close.  Close waits for    *)
(* discardLoop and for rtpLoop, which takes the packets from the session,  *)
(* but not for readLoop or the agent.  SetConfig runs on the goroutine of  *)
(* the call, at most once; Close may come from another goroutine           *)
(* (Server.Stop, Client.Stop) at any point of it.                          *)
(*                                                                         *)
(* External: the clear and SDES sessions of media-sdk, which read the      *)
(* socket themselves, and the fuse, which may break before or after the    *)
(* callback of Once.                                                       *)
(***************************************************************************)
EXTENDS DtlsSession

VARIABLES
  secure,     \* c.DTLS # nil
  discard,    \* discardLoop: "none", "run", "done"
  stop,       \* discardStop
  config,     \* where SetConfig is
  sess,       \* the session is stored in p.sess
  rtpLoop,    \* "none", "run", "done"
  out,        \* the pipeline behind p.audioOut: "nil", "open", "closed"
  hnd,        \* p.hnd: "nil", "open", "closed"
  closer,     \* where Close is
  broken,     \* the fuse p.closed
  late,       \* SetConfig set up a pipeline after Close
  mu          \* holder of p.mu: "none", "config", "close"

portVars == <<secure, discard, stop, config, sess, rtpLoop, out, hnd, closer,
              broken, late, mu>>
vars == <<dtlsVars, portVars>>

PortTypeOK ==
  /\ {secure, stop, sess, broken, late} \subseteq BOOLEAN
  /\ {discard, rtpLoop} \subseteq {"none", "run", "done"}
  /\ config \in {"idle", "discard", "create", "lock", "setup", "done"}
  /\ {out, hnd} \subseteq Life
  /\ closer \in {"idle", "lock", "session", "shut", "discard", "port", "wait",
                 "done"}
  /\ mu \in {"none", "config", "close"}

(* NewMediaPortWith: discardLoop starts when IgnorePreanswerData is set.   *)
NewMediaPortWith ==
  /\ DtlsInit
  /\ secure \in BOOLEAN /\ (ice => secure)
  /\ discard \in {"none", "run"}
  /\ stop = FALSE /\ config = "idle" /\ sess = FALSE
  /\ rtpLoop = "none" /\ out = "nil" /\ hnd = "nil"
  /\ closer = "idle" /\ broken = FALSE /\ late = FALSE /\ mu = "none"
-----------------------------------------------------------------------------
(* udpConn                                                                 *)

discardLoopReads ==
  /\ discard = "run" /\ ~stop
  /\ deadline' = "frame"
  /\ UNCHANGED <<startVars, objVars, muxVars, snap, dead, socket, taken,
                 portVars>>

(* Stopped, or a read failed: the deadline is cleared.                     *)
discardLoopEnds ==
  /\ discard = "run"
  /\ discard' = "done"
  /\ deadline' = "none"
  /\ UNCHANGED <<startVars, objVars, muxVars, snap, dead, socket, taken, secure,
                 stop, config, sess, rtpLoop, out, hnd, closer, broken, late,
                 mu>>

(* The discardWG.Wait() of stopDiscarding returns.                         *)
Discarded == discard # "run"
-----------------------------------------------------------------------------
(* SetConfig                                                               *)

SetConfig ==
  /\ config = "idle"
  /\ IF broken
     THEN config' = "done" /\ UNCHANGED stop
     ELSE config' = "discard" /\ stop' = (discard # "none")
  /\ UNCHANGED <<dtlsVars, secure, discard, sess, rtpLoop, out, hnd, closer,
                 broken, late, mu>>

stopDiscarding ==
  /\ config = "discard"
  /\ Discarded
  /\ config' = "create"
  /\ UNCHANGED <<dtlsVars, secure, discard, stop, sess, rtpLoop, out, hnd,
                 closer, broken, late, mu>>

(* The session of the negotiated kind; only SDES may fail.                 *)
createSession ==
  /\ config = "create"
  /\ \/ secure /\ newDTLSSRTPSession /\ config' = "lock"
     \/ ~secure /\ config' \in {"lock", "done"} /\ UNCHANGED dtlsVars
  /\ UNCHANGED <<secure, discard, stop, sess, rtpLoop, out, hnd, closer,
                 broken, late, mu>>

(* p.mu is taken and the session stored.                                   *)
storeSession ==
  /\ config = "lock" /\ mu = "none"
  /\ mu' = "config"
  /\ sess' = TRUE
  /\ config' = "setup"
  /\ UNCHANGED <<dtlsVars, secure, discard, stop, rtpLoop, out, hnd, closer,
                 broken, late>>

(* setupInput stores the handler of incoming packets.                      *)
setupInput == hnd' = "open"

(* setupOutput starts rtpLoop; a pipeline that cannot be built leaves both *)
(* directions unset.                                                       *)
setupOutput ==
  /\ config = "setup"
  /\ IF broken
     THEN UNCHANGED <<rtpLoop, out, hnd, late>>
     ELSE /\ rtpLoop' = "run"
          /\ \/ out' = "open" /\ setupInput
             \/ UNCHANGED <<out, hnd>>
          /\ late' = (closer = "done")
  /\ mu' = "none"
  /\ config' = "done"
  /\ UNCHANGED <<dtlsVars, secure, discard, stop, sess, closer, broken>>

Config ==
  SetConfig \/ stopDiscarding \/ createSession \/ storeSession \/ setupOutput

(* rtpLoop returns when AcceptStream fails.                                *)
rtpLoopEnds ==
  /\ rtpLoop = "run"
  /\ IF secure THEN AcceptFails ELSE dead /\ deadline # "none"
  /\ rtpLoop' = "done"
  /\ UNCHANGED <<dtlsVars, secure, discard, stop, config, sess, out, hnd,
                 closer, broken, late, mu>>
-----------------------------------------------------------------------------
(* Close                                                                   *)

Close ==
  /\ closer = "idle"
  /\ closer' = "lock"
  /\ UNCHANGED <<dtlsVars, secure, discard, stop, config, sess, rtpLoop, out,
                 hnd, broken, late, mu>>

ClosedBreaks ==
  /\ closer # "idle" /\ ~broken
  /\ broken' = TRUE
  /\ UNCHANGED <<dtlsVars, secure, discard, stop, config, sess, rtpLoop, out,
                 hnd, closer, late, mu>>

closeLocks ==
  /\ closer = "lock" /\ mu = "none"
  /\ mu' = "close"
  /\ out' = IF out = "open" THEN "closed" ELSE out
  /\ closer' = IF sess THEN "session" ELSE "discard"
  /\ stop' = IF sess THEN stop ELSE TRUE
  /\ UNCHANGED <<dtlsVars, secure, discard, config, sess, rtpLoop, hnd,
                 broken, late>>

(* p.sess.Close(); a clear session closes the port, as the next step does. *)
closeSession ==
  /\ closer = "session"
  /\ IF secure
     THEN closeReads /\ closer' = "shut" /\ UNCHANGED stop
     ELSE closer' = "discard" /\ stop' = TRUE /\ UNCHANGED dtlsVars
  /\ UNCHANGED <<secure, discard, config, sess, rtpLoop, out, hnd, broken,
                 late, mu>>

closeSessionShuts ==
  /\ closer = "shut"
  /\ closeAll
  /\ closer' = "discard" /\ stop' = TRUE
  /\ UNCHANGED <<secure, discard, config, sess, rtpLoop, out, hnd, broken,
                 late, mu>>

(* Mutant of closePort: ongoing reads are not killed.                      *)
closePort_NoDeadline ==
  /\ closer = "discard" /\ Discarded
  /\ dead' = TRUE /\ UNCHANGED deadline
  /\ closer' = "wait"
  /\ UNCHANGED <<startVars, objVars, muxVars, snap, socket, taken, secure,
                 discard, stop, config, sess, rtpLoop, out, hnd, broken, late,
                 mu>>

(* p.port.Close(), once discardLoop has ended.                             *)
closePort ==
  /\ closer = "discard" /\ Discarded
  /\ dead' = TRUE /\ deadline' = "past"
  /\ closer' = "wait"
  /\ UNCHANGED <<startVars, objVars, muxVars, snap, socket, taken, secure,
                 discard, stop, config, sess, rtpLoop, out, hnd, broken, late,
                 mu>>

(* After rtpLoopWG.Wait() the socket goes to DrainPort, and the handler is *)
(* closed.                                                                 *)
closeReturns ==
  /\ closer = "wait" /\ rtpLoop # "run"
  /\ socket' \in {"draining", "released"}
  /\ hnd' = IF hnd = "open" THEN "closed" ELSE hnd
  /\ mu' = "none"
  /\ closer' = "done"
  /\ UNCHANGED <<startVars, objVars, muxVars, snap, dead, deadline, taken,
                 secure, discard, stop, config, sess, rtpLoop, out, broken,
                 late>>

Closer ==
  \/ closeLocks \/ closeSession \/ closeSessionShuts
  \/ closePort \/ closeReturns \/ ClosedBreaks

(* DrainPort reads with a deadline of its own, ...                         *)
DrainPortReads ==
  /\ socket = "draining"
  /\ deadline' = "drain"
  /\ UNCHANGED <<startVars, objVars, muxVars, snap, dead, socket, taken,
                 portVars>>

(* ... and closes the socket after the idle or the total time.             *)
DrainPort ==
  /\ socket = "draining"
  /\ socket' = "released"
  /\ UNCHANGED <<startVars, objVars, muxVars, snap, dead, deadline, taken,
                 portVars>>
-----------------------------------------------------------------------------
Dtls ==
  /\ contextExpires \/ Start \/ Mux
  /\ UNCHANGED portVars

Next ==
  \/ discardLoopReads \/ discardLoopEnds
  \/ Config \/ rtpLoopEnds \/ Dtls
  \/ Close \/ Closer \/ DrainPortReads \/ DrainPort

Spec == NewMediaPortWith /\ [][Next]_vars

(* Every goroutine that can run does, and discardLoop ends once stopped;   *)
(* the context has a deadline.  No packet has to come, and nothing makes a *)
(* call close its port.  DrainPort comes to an end because its duration is *)
(* capped, as it is by default; without a cap the peer must fall silent.   *)
FairSpec ==
  /\ Spec
  /\ WF_vars(stop /\ discardLoopEnds) /\ WF_vars(Config)
  /\ WF_vars(rtpLoopEnds)
  /\ WF_vars(contextExpires /\ UNCHANGED portVars)
  /\ WF_vars(Start /\ UNCHANGED portVars)
  /\ WF_vars((readLoopCalls \/ readLoopFails \/ readLoopDelivers)
              /\ UNCHANGED portVars)
  /\ WF_vars(endpointReads /\ UNCHANGED portVars)
  /\ WF_vars(sessionEnds /\ UNCHANGED portVars)
  /\ WF_vars(Closer) /\ WF_vars(DrainPort)
-----------------------------------------------------------------------------
(* The readers of the socket follow each other.  discardLoop has ended     *)
(* before a session reads, so it throws away no packet of the call.  When  *)
(* DrainPort has the socket, rtpLoop has ended, unless SetConfig was       *)
(* waiting for p.mu and got it before the fuse broke.  readLoop is not     *)
(* waited for: it may be in a read that Close should have killed when      *)
(* DrainPort sets its own deadline, and then takes one packet from it, but *)
(* no second one, because Read looks at closed.  With ICE readLoop does    *)
(* not read the socket; the UDP mux of the agent does, until it is closed. *)
OneReader ==
  /\ DtlsTypeOK /\ PortTypeOK
  /\ discard = "run" => /\ st = "none" /\ read = "none" /\ rtpLoop = "none"
                        /\ socket = "open"
  /\ socket # "open" => rtpLoop # "run" \/ late
  /\ taken <= 1

(* The inductive invariant behind it.  The handshake is not over before    *)
(* its last flight, and readLoop, which is not there before the session,   *)
(* delivers what it has read.                                              *)
DtlsInv ==
  /\ st = "handshake" => flights < Flights
  /\ st \in {"none", "agent", "gather", "dial", "client"} => flights = 0
  /\ read = "deliver" => pkt \in Kinds
  /\ st = "none" => read = "none"

(* Whoever is past stopDiscarding, SetConfig or Close, has seen the end of *)
(* discardLoop, and everything that reads after it is past one of them.    *)
(* DrainPort has only a closed udpConn, and readLoop is not in another     *)
(* read after it has taken a packet.                                       *)
ReaderInv ==
  /\ config \in {"create", "lock", "setup"} => discard # "run"
  /\ closer \in {"wait", "done"} => discard # "run" /\ dead
  /\ socket # "open" => closer = "done"
  /\ taken > 0 => ~ice /\ dead /\ read # "read"

PortInv == OneReader /\ DtlsInv /\ ReaderInv

(* Close came before start had published the ICE agent, or before          *)
(* SetConfig had stored the session: nothing closes the agent any more.    *)
MissedAgent == agent # "nil" /\ snap.agent = "nil"

(* The same for the mux.                                                   *)
MissedMux == mux # "nil" /\ snap.mux = "nil"

(* Close always returns and the socket is released in the end, although    *)
(* Close holds p.mu while it waits for rtpLoop, and rtpLoop waits for a    *)
(* handshake that may be in any state: it fails or runs into its timeout.  *)
(* Not so when the agent was published after Close had looked for it and   *)
(* the handshake was through before the socket was closed.                 *)
CloseReturns ==
  closer # "idle" ~> \/ closer = "done" /\ socket = "released"
                     \/ MissedAgent

Released ==
  /\ {agent, mux, srtp, dtls} \cap {"open"} = {}
  /\ st \in {"none", "done"} /\ read \in {"none", "done"}
  /\ rtpLoop # "run"
  /\ late \/ "open" \notin {out, hnd}

(* After Close, whatever a session has opened is closed and each of its    *)
(* goroutines ends, wherever the handshake was, except for an agent or mux *)
(* that Close could not see.                                               *)
SessionReleased == closer = "done" ~> Released \/ MissedAgent \/ MissedMux
=============================================================================
