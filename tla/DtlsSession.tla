----------------------------- MODULE DtlsSession ----------------------------
(***************************************************************************)
(* The DTLS-SRTP transport of a media port: dtlsSrtpSession and dtlsMux of *)
(* pkg/sip/dtls_srtp.go.                                                   *)
(*                                                                         *)
(* start runs in a goroutine of its own: with ICE it makes an agent and    *)
(* dials, then it makes the mux, does the handshake and opens the SRTP     *)
(* sessions on the mux.  readLoop of the mux puts every packet into one of *)
(* the bounded queues and waits when it is full.  Close may come at any    *)
(* point and works on what start has published by then.                    *)
(*                                                                         *)
(* Without ICE readLoop reads the socket, through the Read of udpConn.     *)
(* With ICE it reads the connection of the agent, and the UDP mux of the   *)
(* agent, which nothing closes once there is an agent, reads the socket.   *)
(*                                                                         *)
(* External: the ICE agent with its UDP mux, the DTLS handshake and the    *)
(* SRTP sessions of pion, as far as start and Close use them.              *)
(***************************************************************************)
EXTENDS Naturals

CONSTANTS
  QueueSize,   \* capacity of the queues of an endpoint (128 in the code)
  Flights      \* packets of the peer the handshake needs

ASSUME DtlsAssumption == QueueSize \in Nat \ {0} /\ Flights \in Nat \ {0}

(* The endpoints; those of SRTP and SRTCP are alike and opened together.   *)
Kinds == {"dtls", "srtp"}

VARIABLES
  ice,        \* conf.ice # nil
  st,         \* where start is
  expired,    \* its context is done
  err,        \* s.err
  agent,      \* s.iceAgent: "nil", "open", "closed"
  mux,        \* s.mux
  srtp,       \* s.srtp and s.srtcp
  dtls,       \* the connection in s.dtls
  snap,       \* what Close has found
  flights,    \* packets the handshake has read
  read,       \* where readLoop is: it calls conn.Read, is blocked in it, ...
  pkt,        \* the packet it holds
  queue,      \* packets in the queue of each endpoint
  dead,       \* closed of the udpConn
  deadline,   \* of reads on its socket: "none", "frame", "past", "drain"
  socket,     \* "open", "draining", "released"
  taken       \* packets readLoop got from the socket while DrainPort has it

startVars == <<ice, st, expired, err, flights>>
objVars == <<agent, mux, srtp, dtls>>
muxVars == <<read, pkt, queue>>
connVars == <<dead, deadline, socket, taken>>
dtlsVars == <<startVars, objVars, muxVars, snap, connVars>>

Life == {"nil", "open", "closed"}
Objects == [agent : Life, mux : Life, srtp : Life, dtls : Life]

ConnTypeOK ==
  /\ deadline \in {"none", "frame", "past", "drain"}
  /\ socket \in {"open", "draining", "released"}
  /\ taken \in Nat

DtlsTypeOK ==
  /\ ConnTypeOK
  /\ {ice, expired, err, dead} \subseteq BOOLEAN
  /\ st \in {"none", "agent", "gather", "dial", "client", "handshake",
             "sessions", "publish", "failed", "noconn", "done"}
  /\ {agent, mux, srtp, dtls} \subseteq Life
  /\ snap \in Objects
  /\ flights \in 0..Flights
  /\ read \in {"none", "call", "read", "deliver", "done"}
  /\ pkt \in Kinds \cup {"none"}
  /\ queue \in [Kinds -> 0..QueueSize]

Nothing == [agent |-> "nil", mux |-> "nil", srtp |-> "nil", dtls |-> "nil"]

DtlsInit ==
  /\ ice \in BOOLEAN
  /\ st = "none" /\ expired = FALSE /\ err = FALSE /\ flights = 0
  /\ agent = "nil" /\ mux = "nil" /\ srtp = "nil" /\ dtls = "nil"
  /\ snap = Nothing
  /\ read = "none" /\ pkt = "none" /\ queue = [k \in Kinds |-> 0]
  /\ dead = FALSE /\ deadline = "none" /\ socket = "open" /\ taken = 0
-----------------------------------------------------------------------------
(* newDTLSSRTPSession: without ICE the mux is there from the beginning.    *)
newDTLSMux == mux' = "open" /\ read' = "call"

newDTLSSRTPSession ==
  /\ st = "none"
  /\ IF ice
     THEN st' = "agent" /\ UNCHANGED <<mux, read>>
     ELSE st' = "client" /\ newDTLSMux
  /\ UNCHANGED <<ice, expired, err, flights, agent, srtp, dtls, pkt, queue,
                 snap, connVars>>

(* A read of the socket may return a packet.                               *)
SocketReads == deadline # "past" /\ socket # "released"

(* start returns: its context is cancelled, and ready is closed.           *)
Returns == st' = "done" /\ expired' = TRUE

Fails == Returns /\ err' = TRUE

contextExpires ==
  /\ st \notin {"none", "done"} /\ ~expired
  /\ expired' = TRUE
  /\ UNCHANGED <<ice, st, err, flights, objVars, muxVars, snap, connVars>>

(* connectICE: NewAgent, and the agent is published.                       *)
connectICE ==
  /\ st = "agent"
  /\ \/ agent' = "open" /\ st' = "gather" /\ UNCHANGED <<expired, err>>
     \/ Fails /\ UNCHANGED agent
  /\ UNCHANGED <<ice, flights, mux, srtp, dtls, muxVars, snap,
                 connVars>>

(* A failure before Dial closes the agent.                                 *)
connectICEGathers ==
  /\ st = "gather"
  /\ \/ agent = "open" /\ st' = "dial" /\ UNCHANGED <<agent, expired, err>>
     \/ agent' = "closed" /\ Fails
  /\ UNCHANGED <<ice, flights, mux, srtp, dtls, muxVars, snap,
                 connVars>>

(* Dial needs packets of the peer, which the agent reads from the socket;  *)
(* a failure leaves the agent to Close.                                    *)
connectICEDials ==
  /\ st = "dial"
  /\ \/ /\ agent = "open" /\ SocketReads
        /\ newDTLSMux
        /\ st' = "client"
        /\ UNCHANGED <<expired, err>>
     \/ /\ expired \/ agent = "closed"
        /\ Fails
        /\ UNCHANGED <<mux, read>>
  /\ UNCHANGED <<ice, flights, agent, srtp, dtls, pkt, queue, snap, connVars>>

(* pdtls.Client or pdtls.Server.                                           *)
newConn ==
  /\ st = "client"
  /\ st' \in {"handshake", "noconn"}
  /\ UNCHANGED <<ice, expired, err, flights, objVars, muxVars, snap, connVars>>

(* HandshakeContext reads from the DTLS endpoint of the mux.               *)
handshakeReads ==
  /\ st = "handshake" /\ mux = "open"
  /\ queue["dtls"] > 0
  /\ queue' = [queue EXCEPT !["dtls"] = @ - 1]
  /\ flights' = flights + 1
  /\ st' = IF flights + 1 = Flights THEN "sessions" ELSE st
  /\ UNCHANGED <<ice, expired, err, objVars, read, pkt, snap, connVars>>

(* Timed out, the endpoint is closed, or the peer is not the expected one. *)
handshakeFails ==
  /\ st = "handshake"
  /\ expired \/ mux = "closed" \/ flights > 0
  /\ st' = "failed"
  /\ UNCHANGED <<ice, expired, err, flights, objVars, muxVars, snap, connVars>>

(* NewSessionSRTP and NewSessionSRTCP, either of which may fail, or no     *)
(* common profile.                                                         *)
openSessions ==
  /\ st = "sessions"
  /\ \/ srtp' = "open" /\ st' \in {"publish", "failed"}
     \/ st' = "failed" /\ UNCHANGED srtp
  /\ UNCHANGED <<ice, expired, err, flights, agent, mux, dtls, muxVars, snap,
                 connVars>>

(* s.dtls and s.err under the lock.                                        *)
startReturns ==
  /\ st \in {"publish", "failed", "noconn"}
  /\ dtls' = IF st = "noconn" THEN "nil" ELSE "open"
  /\ err' = (st # "publish")
  /\ Returns
  /\ UNCHANGED <<ice, flights, agent, mux, srtp, muxVars, snap,
                 connVars>>

Start ==
  \/ connectICE \/ connectICEGathers \/ connectICEDials \/ newConn
  \/ handshakeReads \/ handshakeFails \/ openSessions \/ startReturns
-----------------------------------------------------------------------------
(* dtlsMux                                                                 *)

(* The call of conn.Read: udpConn refuses it once it is closed, the        *)
(* connection of the agent once the agent is.                              *)
ReadRefused == IF ice THEN agent = "closed" ELSE dead

readLoopStops == mux' = "closed" /\ read' = "done"

(* Mutant of readLoopCalls: Read does not look at closed.                  *)
readLoopCalls_Unchecked ==
  /\ read = "call"
  /\ IF ice /\ agent = "closed"
     THEN readLoopStops
     ELSE read' = "read" /\ UNCHANGED mux
  /\ UNCHANGED <<startVars, agent, srtp, dtls, pkt, queue, snap, connVars>>

readLoopCalls ==
  /\ read = "call"
  /\ IF ReadRefused
     THEN readLoopStops
     ELSE read' = "read" /\ UNCHANGED mux
  /\ UNCHANGED <<startVars, agent, srtp, dtls, pkt, queue, snap, connVars>>

(* A packet, which is skipped when it is of no kind.                       *)
readLoopReads ==
  /\ read = "read" /\ SocketReads
  /\ ice => agent # "closed"
  /\ pkt' \in Kinds \cup {"none"}
  /\ read' = IF pkt' = "none" THEN "call" ELSE "deliver"
  /\ taken' = IF ~ice /\ socket = "draining" THEN taken + 1 ELSE taken
  /\ UNCHANGED <<startVars, objVars, queue, snap, dead, deadline, socket>>

(* The read fails: its deadline passes or the socket is closed.  A reader  *)
(* woken by the deadline of Close that has not run before DrainPort sets   *)
(* another one is back in its read.                                        *)
readLoopFails ==
  /\ read = "read"
  /\ IF ice THEN agent = "closed" ELSE deadline # "none" \/ socket = "released"
  /\ readLoopStops
  /\ UNCHANGED <<startVars, agent, srtp, dtls, pkt, queue, snap, connVars>>

EndpointClosed(k) ==
  mux = "closed" \/ (IF k = "dtls" THEN dtls ELSE srtp) = "closed"

(* The select: the queue has room, the endpoint or the mux is closed.      *)
readLoopDelivers ==
  /\ read = "deliver"
  /\ \/ /\ queue[pkt] < QueueSize
        /\ queue' = [queue EXCEPT ![pkt] = @ + 1]
        /\ read' = "call"
     \/ /\ EndpointClosed(pkt)
        /\ read' = "call"
        /\ UNCHANGED queue
     \/ /\ mux = "closed"
        /\ read' = "done"
        /\ UNCHANGED queue
  /\ pkt' = "none"
  /\ UNCHANGED <<startVars, objVars, snap, connVars>>

(* The readers of the SRTP sessions, and of DTLS after the handshake.      *)
endpointReads ==
  /\ mux = "open"
  /\ \E k \in Kinds :
       /\ IF k = "dtls" THEN dtls = "open" ELSE srtp = "open"
       /\ queue[k] > 0
       /\ queue' = [queue EXCEPT ![k] = @ - 1]
  /\ UNCHANGED <<startVars, objVars, read, pkt, snap, connVars>>

(* The sessions and the connection end when their endpoint is closed.      *)
sessionEnds ==
  /\ mux = "closed"
  /\ \/ srtp = "open" /\ srtp' = "closed" /\ UNCHANGED dtls
     \/ dtls = "open" /\ dtls' = "closed" /\ UNCHANGED srtp
  /\ UNCHANGED <<startVars, agent, mux, muxVars, snap, connVars>>

Mux ==
  \/ readLoopCalls \/ readLoopReads \/ readLoopFails \/ readLoopDelivers
  \/ endpointReads \/ sessionEnds
-----------------------------------------------------------------------------
(* Close: what start has made is read first and closed then, without the   *)
(* lock.  start writes s.mux, s.srtp and s.srtcp without the lock: until   *)
(* it has published s.dtls under it, a read may miss them.  Without ICE    *)
(* s.mux is set before start runs.                                         *)
Racy(x) == IF st = "done" THEN {x} ELSE {x, "nil"}

closeReads ==
  /\ \E m \in IF ice THEN Racy(mux) ELSE {mux}, s \in Racy(srtp) :
       snap' = [agent |-> agent, mux |-> m, srtp |-> s, dtls |-> dtls]
  /\ UNCHANGED <<startVars, objVars, muxVars, connVars>>

Shut(name, x) == IF snap[name] = "nil" THEN x ELSE "closed"

(* Mutant of closeAll: the agent is left to the mux.                       *)
closeAll_KeepsAgent ==
  /\ agent' = agent
  /\ mux' = Shut("mux", mux)
  /\ srtp' = Shut("srtp", srtp)
  /\ dtls' = Shut("dtls", dtls)
  /\ UNCHANGED <<startVars, muxVars, snap, connVars>>

closeAll ==
  /\ agent' = Shut("agent", agent)
  /\ mux' = Shut("mux", mux)
  /\ srtp' = Shut("srtp", srtp)
  /\ dtls' = Shut("dtls", dtls)
  /\ UNCHANGED <<startVars, muxVars, snap, connVars>>

(* AcceptStream: waits for start, and then for a stream; it fails when the *)
(* handshake failed or the session is closed.                              *)
AcceptFails == st = "done" /\ (err \/ srtp = "closed")
=============================================================================
