------------------------- MODULE PortShutdownProofs -------------------------
(***************************************************************************)
(* The media port of a call, for every value of the constants: the readers *)
(* of its socket follow each other, the media timeout comes in time, and   *)
(* never early.                                                            *)
(*                                                                         *)
(* Then the end of the process: a graceful stop hangs up on no call that   *)
(* it has counted, for any finite sets of calls.                           *)
(***************************************************************************)
EXTENDS MediaPort, MediaTimeout, ServiceShutdown, FiniteSetTheorems, TLAPS

USE SMTT(30)

-----------------------------------------------------------------------------
(* The socket and its readers                                              *)

USE DEF vars, dtlsVars, portVars, startVars, objVars, muxVars, connVars

(* The flags of the session stay Boolean.                                  *)
LEMMA DtlsFlags ==
  ASSUME DtlsTypeOK, contextExpires \/ Start \/ Mux \/ newDTLSSRTPSession
  PROVE  {ice', expired', err', dead'} \subseteq BOOLEAN
  <1>1. \A x \in {ice, expired, err, dead} : x \in BOOLEAN
    BY Zenon DEF DtlsTypeOK
  <1> QED
    BY <1>1, ZenonT(60) DEF contextExpires, Start, Mux, newDTLSSRTPSession,
         connectICE, connectICEGathers, connectICEDials, newConn,
         handshakeReads, handshakeFails, openSessions, startReturns,
         readLoopCalls, readLoopReads, readLoopFails, readLoopStops,
         readLoopDelivers, endpointReads, sessionEnds, Returns, Fails

(* So do those of the port.                                                *)
LEMMA PortFlags ==
  ASSUME PortTypeOK, DtlsTypeOK,
         \/ discardLoopReads \/ discardLoopEnds \/ Config \/ rtpLoopEnds
         \/ Close \/ Closer \/ DrainPortReads \/ DrainPort
  PROVE  {secure', stop', sess', broken', late', dead'} \subseteq BOOLEAN
  <1>1. \A x \in {secure, stop, sess, broken, late, dead} : x \in BOOLEAN
    BY Zenon DEF PortTypeOK, DtlsTypeOK
  <1> QED
    BY <1>1, ZenonT(60) DEF discardLoopReads, discardLoopEnds, Config,
         SetConfig, stopDiscarding, createSession, newDTLSSRTPSession,
         storeSession, setupOutput, rtpLoopEnds, Close, Closer, closeLocks,
         closeSession, closeReads, closeSessionShuts, closeAll, closePort,
         closeReturns, ClosedBreaks, DrainPortReads, DrainPort

(* A step that neither drains the socket nor reads from it.                *)
LEMMA ConnFrame ==
  ASSUME ConnTypeOK, UNCHANGED <<deadline, socket, taken>>
  PROVE  ConnTypeOK'
  BY Zenon DEF ConnTypeOK

(* A step of the port that leaves the session alone.                       *)
LEMMA DtlsFrame ==
  ASSUME DtlsTypeOK, DtlsInv, UNCHANGED dtlsVars
  PROVE  DtlsTypeOK' /\ DtlsInv'
  <1>1. DtlsTypeOK'
    BY Zenon, ConnFrame DEF DtlsTypeOK
  <1> QED BY Zenon, <1>1 DEF DtlsInv

(* start makes the session: what it opens is typed, the handshake counts   *)
(* no more than its flights, and st does not go back to "none".            *)
LEMMA StartStep ==
  ASSUME DtlsTypeOK, DtlsInv, contextExpires \/ Start
  PROVE  /\ DtlsTypeOK' /\ DtlsInv'
         /\ st # "none"
  <1>f. {ice', expired', err', dead'} \subseteq BOOLEAN
    BY Zenon, DtlsFlags
  <1>1. CASE contextExpires
    <2>1. DtlsTypeOK'
      BY Zenon, <1>1, <1>f, ConnFrame DEF contextExpires, DtlsTypeOK
    <2> QED BY Zenon, <1>1, <2>1 DEF contextExpires, DtlsInv
  <1>2. CASE connectICE \/ connectICEGathers
    <2>1. DtlsTypeOK'
      BY Zenon, <1>2, <1>f, ConnFrame DEF connectICE, connectICEGathers,
           Returns, Fails, DtlsTypeOK, Life
    <2> QED BY Zenon, <1>2, <2>1 DEF connectICE, connectICEGathers, Returns,
         Fails, DtlsInv
  <1>3. CASE connectICEDials
    <2>1. DtlsTypeOK'
      BY Zenon, <1>3, <1>f, ConnFrame DEF connectICEDials, newDTLSMux,
           Returns, Fails, DtlsTypeOK, Life
    <2> QED BY Zenon, <1>3, <2>1 DEF connectICEDials, newDTLSMux, Returns,
         Fails, DtlsInv
  <1>4. CASE newConn \/ handshakeFails
    BY <1>4, <1>f, DtlsAssumption, ConnFrame DEF newConn, handshakeFails,
         DtlsTypeOK, DtlsInv
  <1>5. CASE handshakeReads
    <2>1. queue["dtls"] - 1 \in 0..QueueSize
      BY <1>5, DtlsAssumption DEF handshakeReads, DtlsTypeOK, Kinds
    <2>2. queue' \in [Kinds -> 0..QueueSize]
      BY <1>5, <2>1, Zenon DEF handshakeReads, DtlsTypeOK
    <2> QED BY <1>5, <1>f, <2>2, DtlsAssumption, ConnFrame DEF handshakeReads,
              DtlsTypeOK, DtlsInv
  <1>6. CASE openSessions \/ startReturns
    <2>1. DtlsTypeOK'
      BY Zenon, <1>6, <1>f, ConnFrame DEF openSessions, startReturns,
           Returns, DtlsTypeOK, Life
    <2> QED BY Zenon, <1>6, <2>1 DEF openSessions, startReturns, Returns,
         DtlsInv
  <1> QED BY Zenon, <1>1, <1>2, <1>3, <1>4, <1>5, <1>6 DEF Start

(* The mux leaves start alone.                                             *)
LEMMA MuxStep ==
  ASSUME DtlsTypeOK, DtlsInv, Mux
  PROVE  /\ DtlsTypeOK' /\ DtlsInv'
         /\ st' = st
  <1>f. {ice', expired', err', dead'} \subseteq BOOLEAN
    BY Zenon, DtlsFlags
  <1>1. CASE readLoopReads
    <2>1. ConnTypeOK'
      BY <1>1 DEF readLoopReads, DtlsTypeOK, ConnTypeOK
    <2>2. /\ read' \in {"call", "deliver"}
          /\ read' = "deliver" => pkt' \in Kinds
      BY Zenon, <1>1 DEF readLoopReads
    <2>3. DtlsTypeOK'
      BY Zenon, <1>1, <1>f, <2>1, <2>2 DEF readLoopReads, DtlsTypeOK
    <2> QED BY Zenon, <1>1, <2>2, <2>3 DEF readLoopReads, DtlsInv
  <1>2. CASE readLoopDelivers
    <2>1. queue' \in [Kinds -> 0..QueueSize]
      BY <1>2, DtlsAssumption DEF readLoopDelivers, DtlsTypeOK, DtlsInv
    <2>2. DtlsTypeOK'
      BY Zenon, <1>2, <1>f, <2>1, ConnFrame DEF readLoopDelivers, DtlsTypeOK
    <2> QED BY Zenon, <1>2, <2>2 DEF readLoopDelivers, DtlsInv
  <1>3. CASE endpointReads
    <2>1. queue' \in [Kinds -> 0..QueueSize]
      BY <1>3, DtlsAssumption DEF endpointReads, DtlsTypeOK
    <2>2. DtlsTypeOK'
      BY Zenon, <1>3, <1>f, <2>1, ConnFrame DEF endpointReads, DtlsTypeOK
    <2> QED BY Zenon, <1>3, <2>2 DEF endpointReads, DtlsInv
  <1>4. CASE sessionEnds
    <2>1. DtlsTypeOK'
      BY Zenon, <1>4, <1>f, ConnFrame DEF sessionEnds, DtlsTypeOK, Life
    <2> QED BY Zenon, <1>4, <2>1 DEF sessionEnds, DtlsInv
  <1>5. CASE readLoopCalls \/ readLoopFails
    <2>1. DtlsTypeOK'
      BY Zenon, <1>5, <1>f, ConnFrame DEF readLoopCalls, readLoopFails,
           readLoopStops, DtlsTypeOK, Life
    <2> QED BY Zenon, <1>5, <2>1 DEF readLoopCalls, readLoopFails,
         readLoopStops, DtlsInv
  <1> QED BY Zenon, <1>1, <1>2, <1>3, <1>4, <1>5 DEF Mux

(* readLoop gets no second packet from a socket that is being drained: a   *)
(* packet ends its read, and Read is refused on a closed udpConn.          *)
LEMMA TakesOne ==
  ASSUME DtlsTypeOK, contextExpires \/ Start \/ Mux,
         socket # "open" => dead, taken <= 1,
         taken > 0 => ~ice /\ dead /\ read # "read"
  PROVE  /\ UNCHANGED <<ice, dead, socket>>
         /\ taken' <= 1
         /\ taken' > 0 => ~ice' /\ dead' /\ read' # "read"
  <1>1. CASE readLoopReads
    <2>1. taken = 0 /\ read' # "read"
      BY <1>1 DEF readLoopReads, DtlsTypeOK, ConnTypeOK
    <2> QED BY <1>1, <2>1 DEF readLoopReads
  <1>2. CASE readLoopCalls
    <2>1. \/ read' # "read"
          \/ ~(~ice /\ dead)
      BY Zenon, <1>2 DEF readLoopCalls, readLoopStops, ReadRefused
    <2> QED BY Zenon, <1>2, <2>1 DEF readLoopCalls
  <1>3. CASE contextExpires \/ Start
    <2>1. /\ UNCHANGED <<ice, dead, socket, taken>>
          /\ read' = read \/ read' = "call"
      BY ZenonT(30), <1>3 DEF contextExpires, Start, connectICE,
           connectICEGathers, connectICEDials, newDTLSMux, newConn,
           handshakeReads, handshakeFails, openSessions, startReturns
    <2> QED BY Zenon, <2>1
  <1>4. CASE readLoopFails \/ readLoopDelivers \/ endpointReads \/ sessionEnds
    <2>1. /\ UNCHANGED <<ice, dead, socket, taken>>
          /\ read' = read \/ read' # "read"
      BY Zenon, <1>4 DEF readLoopFails, readLoopStops, readLoopDelivers,
           endpointReads, sessionEnds
    <2> QED BY Zenon, <2>1
  <1> QED BY Zenon, <1>1, <1>2, <1>3, <1>4 DEF Mux

(* The steps of the session concern the port only in that it is there.     *)
LEMMA SessionStep ==
  ASSUME PortInv, Dtls
  PROVE  PortInv'
  <1> DtlsTypeOK /\ PortTypeOK /\ OneReader /\ DtlsInv /\ ReaderInv
    BY Zenon DEF PortInv, OneReader
  <1>1. DtlsTypeOK' /\ DtlsInv' /\ (st' # "none" => st # "none")
    BY Zenon, StartStep, MuxStep DEF Dtls
  <1>2. UNCHANGED portVars
    BY Zenon DEF Dtls
  <1>3. PortTypeOK'
    BY Zenon, <1>2 DEF PortTypeOK
  <1>4. /\ UNCHANGED <<ice, dead, socket>>
        /\ taken' <= 1
        /\ taken' > 0 => ~ice' /\ dead' /\ read' # "read"
    BY Zenon, TakesOne DEF Dtls, OneReader, ReaderInv
  <1>5. OneReader' /\ ReaderInv'
    BY Zenon, <1>1, <1>2, <1>3, <1>4 DEF OneReader, ReaderInv, DtlsInv
  <1> QED BY Zenon, <1>1, <1>5 DEF PortInv

(* discardLoop and SetConfig, with the rtpLoop that SetConfig starts.      *)
LEMMA ConfigStep ==
  ASSUME PortInv, discardLoopReads \/ discardLoopEnds \/ Config \/ rtpLoopEnds
  PROVE  PortInv'
  <1> DtlsTypeOK /\ PortTypeOK /\ OneReader /\ DtlsInv /\ ReaderInv
    BY Zenon DEF PortInv, OneReader
  <1>f. {secure', stop', sess', broken', late', dead'} \subseteq BOOLEAN
    BY Zenon, PortFlags
  <1>1. CASE discardLoopReads \/ discardLoopEnds
    <2>1. UNCHANGED <<ice, expired, err, dead>>
      BY Zenon, <1>1 DEF discardLoopReads, discardLoopEnds
    <2>c. ConnTypeOK'
      BY Zenon, <1>1 DEF discardLoopReads, discardLoopEnds, DtlsTypeOK,
           ConnTypeOK
    <2>2. DtlsTypeOK'
      BY Zenon, <1>1, <2>1, <2>c DEF discardLoopReads, discardLoopEnds,
           DtlsTypeOK
    <2>3. PortTypeOK'
      BY Zenon, <1>1, <1>f DEF discardLoopReads, discardLoopEnds, PortTypeOK
    <2>4. /\ discard' = discard \/ discard' = "done"
          /\ UNCHANGED <<ice, st, flights, read, pkt, dead, socket, taken,
                         config, rtpLoop, closer, late>>
      BY Zenon, <1>1 DEF discardLoopReads, discardLoopEnds
    <2>5. OneReader' /\ DtlsInv' /\ ReaderInv'
      BY Zenon, <2>2, <2>3, <2>4 DEF OneReader, DtlsInv, ReaderInv
    <2> QED BY Zenon, <2>5 DEF PortInv
  <1>2. CASE SetConfig
    <2>1. DtlsTypeOK' /\ DtlsInv'
      BY Zenon, <1>2, DtlsFrame DEF SetConfig
    <2>2. PortTypeOK'
      BY Zenon, <1>2, <1>f DEF SetConfig, PortTypeOK
    <2>3. OneReader' /\ ReaderInv'
      BY Zenon, <1>2, <2>1, <2>2 DEF SetConfig, OneReader, ReaderInv
    <2> QED BY Zenon, <2>1, <2>3 DEF PortInv
  <1>3. CASE createSession
    <2>1. PortTypeOK'
      BY Zenon, <1>3, <1>f DEF createSession, PortTypeOK
    <2>2. DtlsTypeOK' /\ DtlsInv'
      <3>1. CASE newDTLSSRTPSession
        <4>1. {ice', expired', err', dead'} \subseteq BOOLEAN
          BY Zenon, <3>1, DtlsFlags
        <4>2. DtlsTypeOK'
          BY Zenon, <3>1, <4>1, ConnFrame DEF newDTLSSRTPSession, newDTLSMux,
               DtlsTypeOK, Life
        <4> QED BY Zenon, <3>1, <4>2 DEF newDTLSSRTPSession, newDTLSMux,
             DtlsInv
      <3>2. CASE UNCHANGED dtlsVars
        BY Zenon, <3>2, DtlsFrame
      <3> QED BY Zenon, <1>3, <3>1, <3>2 DEF createSession
    <2>3. OneReader' /\ ReaderInv'
      <3>1. /\ UNCHANGED <<ice, dead, socket, taken>>
            /\ read' = read \/ read' = "call"
        BY Zenon, <1>3 DEF createSession, newDTLSSRTPSession, newDTLSMux
      <3> QED BY Zenon, <1>3, <2>1, <2>2, <3>1 DEF createSession, OneReader,
           ReaderInv
    <2> QED BY Zenon, <2>2, <2>3 DEF PortInv
  <1>4. CASE setupOutput
    <2>1. DtlsTypeOK' /\ DtlsInv'
      BY Zenon, <1>4, DtlsFrame DEF setupOutput
    <2>2. PortTypeOK'
      BY Zenon, <1>4, <1>f DEF setupOutput, setupInput, PortTypeOK, Life
    <2>3. \/ rtpLoop' = rtpLoop /\ late' = late
          \/ closer = "done" => late'
      BY <1>4, Zenon DEF setupOutput
    <2>4. OneReader' /\ ReaderInv'
      BY Zenon, <1>4, <2>1, <2>2, <2>3 DEF setupOutput, OneReader, ReaderInv
    <2> QED BY Zenon, <2>1, <2>4 DEF PortInv
  <1>5. CASE stopDiscarding
    <2>1. DtlsTypeOK' /\ DtlsInv'
      BY Zenon, <1>5, DtlsFrame DEF stopDiscarding
    <2>2. PortTypeOK'
      BY Zenon, <1>5, <1>f DEF stopDiscarding, PortTypeOK
    <2>3. OneReader' /\ ReaderInv'
      BY Zenon, <1>5, <2>1, <2>2 DEF stopDiscarding, Discarded, OneReader,
           ReaderInv
    <2> QED BY Zenon, <2>1, <2>3 DEF PortInv
  <1>6. CASE storeSession
    <2>1. DtlsTypeOK' /\ DtlsInv'
      BY Zenon, <1>6, DtlsFrame DEF storeSession
    <2>2. PortTypeOK'
      BY Zenon, <1>6, <1>f DEF storeSession, PortTypeOK
    <2>3. OneReader' /\ ReaderInv'
      BY Zenon, <1>6, <2>1, <2>2 DEF storeSession, OneReader, ReaderInv
    <2> QED BY Zenon, <2>1, <2>3 DEF PortInv
  <1>7. CASE rtpLoopEnds
    <2>1. DtlsTypeOK' /\ DtlsInv'
      BY Zenon, <1>7, DtlsFrame DEF rtpLoopEnds
    <2>2. PortTypeOK'
      BY ZenonT(30), <1>7, <1>f DEF rtpLoopEnds, PortTypeOK
    <2>3. OneReader' /\ ReaderInv'
      BY Zenon, <1>7, <2>1, <2>2 DEF rtpLoopEnds, OneReader, ReaderInv
    <2> QED BY Zenon, <2>1, <2>3 DEF PortInv
  <1> QED BY Zenon, <1>1, <1>2, <1>3, <1>4, <1>5, <1>6, <1>7 DEF Config

(* Close, step by step, and DrainPort after it.                            *)
LEMMA CloseStep ==
  ASSUME PortInv, Close \/ Closer \/ DrainPortReads \/ DrainPort
  PROVE  PortInv'
  <1> DtlsTypeOK /\ PortTypeOK /\ OneReader /\ DtlsInv /\ ReaderInv
    BY Zenon DEF PortInv, OneReader
  <1>f. {secure', stop', sess', broken', late', dead'} \subseteq BOOLEAN
    BY Zenon, PortFlags
  <1>1. CASE Close \/ ClosedBreaks
    <2>1. DtlsTypeOK' /\ DtlsInv'
      BY Zenon, <1>1, DtlsFrame DEF Close, ClosedBreaks
    <2>2. PortTypeOK'
      BY Zenon, <1>1, <1>f DEF Close, ClosedBreaks, PortTypeOK
    <2>3. OneReader' /\ ReaderInv'
      <3>1. /\ closer' = closer \/ closer' = "lock"
            /\ UNCHANGED <<ice, st, read, dead, socket, taken, discard, config,
                           rtpLoop, late>>
            /\ socket # "open" => closer' = closer
        BY Zenon, <1>1 DEF Close, ClosedBreaks, ReaderInv
      <3> QED BY Zenon, <2>1, <2>2, <3>1 DEF OneReader, ReaderInv
    <2> QED BY Zenon, <2>1, <2>3 DEF PortInv
  <1>2. CASE closeLocks
    <2>1. /\ mu' = "close" /\ out' \in {out, "closed"}
          /\ closer' \in {"session", "discard"}
          /\ UNCHANGED <<dtlsVars, secure, discard, config, sess, rtpLoop, hnd,
                         broken, late>>
          /\ closer = "lock"
      BY <1>2, Zenon DEF closeLocks
    <2>2. DtlsTypeOK' /\ DtlsInv'
      BY Zenon, <2>1, DtlsFrame
    <2>3. PortTypeOK'
      BY Zenon, <1>f, <2>1 DEF PortTypeOK, Life
    <2>4. OneReader' /\ ReaderInv'
      BY Zenon, <2>1, <2>2, <2>3 DEF OneReader, ReaderInv
    <2> QED BY Zenon, <2>2, <2>4 DEF PortInv
  <1>3. CASE DrainPortReads \/ DrainPort
    <2>0. ConnTypeOK'
      BY Zenon, <1>3 DEF DrainPortReads, DrainPort, DtlsTypeOK, ConnTypeOK
    <2>1. DtlsTypeOK' /\ DtlsInv'
      BY Zenon, <1>3, <1>f, <2>0 DEF DrainPortReads, DrainPort, DtlsTypeOK,
           DtlsInv
    <2>2. PortTypeOK'
      BY Zenon, <1>3, <1>f DEF DrainPortReads, DrainPort, PortTypeOK
    <2>3. OneReader' /\ ReaderInv'
      <3>1. /\ socket = "draining"
            /\ UNCHANGED <<ice, st, read, dead, taken, portVars>>
        BY Zenon, <1>3 DEF DrainPortReads, DrainPort
      <3> QED BY Zenon, <2>1, <2>2, <3>1 DEF OneReader, ReaderInv
    <2> QED BY Zenon, <2>1, <2>3 DEF PortInv
  <1>4. CASE closeSession
    <2>1. snap' \in Objects
      BY <1>4 DEF closeSession, closeReads, Racy, DtlsTypeOK, Objects, Life
    <2>2. DtlsTypeOK' /\ PortTypeOK'
      BY ZenonT(30), <1>4, <1>f, <2>1, ConnFrame DEF closeSession, closeReads,
           DtlsTypeOK, PortTypeOK
    <2>3. OneReader' /\ DtlsInv' /\ ReaderInv'
      BY Zenon, <1>4, <2>2 DEF closeSession, closeReads, OneReader, DtlsInv,
           ReaderInv
    <2> QED BY Zenon, <2>3 DEF PortInv
  <1>5. CASE closeSessionShuts
    <2>1. DtlsTypeOK' /\ PortTypeOK'
      BY <1>5, <1>f, ConnFrame DEF closeSessionShuts, closeAll, Shut,
           DtlsTypeOK, PortTypeOK, Life
    <2>2. OneReader' /\ DtlsInv' /\ ReaderInv'
      BY Zenon, <1>5, <2>1 DEF closeSessionShuts, closeAll, OneReader,
           DtlsInv, ReaderInv
    <2> QED BY Zenon, <2>2 DEF PortInv
  <1>6. CASE closePort
    <2>1. DtlsTypeOK' /\ DtlsInv'
      <3>1. ConnTypeOK'
        BY Zenon, <1>6 DEF closePort, DtlsTypeOK, ConnTypeOK
      <3> QED BY Zenon, <1>6, <1>f, <3>1 DEF closePort, DtlsTypeOK, DtlsInv
    <2>2. PortTypeOK'
      BY Zenon, <1>6, <1>f DEF closePort, PortTypeOK
    <2>3. OneReader' /\ ReaderInv'
      BY Zenon, <1>6, <2>1, <2>2 DEF closePort, Discarded, OneReader,
           ReaderInv
    <2> QED BY Zenon, <2>1, <2>3 DEF PortInv
  <1>7. CASE closeReturns
    <2>1. DtlsTypeOK' /\ DtlsInv'
      <3>1. ConnTypeOK'
        BY Zenon, <1>7 DEF closeReturns, DtlsTypeOK, ConnTypeOK
      <3> QED BY Zenon, <1>7, <3>1 DEF closeReturns, DtlsTypeOK, DtlsInv
    <2>2. PortTypeOK'
      BY Zenon, <1>7, <1>f DEF closeReturns, PortTypeOK, Life
    <2>3. OneReader' /\ ReaderInv'
      BY Zenon, <1>7, <2>1, <2>2 DEF closeReturns, OneReader, ReaderInv
    <2> QED BY Zenon, <2>1, <2>3 DEF PortInv
  <1> QED BY Zenon, <1>1, <1>2, <1>3, <1>4, <1>5, <1>6, <1>7 DEF Closer

(* A new port, with or without discardLoop, satisfies the invariant.       *)
LEMMA PortStarts == NewMediaPortWith => PortInv
  <1> SUFFICES ASSUME NewMediaPortWith PROVE PortInv
    OBVIOUS
  <1>1. {ice, expired, err, dead, secure, stop, sess, broken, late}
          \subseteq BOOLEAN
    BY Zenon DEF NewMediaPortWith, DtlsInit
  <1>2. DtlsTypeOK
    BY <1>1, DtlsAssumption DEF NewMediaPortWith, DtlsInit, DtlsTypeOK,
         ConnTypeOK, Nothing, Objects, Life, Kinds
  <1>3. PortTypeOK
    BY Zenon, <1>1 DEF NewMediaPortWith, PortTypeOK, Life
  <1>4. taken <= 1 /\ ~(taken > 0)
    BY DEF NewMediaPortWith, DtlsInit
  <1> QED BY Zenon, <1>2, <1>3, <1>4 DEF NewMediaPortWith, DtlsInit, PortInv,
       OneReader, DtlsInv, ReaderInv

(* Every reachable state satisfies it.                                     *)
THEOREM PortInvariance == Spec => []PortInv
  <1>1. PortInv /\ [Next]_vars => PortInv'
    <2> SUFFICES ASSUME PortInv, [Next]_vars
                 PROVE  PortInv'
      OBVIOUS
    <2>1. CASE Next
      BY <2>1, SessionStep, ConfigStep, CloseStep, Zenon DEF Next
    <2>2. CASE UNCHANGED vars
      <3>1. DtlsTypeOK' /\ DtlsInv'
        BY Zenon, <2>2, DtlsFrame DEF PortInv, OneReader
      <3>2. PortTypeOK'
        BY Zenon, <2>2 DEF PortInv, OneReader, PortTypeOK
      <3> QED BY Zenon, <2>2, <3>1, <3>2 DEF PortInv, OneReader, ReaderInv
    <2> QED BY Zenon, <2>1, <2>2
  <1> QED BY <1>1, PortStarts, PTL DEF Spec

(* The readers of the socket follow each other: SetConfig and Close wait   *)
(* for discardWG, and Close for rtpLoopWG, unless SetConfig had the lock   *)
(* before the fuse broke.  readLoop, which Close does not wait for, takes  *)
(* at most one packet from DrainPort.                                      *)
THEOREM OneReaderHolds == Spec => []OneReader
  <1>1. PortInv => OneReader
    BY Zenon DEF PortInv
  <1> QED BY <1>1, PortInvariance, PTL
-----------------------------------------------------------------------------
(* The timeout                                                             *)

USE DEF timeoutVars, loopVars

(* The timeouts a port starts with are positive.                           *)
LEMMA Options ==
  /\ OptInitial \in Nat \ {0} /\ OptGeneral \in Nat \ {0}
  /\ Park \in Nat
  BY TimeoutAssumption DEF OptInitial, OptGeneral, OrDefault, Park

(* enableTimeout is called with positive ones.                             *)
LEMMA Arguments ==
  ASSUME NEW i \in Nat, NEW g \in Nat
  PROVE  [initial |-> OrDefault(i, DefInitial),
          general |-> OrDefault(g, DefGeneral)]
           \in [initial : Nat \ {0}, general : Nat \ {0}]
  BY TimeoutAssumption DEF OrDefault

(* The flags of the timeout stay Boolean.                                  *)
LEMMA TimeoutFlags ==
  ASSUME TimeoutTypeOK, TimeoutNext
  PROVE  {kick', fired', closed', overlap', early'} \subseteq BOOLEAN
  <1>1. \A x \in {kick, fired, closed, overlap, early} : x \in BOOLEAN
    BY Zenon DEF TimeoutTypeOK
  <1> QED
    BY <1>1, ZenonT(60) DEF TimeoutNext, disableTimeout, EnableTimeout,
         SetTimeout, enableTimeout, enableTimeoutStores, timeoutLoopWakes,
         timeoutLoopReadsStart, timeoutLoopReads, timeoutLoopDecides,
         rtpReadLoop, PortCloses, Tick, kickTimeoutLoop

(* The steps of the call that arm the timeout.                             *)
LEMMA ArmingStep ==
  ASSUME TimeoutInv, TimeoutNext,
         disableTimeout \/ EnableTimeout \/ SetTimeout \/ enableTimeoutStores
  PROVE  TimeoutInv'
  <1> TimeoutTypeOK /\ ~early /\ PassInv /\ SleepInv
    BY Zenon DEF TimeoutInv
  <1>f. {kick', fired', closed', overlap', early'} \subseteq BOOLEAN
    BY Zenon, TimeoutFlags
  <1>1. CASE disableTimeout
    <2>1. TimeoutTypeOK'
      BY <1>1, <1>f, TimeoutAssumption DEF disableTimeout, TimeoutTypeOK
    <2>2. ~Settled' /\ (loop # "wait" => overlap')
      BY <1>1, Zenon DEF disableTimeout, kickTimeoutLoop, Settled
    <2>3. PassInv' /\ SleepInv' /\ early' = early
      BY Zenon, <1>1, <2>2 DEF disableTimeout, PassInv, SleepInv
    <2> QED BY Zenon, <2>1, <2>3 DEF TimeoutInv
  <1>2. CASE EnableTimeout \/ SetTimeout
    <2>1. TimeoutTypeOK'
      <3>1. PICK i \in Nat, g \in Nat :
              enableTimeout(i, g) /\ call' \in {"accepted", "noAck"}
        BY Zenon, <1>2, Options, TimeoutAssumption DEF EnableTimeout,
             SetTimeout, Min2
      <3>2. args' \in [initial : Nat \ {0}, general : Nat \ {0}]
        BY Zenon, <3>1, Arguments DEF enableTimeout
      <3> QED BY Zenon, <1>f, <3>1, <3>2 DEF enableTimeout, TimeoutTypeOK
    <2>2. PassInv' /\ SleepInv' /\ early' = early
      BY Zenon, <1>2 DEF EnableTimeout, SetTimeout, enableTimeout, PassInv,
           SleepInv, Settled
    <2> QED BY Zenon, <2>1, <2>2 DEF TimeoutInv
  <1>3. CASE enableTimeoutStores
    <2>1. TimeoutTypeOK'
      BY <1>3, <1>f DEF enableTimeoutStores, TimeoutTypeOK
    <2>2. ~Settled' /\ (loop # "wait" => overlap')
      BY <1>3, Zenon DEF enableTimeoutStores, kickTimeoutLoop, Settled
    <2>3. PassInv' /\ SleepInv' /\ early' = early
      BY Zenon, <1>3, <2>2 DEF enableTimeoutStores, PassInv, SleepInv
    <2> QED BY Zenon, <2>1, <2>3 DEF TimeoutInv
  <1> QED BY Zenon, <1>1, <1>2, <1>3

(* The steps of timeoutLoop.                                               *)
LEMMA LoopStep ==
  ASSUME TimeoutInv, TimeoutNext,
         \/ timeoutLoopWakes \/ timeoutLoopReadsStart \/ timeoutLoopReads
         \/ timeoutLoopDecides
  PROVE  TimeoutInv'
  <1> TimeoutTypeOK /\ ~early /\ PassInv /\ SleepInv
    BY Zenon DEF TimeoutInv
  <1>f. {kick', fired', closed', overlap', early'} \subseteq BOOLEAN
    BY Zenon, TimeoutFlags
  <1>1. CASE timeoutLoopWakes
    <2>1. TimeoutTypeOK'
      BY Zenon, <1>1, <1>f DEF timeoutLoopWakes, TimeoutTypeOK
    <2>2. PassInv' /\ SleepInv' /\ early' = early
      BY Zenon, <1>1 DEF timeoutLoopWakes, PassInv, SleepInv
    <2> QED BY Zenon, <2>1, <2>2 DEF TimeoutInv
  <1>2. CASE timeoutLoopReadsStart
    <2>1. TimeoutTypeOK'
      BY Zenon, <1>2, <1>f, Options DEF timeoutLoopReadsStart, TimeoutTypeOK
    <2>2. PassInv' /\ SleepInv' /\ early' = early
      BY Zenon, <1>2 DEF timeoutLoopReadsStart, PassInv, SleepInv,
           TimeoutTypeOK
    <2> QED BY Zenon, <2>1, <2>2 DEF TimeoutInv
  <1>3. CASE timeoutLoopReads
    <2>1. TimeoutTypeOK'
      BY Zenon, <1>3, <1>f DEF timeoutLoopReads, TimeoutTypeOK
    <2>2. PassInv' /\ SleepInv' /\ early' = early
      BY Zenon, <1>3 DEF timeoutLoopReads, PassInv, SleepInv, Settled,
           TimeoutTypeOK
    <2> QED BY Zenon, <2>1, <2>2 DEF TimeoutInv
  <1>4. CASE timeoutLoopDecides
    <2>1. TimeoutTypeOK'
      BY <1>4, <1>f DEF timeoutLoopDecides, Min2, TimeoutTypeOK
    <2>2. PassInv'
      BY Zenon, <1>4 DEF timeoutLoopDecides, PassInv
    <2>3. SleepInv'
      BY <1>4 DEF timeoutLoopDecides, SleepInv, PassInv, Settled, Deadline,
           Min2, TimeoutTypeOK
    <2>4. ~early'
      BY <1>4 DEF timeoutLoopDecides, NotDue, PassInv, TimeoutTypeOK
    <2> QED BY Zenon, <2>1, <2>2, <2>3, <2>4 DEF TimeoutInv
  <1> QED BY Zenon, <1>1, <1>2, <1>3, <1>4

(* Packets, the end of the port and time.                                  *)
LEMMA ClockStep ==
  ASSUME TimeoutInv, TimeoutNext, rtpReadLoop \/ PortCloses \/ Tick
  PROVE  TimeoutInv'
  <1> TimeoutTypeOK /\ ~early /\ PassInv /\ SleepInv
    BY Zenon DEF TimeoutInv
  <1>f. {kick', fired', closed', overlap', early'} \subseteq BOOLEAN
    BY Zenon, TimeoutFlags
  <1>1. CASE rtpReadLoop
    <2>1. TimeoutTypeOK'
      BY <1>1, <1>f, TimeoutAssumption DEF rtpReadLoop, TimeoutTypeOK
    <2>2. PassInv' /\ SleepInv' /\ early' = early
      BY <1>1 DEF rtpReadLoop, PassInv, SleepInv, Settled, Deadline,
           TimeoutTypeOK
    <2> QED BY Zenon, <2>1, <2>2 DEF TimeoutInv
  <1>2. CASE PortCloses
    <2>1. TimeoutTypeOK'
      BY Zenon, <1>2, <1>f DEF PortCloses, TimeoutTypeOK
    <2>2. PassInv' /\ SleepInv' /\ early' = early
      BY Zenon, <1>2 DEF PortCloses, PassInv, SleepInv, Settled, Deadline
    <2> QED BY Zenon, <2>1, <2>2 DEF TimeoutInv
  <1>3. CASE Tick
    <2>1. TimeoutTypeOK'
      BY <1>3, <1>f, TimeoutAssumption DEF Tick, TimeoutTypeOK
    <2>2. PassInv' /\ SleepInv' /\ early' = early
      BY <1>3 DEF Tick, Busy, PassInv, SleepInv, Settled, Deadline,
           TimeoutTypeOK
    <2> QED BY Zenon, <2>1, <2>2 DEF TimeoutInv
  <1> QED BY Zenon, <1>1, <1>2, <1>3

(* A new port satisfies the invariant.                                     *)
LEMMA TimeoutStarts == TimeoutInit => TimeoutInv
  <1> SUFFICES ASSUME TimeoutInit PROVE TimeoutInv
    OBVIOUS
  <1>1. {kick, fired, closed, overlap, early} \subseteq BOOLEAN
    BY Zenon DEF TimeoutInit
  <1>2. TimeoutTypeOK
    BY <1>1, Options, TimeoutAssumption DEF TimeoutInit, TimeoutTypeOK
  <1> QED BY Zenon, <1>2 DEF TimeoutInit, TimeoutInv, PassInv, SleepInv

(* Every reachable state satisfies it.                                     *)
THEOREM TimeoutInvariance == TimeoutSpec => []TimeoutInv
  <1>1. TimeoutInv /\ [TimeoutNext]_timeoutVars => TimeoutInv'
    <2> SUFFICES ASSUME TimeoutInv, [TimeoutNext]_timeoutVars
                 PROVE  TimeoutInv'
      OBVIOUS
    <2>1. CASE TimeoutNext
      BY <2>1, ArmingStep, LoopStep, ClockStep, Zenon DEF TimeoutNext
    <2>2. CASE UNCHANGED timeoutVars
      BY <2>2 DEF TimeoutInv, TimeoutTypeOK, PassInv, SleepInv, Settled,
           Deadline
    <2> QED BY Zenon, <2>1, <2>2
  <1> QED BY <1>1, TimeoutStarts, PTL DEF TimeoutSpec

(* timeoutLoop never sleeps past the deadline of a call without media,     *)
(* however packets and armings move it meanwhile.                          *)
THEOREM PromptTimeoutHolds == TimeoutSpec => []PromptTimeout
  <1>1. TimeoutInv => PromptTimeout
    BY DEF TimeoutInv, SleepInv, Settled, PromptTimeout, Busy, Deadline,
         TimeoutTypeOK
  <1> QED BY <1>1, TimeoutInvariance, PTL

(* timeoutLoop fires within the initial window of the last arming, or      *)
(* within the general one after a packet, only if it was armed between the *)
(* loads of that pass.                                                     *)
THEOREM NoEarlyTimeoutHolds == TimeoutSpec => []NoEarlyTimeout
  <1>1. TimeoutInv => NoEarlyTimeout
    BY Zenon DEF TimeoutInv, NoEarlyTimeout
  <1> QED BY <1>1, TimeoutInvariance, PTL
-----------------------------------------------------------------------------
(* The end of the process                                                  *)

USE DEF serviceVars, tables, process

(* An empty count is an empty table, and the tables are finite.            *)
LEMMA EmptyTable ==
  ASSUME NEW S \in SUBSET Calls
  PROVE  /\ Cardinality(S) \in Nat
         /\ Cardinality(S) = 0 <=> S = {}
  <1>1. IsFiniteSet(S)
    BY Zenon, CallsAssumption, FS_Subset DEF Calls
  <1> QED BY Zenon, <1>1, FS_CardinalityType, FS_EmptySet

(* The flags the steps assign stay Boolean.                                *)
LEMMA ShutdownFlags ==
  ASSUME ServiceTypeOK, ServiceNext
  PROVE  {shutdown', killed', topic', listening'} \subseteq BOOLEAN
  <1>1. \A x \in {shutdown, killed, topic, listening} : x \in BOOLEAN
    BY Zenon DEF ServiceTypeOK
  <1> QED
    BY <1>1, ZenonT(60) DEF ServiceNext, Signal, Stop, StopMonitor, StopBreaks,
         StopKills, Run, RunWakes, RunChecks, RunCounts, RunTicks, ClientStop,
         CloseCall, ClientStopped, ServerStop, ServerStopped,
         createSIPParticipant, newCall, newInboundCall, callEnds

(* Every step keeps the types.                                             *)
LEMMA ShutdownTypes ==
  ASSUME ServiceTypeOK, ServiceNext
  PROVE  ServiceTypeOK'
  <1>0. {shutdown', killed', topic', listening'} \subseteq BOOLEAN
    BY Zenon, ShutdownFlags
  <1>1. activeCalls \in SUBSET Calls /\ Cardinality(activeCalls) \in Nat
    BY Zenon, EmptyTable DEF ServiceTypeOK, Calls
  <1>2. CASE Signal \/ Stop
    <2>1. CASE Signal \/ StopMonitor
      BY Zenon, <1>0, <2>1 DEF Signal, StopMonitor, ServiceTypeOK
    <2>2. CASE StopBreaks \/ StopKills
      BY Zenon, <1>0, <2>2 DEF StopBreaks, StopKills, ServiceTypeOK
    <2> QED BY Zenon, <1>2, <2>1, <2>2 DEF Stop
  <1>3. CASE RunWakes \/ RunChecks \/ RunCounts \/ RunTicks
    <2>1. CASE RunWakes \/ RunTicks
      BY Zenon, <1>0, <2>1 DEF RunWakes, RunTicks, ServiceTypeOK, Calls
    <2>2. CASE RunChecks
      BY Zenon, <1>0, <1>1, <2>2 DEF RunChecks, ServiceTypeOK, Calls
    <2>3. CASE RunCounts
      BY Zenon, <1>0, <2>3 DEF RunCounts, ServiceTypeOK, Calls
    <2> QED BY Zenon, <1>3, <2>1, <2>2, <2>3
  <1>4. CASE ClientStop \/ ClientStopped \/ ServerStop \/ ServerStopped
    <2>1. CASE ClientStop \/ ClientStopped
      BY Zenon, <1>0, <2>1 DEF ClientStop, ClientStopped, ServiceTypeOK, Calls
    <2>2. CASE ServerStop \/ ServerStopped
      BY Zenon, <1>0, <2>2 DEF ServerStop, ServerStopped, ServiceTypeOK, Calls
    <2> QED BY Zenon, <1>4, <2>1, <2>2
  <1>5. ASSUME NEW c \in Calls, CloseCall(c)
        PROVE  ServiceTypeOK'
    BY Zenon, <1>0, <1>5 DEF CloseCall, ServiceTypeOK, Calls
  <1>6. ASSUME NEW c \in Outbound, createSIPParticipant(c) \/ newCall(c)
        PROVE  ServiceTypeOK'
    BY <1>0, <1>6 DEF createSIPParticipant, newCall, ServiceTypeOK, Calls
  <1>7. ASSUME NEW c \in Inbound, newInboundCall(c)
        PROVE  ServiceTypeOK'
    BY Zenon, <1>0, <1>7 DEF newInboundCall, ServiceTypeOK, Calls
  <1>8. ASSUME NEW c \in Calls, callEnds(c)
        PROVE  ServiceTypeOK'
    BY Zenon, <1>0, <1>8 DEF callEnds, ServiceTypeOK, Calls
  <1> QED BY Zenon, <1>2, <1>3, <1>4, <1>5, <1>6, <1>7, <1>8 DEF ServiceNext,
       Run

(* Every step keeps the inductive invariant.  The loop is left without     *)
(* SIGINT only by RunCounts, with both tables counted empty.               *)
LEMMA ShutdownStep ==
  ASSUME ShutdownInv, ServiceNext
  PROVE  ShutdownInv'
  <1>0. ServiceTypeOK /\ ServiceTypeOK'
    BY Zenon, ShutdownTypes DEF ShutdownInv
  <1>1. CASE Signal \/ Stop
    <2>1. CASE Signal \/ StopMonitor
      BY <1>0, <2>1 DEF Signal, StopMonitor, ShutdownInv
    <2>2. CASE StopBreaks \/ StopKills
      <3>1. killed' => killed \/ signal = "kill"
        BY <2>2, Zenon DEF StopBreaks, StopKills
      <3> QED BY Zenon, <1>0, <2>2, <3>1 DEF StopBreaks, StopKills,
           ShutdownInv
    <2> QED BY Zenon, <1>1, <2>1, <2>2 DEF Stop
  <1>2. CASE RunCounts
    <2>1. /\ counted \in SUBSET Calls
          /\ byLocalTag \in SUBSET Calls
      BY Zenon, <1>0 DEF ServiceTypeOK, Calls
    <2>2. /\ Cardinality(counted) \in Nat /\ Cardinality(byLocalTag) \in Nat
          /\ Cardinality(counted) = 0 <=> counted = {}
          /\ Cardinality(byLocalTag) = 0 <=> byLocalTag = {}
      BY Zenon, <2>1, EmptyTable
    <2>3. run' = "client" => counted' = {}
      BY <1>2, <2>2 DEF RunCounts, ShutdownInv
    <2> QED BY Zenon, <1>0, <1>2, <2>3 DEF RunCounts, ShutdownInv
  <1>3. CASE RunWakes \/ RunChecks \/ RunTicks
    <2>1. CASE RunWakes \/ RunTicks
      BY <1>0, <2>1 DEF RunWakes, RunTicks, ShutdownInv
    <2>2. CASE RunChecks
      BY Zenon, <1>0, <2>2 DEF RunChecks, ShutdownInv
    <2> QED BY Zenon, <1>3, <2>1, <2>2
  <1>4. CASE ClientStop \/ ClientStopped \/ ServerStop \/ ServerStopped
    <2>1. CASE ClientStop \/ ClientStopped
      BY <1>0, <2>1 DEF ClientStop, ClientStopped, ShutdownInv
    <2>2. CASE ServerStop \/ ServerStopped
      BY <1>0, <2>2 DEF ServerStop, ServerStopped, ShutdownInv
    <2> QED BY Zenon, <1>4, <2>1, <2>2
  <1>5. ASSUME NEW c \in Calls, CloseCall(c)
        PROVE  ShutdownInv'
    BY Zenon, <1>0, <1>5 DEF CloseCall, ShutdownInv
  <1>6. ASSUME NEW c, createSIPParticipant(c) \/ newCall(c)
        PROVE  ShutdownInv'
    BY <1>0, <1>6 DEF createSIPParticipant, newCall, ShutdownInv
  <1>7. ASSUME NEW c, newInboundCall(c) \/ callEnds(c)
        PROVE  ShutdownInv'
    BY <1>0, <1>7 DEF newInboundCall, callEnds, ShutdownInv
  <1> QED
    BY Zenon, <1>1, <1>2, <1>3, <1>4, <1>5, <1>6, <1>7 DEF ServiceNext, Run

(* Start satisfies it.                                                     *)
LEMMA ShutdownStarts == ServiceInit => ShutdownInv
  <1> SUFFICES ASSUME ServiceInit PROVE ShutdownInv
    OBVIOUS
  <1>1. {shutdown, killed, topic, listening} \subseteq BOOLEAN
    BY Zenon DEF ServiceInit
  <1> QED BY Zenon, <1>1 DEF ServiceInit, ShutdownInv, ServiceTypeOK, Calls

(* Every reachable state of the process satisfies the inductive invariant. *)
THEOREM ShutdownInvariance == ServiceSpec => []ShutdownInv
  <1>1. ShutdownInv /\ [ServiceNext]_serviceVars => ShutdownInv'
    <2>1. CASE ServiceNext
      BY Zenon, <2>1, ShutdownStep
    <2>2. CASE UNCHANGED serviceVars
      BY ZenonT(30), <2>2 DEF ShutdownInv, ServiceTypeOK
    <2> QED BY Zenon, <2>1, <2>2
  <1> QED BY <1>1, ShutdownStarts, PTL DEF ServiceSpec

(* Service.Run closes, after SIGTERM, only calls that entered a table      *)
(* after its ActiveCalls loop had found that table empty.                  *)
THEOREM CountedCallsFinishHolds == ServiceSpec => []CountedCallsFinish
  <1>1. ASSUME ShutdownInv
        PROVE  CountedCallsFinish
    <2>1. \/ run \in {"wait", "loop", "inbound", "tick"}
          \/ run \in {"client", "closeOut", "server", "closeIn", "done"}
      BY Zenon, <1>1 DEF ShutdownInv, ServiceTypeOK
    <2>2. torn \cup closing = {} \/ signal = "kill" \/ counted = {}
      BY Zenon, <1>1, <2>1 DEF ShutdownInv
    <2> QED BY Zenon, <1>1, <2>2 DEF ShutdownInv, CountedCallsFinish
  <1> QED BY <1>1, ShutdownInvariance, PTL
=============================================================================
