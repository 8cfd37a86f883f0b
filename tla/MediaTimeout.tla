---------------------------- MODULE MediaTimeout ----------------------------
(***************************************************************************)
(* The media timeout of a call: timeoutLoop of pkg/sip/media_port.go, the  *)
(* calls that arm it (runMediaConn, acceptCall and waitForCallEnd of       *)
(* pkg/sip/inbound.go; the outbound leg makes the first two), and the RTP  *)
(* read loop that tells it of packets.                                     *)
(*                                                                         *)
(* Time is a counter.  It advances only when the loop waits and nothing is *)
(* due, so a step takes no time and a timer fires when it is due.  Each    *)
(* atomic load and store is a step of its own.                             *)
(***************************************************************************)
EXTENDS Integers

CONSTANTS
  InitialOpt, GeneralOpt,   \* the options of the port; 0 when not set
  DefInitial, DefGeneral,   \* defaultMediaTimeoutInitial, defaultMediaTimeout
  AckLate,                  \* inviteOkAckLateTimeout
  MaxErrors,                \* maxErrors of rtpReadLoop
  MaxTime                   \* the run ends here

ASSUME TimeoutAssumption ==
  /\ InitialOpt \in Nat /\ GeneralOpt \in Nat
  /\ DefInitial \in Nat \ {0} /\ DefGeneral \in Nat \ {0}
  /\ AckLate \in Nat \ {0} /\ MaxErrors \in Nat \ {0}
  /\ MaxTime \in Nat \ {0}

VARIABLES
  now,       \* the clock
  start,     \* timeoutStart, 0 for nil
  initial,   \* timeoutInitial
  general,   \* timeoutGeneral
  lastPkt,   \* lastPacketTime
  kick,      \* timeoutKick, a channel of capacity 1
  timer,     \* when the timer of the loop fires
  loop,      \* where timeoutLoop is
  seen,      \* what this pass of the loop has read
  fired,     \* mediaTimeout is closed
  closed,    \* p.closed
  call,      \* how far the call is with arming the timeout
  set,       \* where enableTimeout is
  args,      \* its arguments
  errors,    \* consecutive errors of the RTP read loop
  overlap,   \* enableTimeout ran during this pass of the loop
  early      \* the timeout fired before it was due

timeoutVars == <<now, start, initial, general, lastPkt, kick, timer, loop,
                 seen, fired, closed, call, set, args, errors, overlap, early>>

(* A pass of an hour when the timeout is off: beyond the end of the run.   *)
Park == MaxTime + 1
OrDefault(d, default) == IF d <= 0 THEN default ELSE d
Min2(a, b) == IF a < b THEN a ELSE b

OptInitial == OrDefault(InitialOpt, DefInitial)
OptGeneral == OrDefault(GeneralOpt, DefGeneral)

TimeoutTypeOK ==
  /\ now \in 1..MaxTime /\ start \in 0..MaxTime /\ lastPkt \in 0..MaxTime
  /\ initial \in Nat \ {0} /\ general \in Nat \ {0}
  /\ timer \in Nat
  /\ loop \in {"wait", "start", "packet", "general", "decide", "done"}
  /\ seen \in [start : 0..MaxTime, pkt : 0..MaxTime, general : Nat]
  /\ call \in {"created", "ringing", "accepted", "noAck"}
  /\ set \in {"idle", "initial", "general", "start", "kick"}
  /\ args \in [initial : Nat \ {0}, general : Nat \ {0}]
  /\ errors \in 0..MaxErrors
  /\ {kick, fired, closed, overlap, early} \subseteq BOOLEAN

(* NewMediaPortWith                                                        *)
TimeoutInit ==
  /\ now = 1 /\ start = 0 /\ lastPkt = 0
  /\ initial = OptInitial /\ general = OptGeneral
  /\ kick = FALSE /\ timer = Park
  /\ loop = "wait" /\ seen = [start |-> 0, pkt |-> 0, general |-> OptGeneral]
  /\ fired = FALSE /\ closed = FALSE
  /\ call = "created" /\ set = "idle"
  /\ args = [initial |-> OptInitial, general |-> OptGeneral]
  /\ errors = 0 /\ overlap = FALSE /\ early = FALSE
-----------------------------------------------------------------------------
kickTimeoutLoop == kick' = TRUE

loopVars == <<timer, loop, seen, fired, early>>

(* runMediaConn                                                            *)
disableTimeout ==
  /\ call = "created"
  /\ start' = 0
  /\ kickTimeoutLoop
  /\ overlap' = (loop # "wait")
  /\ call' = "ringing"
  /\ UNCHANGED <<now, initial, general, lastPkt, loopVars, closed, set, args,
                 errors>>

enableTimeout(i, g) ==
  /\ set = "idle"
  /\ args' = [initial |-> OrDefault(i, DefInitial),
              general |-> OrDefault(g, DefGeneral)]
  /\ set' = "initial"
  /\ UNCHANGED <<now, start, initial, general, lastPkt, kick, loopVars,
                 closed, errors, overlap>>

(* acceptCall                                                              *)
EnableTimeout ==
  /\ call = "ringing"
  /\ call' = "accepted"
  /\ enableTimeout(OptInitial, OptGeneral)

(* waitForCallEnd, when no ACK came in time.                               *)
SetTimeout ==
  /\ call = "accepted" /\ set = "idle"
  /\ now >= start + AckLate
  /\ ~closed
  /\ call' = "noAck"
  /\ enableTimeout(Min2(AckLate, OptInitial), OptGeneral)

(* The three stores of enableTimeout and the kick.                         *)
enableTimeoutStores ==
  /\ \/ set = "initial" /\ set' = "general"
        /\ initial' = args.initial /\ UNCHANGED <<general, start, kick>>
     \/ set = "general" /\ set' = "start"
        /\ general' = args.general /\ UNCHANGED <<initial, start, kick>>
     \/ set = "start" /\ set' = "kick"
        /\ start' = now /\ UNCHANGED <<initial, general, kick>>
     \/ set = "kick" /\ set' = "idle"
        /\ kickTimeoutLoop /\ UNCHANGED <<initial, general, start>>
  /\ overlap' = (overlap \/ loop # "wait")
  /\ UNCHANGED <<now, lastPkt, loopVars, closed, call, args, errors>>
-----------------------------------------------------------------------------
(* timeoutLoop                                                             *)

(* The select: closed, a kick or the timer.                                *)
timeoutLoopWakes ==
  /\ loop = "wait"
  /\ \/ closed /\ loop' = "done" /\ UNCHANGED kick
     \/ kick /\ kick' = FALSE /\ loop' = "start"
     \/ timer <= now /\ loop' = "start" /\ UNCHANGED kick
  /\ overlap' = (set # "idle")
  /\ UNCHANGED <<now, start, initial, general, lastPkt, timer, seen, fired,
                 closed, call, set, args, errors, early>>

timeoutLoopReadsStart ==
  /\ loop = "start"
  /\ IF start = 0
     THEN timer' = Park /\ loop' = "wait" /\ UNCHANGED seen
     ELSE seen' = [seen EXCEPT !.start = start] /\ loop' = "packet"
          /\ UNCHANGED timer
  /\ UNCHANGED <<now, start, initial, general, lastPkt, kick, fired, closed,
                 call, set, args, errors, overlap, early>>

timeoutLoopReads ==
  /\ \/ loop = "packet" /\ loop' = "general"
        /\ seen' = [seen EXCEPT !.pkt = lastPkt]
     \/ loop = "general" /\ loop' = "decide"
        /\ seen' = [seen EXCEPT !.general = general]
  /\ UNCHANGED <<now, start, initial, general, lastPkt, kick, timer, fired,
                 closed, call, set, args, errors, overlap, early>>

(* Due before its time: in the initial window of the last arming, or less  *)
(* than the general timeout after the last packet the loop saw.            *)
NotDue ==
  IF seen.pkt = 0 THEN now < start + initial ELSE now < seen.pkt + general

(* Mutant of timeoutLoopDecides: the wake-up is not capped at the general  *)
(* timeout.                                                                *)
timeoutLoopDecides_NoCap ==
  /\ loop = "decide"
  /\ LET deadline == IF seen.pkt = 0 THEN seen.start + initial
                     ELSE seen.pkt + seen.general
     IN IF deadline <= now
        THEN /\ fired' = TRUE /\ loop' = "done"
             /\ early' = (NotDue /\ ~overlap)
             /\ UNCHANGED timer
        ELSE /\ timer' = deadline /\ loop' = "wait"
             /\ UNCHANGED <<fired, early>>
  /\ UNCHANGED <<now, start, initial, general, lastPkt, kick, seen, closed,
                 call, set, args, errors, overlap>>

(* Mutant of timeoutLoopDecides: the general timeout runs from the start.  *)
timeoutLoopDecides_FromStart ==
  /\ loop = "decide"
  /\ LET timeout == IF seen.pkt = 0 THEN initial ELSE seen.general
         remaining == seen.start + timeout - now
     IN IF remaining <= 0
        THEN /\ fired' = TRUE /\ loop' = "done"
             /\ early' = (NotDue /\ ~overlap)
             /\ UNCHANGED timer
        ELSE /\ timer' = now + Min2(remaining, seen.general) /\ loop' = "wait"
             /\ UNCHANGED <<fired, early>>
  /\ UNCHANGED <<now, start, initial, general, lastPkt, kick, seen, closed,
                 call, set, args, errors, overlap>>

timeoutLoopDecides ==
  /\ loop = "decide"
  /\ LET deadline == IF seen.pkt = 0 THEN seen.start + initial
                     ELSE seen.pkt + seen.general
         remaining == deadline - now
     IN IF remaining <= 0
        THEN /\ fired' = TRUE /\ loop' = "done"
             /\ early' = (NotDue /\ ~overlap)
             /\ UNCHANGED timer
        ELSE /\ timer' = now + Min2(remaining, seen.general) /\ loop' = "wait"
             /\ UNCHANGED <<fired, early>>
  /\ UNCHANGED <<now, start, initial, general, lastPkt, kick, seen, closed,
                 call, set, args, errors, overlap>>
-----------------------------------------------------------------------------
(* rtpReadLoop: a packet counts as media even if its handler fails, until  *)
(* too many failures in a row end the loop.                                *)
rtpReadLoop ==
  /\ ~closed /\ errors < MaxErrors
  /\ lastPkt' = now
  /\ errors' \in {0, errors + 1}
  /\ UNCHANGED <<now, start, initial, general, kick, loopVars, closed, call,
                 set, args, overlap>>

PortCloses ==
  /\ ~closed
  /\ closed' = TRUE
  /\ UNCHANGED <<now, start, initial, general, lastPkt, kick, loopVars, call,
                 set, args, errors, overlap>>

(* Something of the loop or of enableTimeout is ready to run.              *)
Busy ==
  \/ set # "idle"
  \/ loop \notin {"wait", "done"}
  \/ loop = "wait" /\ (closed \/ kick \/ timer <= now)

Tick ==
  /\ now < MaxTime
  /\ ~Busy
  /\ now' = now + 1
  /\ UNCHANGED <<start, initial, general, lastPkt, kick, loopVars, closed,
                 call, set, args, errors, overlap>>

TimeoutNext ==
  \/ disableTimeout \/ EnableTimeout \/ SetTimeout \/ enableTimeoutStores
  \/ timeoutLoopWakes \/ timeoutLoopReadsStart \/ timeoutLoopReads
  \/ timeoutLoopDecides
  \/ rtpReadLoop \/ PortCloses \/ Tick

TimeoutSpec == TimeoutInit /\ [][TimeoutNext]_timeoutVars
-----------------------------------------------------------------------------
(* Properties                                                              *)

Deadline == IF lastPkt = 0 THEN start + initial ELSE lastPkt + general

(* A call without media is never kept longer than its timeout: when the    *)
(* timeout is armed and its deadline is reached, the loop is awake or is   *)
(* woken before time advances, although the deadline moves with every      *)
(* packet and with every arming while the loop sleeps on an older one.     *)
PromptTimeout ==
  /\ TimeoutTypeOK
  /\ start # 0 /\ set = "idle" /\ ~fired /\ ~closed /\ now >= Deadline => Busy

(* A call with media is not cut off: the timeout fires only when the       *)
(* initial window of the last arming has passed without any packet (tests: *)
(* "the new initial window applies from the moment of the SetTimeout       *)
(* call"), or the general one since the last packet.  Except: SetTimeout   *)
(* ran between the loads of the loop, which then mixes old and new values. *)
NoEarlyTimeout == ~early
-----------------------------------------------------------------------------
(* The inductive invariant behind both, in named parts.                    *)

(* No arming is under way that the loop has not been told of yet.          *)
Settled == ~kick /\ set = "idle"

(* What a pass of the loop has read is current, unless the timeout was     *)
(* armed during the pass: then overlap tells, and a kick is there or will  *)
(* be.  No time passes during it, so a packet it missed came just now.     *)
PassInv ==
  /\ loop \in {"packet", "general", "decide"} /\ (~overlap \/ Settled) =>
       seen.start = start
  /\ loop = "decide" /\ (~overlap \/ Settled) => seen.general = general
  /\ loop \in {"general", "decide"} => seen.pkt = lastPkt \/ lastPkt = now

(* The loop does not sleep beyond the deadline.  It sleeps no longer than  *)
(* the general timeout either, so a packet that comes meanwhile does not   *)
(* move the deadline before its waking.                                    *)
SleepInv ==
  /\ loop = "wait" /\ start # 0 /\ Settled =>
       timer <= Deadline /\ timer <= now + general
  /\ loop = "done" => fired \/ closed

TimeoutInv == TimeoutTypeOK /\ ~early /\ PassInv /\ SleepInv
=============================================================================
