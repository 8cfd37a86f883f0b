----------------------------- MODULE UACDialog -----------------------------
(***************************************************************************)
(* What the SIP leg of an outbound call promises to the callee, with no    *)
(* trace of how the client is built: an answer is acknowledged at most     *)
(* once and only while the dialog stands, and the dialog is left by one    *)
(* BYE, sent or received.  Nothing is sent in a dialog that was left,      *)
(* with two exceptions: a malformed answer may be hung up twice, and the   *)
(* BYE for an answer that came after the CANCEL may cross the callee's.    *)
(***************************************************************************)
EXTENDS Naturals

VARIABLES
  phase,      \* "calling", "answered" or "left"
  acks,       \* ACKs sent
  byes,       \* BYEs sent
  malformed,  \* the answer carries no usable To header
  late        \* the answer was read after the INVITE was cancelled

dialogVars == <<phase, acks, byes, malformed, late>>

DialogInit ==
  /\ phase = "calling"
  /\ acks = 0
  /\ byes = 0
  /\ ~malformed
  /\ ~late

Answered ==
  /\ phase = "calling"
  /\ phase' = "answered"
  /\ malformed' \in BOOLEAN
  /\ UNCHANGED <<acks, byes, late>>

(* A cancelled INVITE was answered all the same: the answer is             *)
(* acknowledged as it is read.                                             *)
AnsweredLate ==
  /\ phase = "calling"
  /\ phase' = "answered"
  /\ acks' = 1
  /\ late' = TRUE
  /\ UNCHANGED <<byes, malformed>>

Ack ==
  /\ phase = "answered"
  /\ acks = 0
  /\ acks' = 1
  /\ UNCHANGED <<phase, byes, malformed, late>>

HangUp ==
  /\ phase = "answered"
  /\ phase' = "left"
  /\ byes' = 1
  /\ UNCHANGED <<acks, malformed, late>>

HangUpAgain ==
  /\ phase = "left"
  /\ malformed \/ (late /\ byes = 0)
  /\ byes < 2
  /\ byes' = byes + 1
  /\ UNCHANGED <<phase, acks, malformed, late>>

(* The callee hung up, perhaps on an answer that never arrived.            *)
RemoteBye ==
  /\ phase # "left"
  /\ phase' = "left"
  /\ UNCHANGED <<acks, byes, malformed, late>>

DialogNext ==
  \/ Answered
  \/ AnsweredLate
  \/ Ack
  \/ HangUp
  \/ HangUpAgain
  \/ RemoteBye

Dialog == DialogInit /\ [][DialogNext]_dialogVars
=============================================================================
