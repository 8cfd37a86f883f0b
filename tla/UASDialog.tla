----------------------------- MODULE UASDialog -----------------------------
(***************************************************************************)
(* What the SIP leg of an inbound call promises to the caller, with no     *)
(* trace of how the server is built: the INVITE is answered at most once,  *)
(* and a dialog that was confirmed by a 200 is left only with a BYE, sent  *)
(* or received, unless the transport failed.                               *)
(***************************************************************************)

VARIABLES
  phase,    \* "proceeding", "confirmed" or "ended"
  final,    \* the final response the INVITE got, "none" before it
  byeSent,  \* a BYE was sent to the caller
  byeRcvd,  \* a BYE of the caller was answered
  lost      \* the transport refused a response

dialogVars == <<phase, final, byeSent, byeRcvd, lost>>

Rejections == {"error", "terminated"}
Finals == {"ok"} \cup Rejections

DialogInit ==
  /\ phase = "proceeding"
  /\ final = "none"
  /\ ~byeSent
  /\ ~byeRcvd
  /\ ~lost

Answer ==
  /\ phase = "proceeding"
  /\ phase' = "confirmed"
  /\ final' = "ok"
  /\ UNCHANGED <<byeSent, byeRcvd, lost>>

Reject ==
  /\ phase = "proceeding"
  /\ final = "none"
  /\ phase' = "ended"
  /\ final' \in Rejections
  /\ UNCHANGED <<byeSent, byeRcvd, lost>>

(* The INVITE transaction is dropped with no answer: a flood, or a BYE in  *)
(* the early dialog.                                                       *)
Abandon ==
  /\ phase = "proceeding"
  /\ phase' = "ended"
  /\ UNCHANGED <<final, byeSent, byeRcvd, lost>>

HangUp ==
  /\ phase = "confirmed"
  /\ phase' = "ended"
  /\ byeSent' = TRUE
  /\ UNCHANGED <<final, byeRcvd, lost>>

RemoteBye ==
  /\ ~byeRcvd
  /\ byeRcvd' = TRUE
  /\ UNCHANGED <<phase, final, byeSent, lost>>

Leave ==
  /\ phase = "confirmed"
  /\ byeRcvd \/ lost
  /\ phase' = "ended"
  /\ UNCHANGED <<final, byeSent, byeRcvd, lost>>

TransportFailure ==
  /\ phase # "ended"
  /\ ~lost
  /\ lost' = TRUE
  /\ UNCHANGED <<phase, final, byeSent, byeRcvd>>

DialogNext ==
  \/ Answer
  \/ Reject
  \/ Abandon
  \/ HangUp
  \/ RemoteBye
  \/ Leave
  \/ TransportFailure

Dialog == DialogInit /\ [][DialogNext]_dialogVars
=============================================================================
