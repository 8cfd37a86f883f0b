--------------------------- MODULE MCInboundCall ---------------------------
(* InboundCall for TLC: the ways Accept can go, and the events of the      *)
(* environment each run lets happen.                                       *)
EXTENDS InboundCall

(* UDP waiting for the ACK, and a reliable transport not waiting for it.   *)
MCConfs == {[waitACK |-> TRUE, udp |-> TRUE], [waitACK |-> FALSE, udp |-> FALSE]}

MCEvents == {"cancel", "sendFailure", "ack", "bye", "stop", "mediaTimeout",
             "roomDisconnect", "endCall", "transfer"}

(* UDP without InboundWaitACK: the retries end without an error.           *)
UDPConfs == {[waitACK |-> FALSE, udp |-> TRUE]}

LiveEvents == {"cancel", "bye", "stop"}
=============================================================================
