--------------------------- MODULE ServiceShutdown --------------------------
(***************************************************************************)
(* The end of the process: Service.Stop and Service.Run of                 *)
(* pkg/service/service.go, the signal handler of cmd/livekit-sip/main.go,  *)
(* ActiveCalls and Stop of pkg/sip/service.go, Client.Stop and Server.Stop *)
(* and Monitor.Health.                                                     *)
(*                                                                         *)
(* SIGTERM drains: Run polls the two call tables until both are empty.     *)
(* SIGINT kills: the tables are not waited for.  Outbound calls are        *)
(* refused once the monitor is shut down, but the check is made long       *)
(* before the call is in the table.  Inbound calls are accepted until the  *)
(* listeners close.                                                        *)
(*                                                                         *)
(* What happens inside a call is in InboundCall and OutboundCall; here it  *)
(* enters its table and leaves it.                                         *)
(***************************************************************************)
EXTENDS Naturals, FiniteSets

CONSTANTS
  Inbound,     \* calls that may come in
  Outbound     \* calls that may be requested

ASSUME CallsAssumption == IsFiniteSet(Inbound \cup Outbound)
                          /\ Inbound \cap Outbound = {}

VARIABLES
  signal,      \* the signal received: "none", "stop", "kill"
  stopper,     \* where Stop is
  monitor,     \* "up" or, after Monitor.Shutdown, "stopped"
  shutdown,    \* the fuse
  killed,
  run,         \* where Run is
  topic,       \* requests for new calls are routed to this process
  count,       \* outbound calls ActiveCalls has counted
  admitted,    \* outbound calls past the health check, not in the table
  activeCalls, \* the table of the client
  byLocalTag,  \* the table of the server
  counted,     \* calls of both tables when they were counted last
  closing,     \* calls the running Stop has taken from its table
  torn,        \* calls closed by Stop
  listening    \* the server accepts INVITEs

serviceVars == <<signal, stopper, monitor, shutdown, killed, run, topic,
                 count, admitted, activeCalls, byLocalTag, counted, closing,
                 torn, listening>>
tables == <<activeCalls, byLocalTag>>
process == <<signal, stopper, monitor, shutdown, killed>>

Calls == Inbound \cup Outbound
Known == admitted \cup activeCalls \cup byLocalTag \cup closing \cup torn

ServiceTypeOK ==
  /\ signal \in {"none", "stop", "kill"}
  /\ stopper \in {"idle", "monitor", "fuse", "killed", "done"}
  /\ monitor \in {"up", "stopped"}
  /\ {shutdown, killed, topic, listening} \subseteq BOOLEAN
  /\ run \in {"wait", "loop", "inbound", "tick", "client",
              "closeOut", "server", "closeIn", "done"}
  /\ count \in Nat
  /\ admitted \subseteq Outbound /\ activeCalls \subseteq Outbound
  /\ byLocalTag \subseteq Inbound
  /\ counted \subseteq Calls /\ closing \subseteq Calls /\ torn \subseteq Calls

(* Start has run, and Run has registered the topic.                        *)
ServiceInit ==
  /\ signal = "none" /\ stopper = "idle" /\ monitor = "up"
  /\ shutdown = FALSE /\ killed = FALSE
  /\ run = "wait" /\ topic = TRUE /\ count = 0
  /\ admitted = {} /\ activeCalls = {} /\ byLocalTag = {}
  /\ counted = {} /\ closing = {} /\ torn = {}
  /\ listening = TRUE
-----------------------------------------------------------------------------
(* The signal handler takes one signal, and Stop runs on its goroutine.    *)
Signal ==
  /\ signal = "none"
  /\ signal' \in {"stop", "kill"}
  /\ stopper' = "monitor"
  /\ UNCHANGED <<monitor, shutdown, killed, run, topic, count, admitted,
                 tables, counted, closing, torn, listening>>

StopMonitor ==
  /\ stopper = "monitor"
  /\ monitor' = "stopped"
  /\ stopper' = "fuse"
  /\ UNCHANGED <<signal, shutdown, killed, run, topic, count, admitted,
                 tables, counted, closing, torn, listening>>

StopBreaks ==
  /\ stopper = "fuse"
  /\ shutdown' = TRUE
  /\ stopper' = "killed"
  /\ UNCHANGED <<signal, monitor, killed, run, topic, count, admitted,
                 tables, counted, closing, torn, listening>>

StopKills ==
  /\ stopper = "killed"
  /\ killed' = (signal = "kill")
  /\ stopper' = "done"
  /\ UNCHANGED <<signal, monitor, shutdown, run, topic, count, admitted,
                 tables, counted, closing, torn, listening>>

Stop == StopMonitor \/ StopBreaks \/ StopKills
-----------------------------------------------------------------------------
(* Run                                                                     *)

RunWakes ==
  /\ run = "wait" /\ shutdown
  /\ topic' = FALSE
  /\ run' = "loop"
  /\ UNCHANGED <<process, count, admitted, tables, counted, closing, torn,
                 listening>>

(* The condition of the loop, and ActiveCalls under the lock of the client *)
RunChecks ==
  /\ run = "loop"
  /\ IF killed
     THEN run' = "client" /\ UNCHANGED <<count, counted>>
     ELSE /\ run' = "inbound"
          /\ count' = Cardinality(activeCalls)
          /\ counted' = activeCalls
  /\ UNCHANGED <<process, topic, admitted, tables, closing, torn, listening>>

(* Mutant of RunCounts: only outbound calls are waited for.                *)
RunCounts_Outbound ==
  /\ run = "inbound"
  /\ counted' = counted \cup byLocalTag
  /\ run' = IF count = 0 THEN "client" ELSE "tick"
  /\ UNCHANGED <<process, topic, count, admitted, tables, closing, torn,
                 listening>>

(* and then under the lock of the server: Total() of both.                 *)
RunCounts ==
  /\ run = "inbound"
  /\ counted' = counted \cup byLocalTag
  /\ run' = IF count + Cardinality(byLocalTag) = 0 THEN "client" ELSE "tick"
  /\ UNCHANGED <<process, topic, count, admitted, tables, closing, torn,
                 listening>>

(* Mutant of RunTicks: killed is only read before the loop.                *)
RunTicks_NoCheck ==
  /\ run = "tick"
  /\ run' = "inbound"
  /\ count' = Cardinality(activeCalls)
  /\ counted' = activeCalls
  /\ UNCHANGED <<process, topic, admitted, tables, closing, torn, listening>>

(* The ticker of five seconds.                                             *)
RunTicks ==
  /\ run = "tick"
  /\ run' = "loop"
  /\ UNCHANGED <<process, topic, count, admitted, tables, counted, closing,
                 torn, listening>>
-----------------------------------------------------------------------------
(* sipServiceStop                                                          *)

(* Client.Stop takes the table and closes the calls one by one.            *)
ClientStop ==
  /\ run = "client"
  /\ closing' = activeCalls
  /\ activeCalls' = {}
  /\ run' = "closeOut"
  /\ UNCHANGED <<process, topic, count, admitted, byLocalTag, counted, torn,
                 listening>>

CloseCall(c) ==
  /\ run \in {"closeOut", "closeIn"}
  /\ c \in closing
  /\ closing' = closing \ {c}
  /\ torn' = torn \cup {c}
  /\ UNCHANGED <<process, run, topic, count, admitted, tables, counted,
                 listening>>

ClientStopped ==
  /\ run = "closeOut" /\ closing = {}
  /\ run' = "server"
  /\ UNCHANGED <<process, topic, count, admitted, tables, counted, closing,
                 torn, listening>>

ServerStop ==
  /\ run = "server"
  /\ closing' = byLocalTag
  /\ byLocalTag' = {}
  /\ run' = "closeIn"
  /\ UNCHANGED <<process, topic, count, admitted, activeCalls, counted, torn,
                 listening>>

(* The listeners are closed last, then the monitor, and Run returns.       *)
ServerStopped ==
  /\ run = "closeIn" /\ closing = {}
  /\ listening' = FALSE
  /\ run' = "done"
  /\ UNCHANGED <<process, topic, count, admitted, tables, counted, closing,
                 torn>>

Run ==
  \/ RunWakes \/ RunChecks \/ RunCounts \/ RunTicks
  \/ ClientStop \/ ClientStopped \/ ServerStop \/ ServerStopped
  \/ \E c \in Calls : CloseCall(c)
-----------------------------------------------------------------------------
(* Calls                                                                   *)

(* Health: the load of the machine may make it unavailable at any time.    *)
HealthOK == monitor = "up"

createSIPParticipant(c) ==
  /\ topic /\ HealthOK /\ run # "done"
  /\ c \notin Known
  /\ admitted' = admitted \cup {c}
  /\ UNCHANGED <<process, run, topic, count, tables, counted, closing, torn,
                 listening>>

(* newCall has made the media port and joined the room, or has failed.     *)
newCall(c) ==
  /\ c \in admitted /\ run # "done"
  /\ admitted' = admitted \ {c}
  /\ activeCalls' \in {activeCalls, activeCalls \cup {c}}
  /\ UNCHANGED <<process, run, topic, count, byLocalTag, counted, closing,
                 torn, listening>>

(* processInvite has no health check.                                      *)
newInboundCall(c) ==
  /\ listening
  /\ c \notin Known
  /\ byLocalTag' = byLocalTag \cup {c}
  /\ UNCHANGED <<process, run, topic, count, admitted, activeCalls, counted,
                 closing, torn, listening>>

(* A call ends by itself and leaves its table.                             *)
callEnds(c) ==
  /\ c \in activeCalls \cup byLocalTag /\ run # "done"
  /\ activeCalls' = activeCalls \ {c}
  /\ byLocalTag' = byLocalTag \ {c}
  /\ UNCHANGED <<process, run, topic, count, admitted, counted, closing, torn,
                 listening>>

ServiceNext ==
  \/ Signal \/ Stop \/ Run
  \/ \E c \in Outbound : createSIPParticipant(c) \/ newCall(c)
  \/ \E c \in Inbound : newInboundCall(c)
  \/ \E c \in Calls : callEnds(c)

ServiceSpec == ServiceInit /\ [][ServiceNext]_serviceVars

(* The two goroutines run.  Nothing makes a signal come or a call end.     *)
ServiceFairSpec == ServiceSpec /\ WF_serviceVars(Stop) /\ WF_serviceVars(Run)
-----------------------------------------------------------------------------
(* A graceful stop hangs up on nobody it has counted: a call that Stop     *)
(* closes came into its table after that table had been counted empty for  *)
(* the last time.                                                          *)
CountedCallsFinish ==
  /\ ServiceTypeOK
  /\ signal # "kill" => (torn \cup closing) \cap counted = {}

(* What makes it true.  Only SIGINT sets killed; the count of the client's *)
(* table belongs to the calls counted in it; nothing is closed before the  *)
(* loop is left; and it is left by SIGINT, or with nothing counted.        *)
ShutdownInv ==
  /\ ServiceTypeOK
  /\ killed => signal = "kill"
  /\ run = "inbound" => count = Cardinality(counted)
  /\ run \in {"wait", "loop", "inbound", "tick"} => torn = {} /\ closing = {}
  /\ run \in {"client", "closeOut", "server", "closeIn", "done"} =>
       signal = "kill" \/ counted = {}

(* Run returns after SIGINT whatever the calls do, also when it has read   *)
(* killed before Stop had written it; and after SIGTERM once no call comes *)
(* in any more and all have ended.                                         *)
RunReturns ==
  /\ signal = "kill" ~> run = "done"
  /\ <>[](activeCalls \cup byLocalTag = {}) =>
       (signal = "stop" ~> run = "done")
=============================================================================
