------------------------------ MODULE Gateway ------------------------------
(***************************************************************************)
(* The API gateway (api_gateway): the task that reads Kafka, or simulates  *)
(* traffic, and broadcasts what it gets; the handler of each web socket;   *)
(* and the shutdown of the server. All are coroutines of one event loop:   *)
(* what stands between two awaits is one step.                             *)
(*                                                                         *)
(* Alerts are numbered in the order in which they are broadcast.           *)
(***************************************************************************)
EXTENDS Naturals, Sequences, FiniteSets

CONSTANTS Conns,       \* web socket connections; one may be used again
          MaxAlerts,   \* bound: alerts broadcast
          MaxLeaves    \* bound: connections that break or are left

ASSUME GatewayAssumption == MaxAlerts \in Nat /\ MaxLeaves \in Nat

VARIABLES
    loader,      \* where the task of poll_loop is
    cancelled,   \* cancel() was called, CancelledError is not yet raised
    packets,     \* stats["total_packets"] is not 0
    message,     \* the message of the broadcast under way, or of the last
    targets,     \* connections it has still to be sent to
    stale,       \* connections it could not be sent to
    raised,      \* alerts broadcast so far
    active,      \* _active
    handler,     \* where the handler of each connection is
    peer,        \* does the client's end of the connection exist?
    received,    \* alerts each connection received, in order
    server,      \* where uvicorn and lifespan are
    leaves       \* connections left so far

loaderVars == <<loader, cancelled, packets>>
castVars == <<message, targets, stale, raised>>
connVars == <<active, handler, peer, received>>
vars == <<loaderVars, castVars, connVars, server, leaves>>

Sending == {"kafka_send", "sim_flows", "sim_alert", "sim_stats"}
Places == {"metadata", "poll", "sim_sleep", "done"} \cup Sending
----------------------------------------------------------------------------
(* ConnectionManager.broadcast begins: over a copy of _active.             *)
Broadcast(m, conns, place) ==
    /\ message' = m
    /\ targets' = conns
    /\ stale' = {}
    /\ loader' = place

(* send_json to one connection; it raises if the client is gone.           *)
Send(c) ==
    /\ loader \in Sending /\ ~ cancelled
    /\ c \in targets
    /\ targets' = targets \ {c}
    /\ IF peer[c]
       THEN /\ received' = IF message = 0 THEN received
                           ELSE [received EXCEPT ![c] = Append(@, message)]
            /\ UNCHANGED stale
       ELSE stale' = stale \cup {c} /\ UNCHANGED received
    /\ UNCHANGED <<loaderVars, message, raised, active, handler, peer, server, leaves>>

(* Variant: slow clients are not waited for.                               *)
BroadcastEndHurried ==
    /\ loader \in Sending
    /\ active' = active \ stale
    /\ UNCHANGED <<handler, peer, received>>

(* All sends have returned: the stale connections are discarded, and the   *)
(* loop goes on to its next await.                                         *)
BroadcastEnd ==
    /\ loader \in Sending
    /\ targets = {}
    /\ active' = active \ stale
    /\ UNCHANGED <<handler, peer, received>>
----------------------------------------------------------------------------
(* poll_loop: to the simulator. _simulate_loop overwrites the statistics.  *)
Simulate ==
    /\ loader' = "sim_sleep"
    /\ packets' = TRUE

(* No confluent_kafka, no broker, no topics; or the consumer is ready.     *)
NoKafka ==
    /\ loader = "metadata" /\ ~ cancelled
    /\ Simulate
    /\ UNCHANGED <<cancelled, castVars, connVars, server, leaves>>

Subscribed ==
    /\ loader = "metadata" /\ ~ cancelled
    /\ loader' = "poll"
    /\ UNCHANGED <<cancelled, packets, castVars, connVars, server, leaves>>

(* poll returned nothing and ten seconds have passed without a packet.     *)
Watchdog ==
    /\ loader = "poll" /\ ~ cancelled
    /\ ~ packets
    /\ Simulate
    /\ UNCHANGED <<cancelled, castVars, connVars, server, leaves>>

PollFlow ==
    /\ loader = "poll" /\ ~ cancelled
    /\ packets' = TRUE
    /\ Broadcast(0, active, "kafka_send")
    /\ UNCHANGED <<cancelled, raised, connVars, server, leaves>>

PollAlert ==
    /\ loader = "poll" /\ ~ cancelled
    /\ raised < MaxAlerts
    /\ raised' = raised + 1
    /\ Broadcast(raised + 1, active, "kafka_send")
    /\ UNCHANGED <<cancelled, packets, connVars, server, leaves>>

(* After a message, and after a round of the simulator, comes a wait.      *)
Wait ==
    /\ loader \in {"kafka_send", "sim_stats"}
    /\ BroadcastEnd
    /\ message' = 0 /\ targets' = {} /\ stale' = {}
    /\ loader' = IF loader = "kafka_send" THEN "poll" ELSE "sim_sleep"
    /\ UNCHANGED <<cancelled, packets, raised, server, leaves>>

(* The simulator wakes up, and tells of new flows.                         *)
SimFlows ==
    /\ loader = "sim_sleep" /\ ~ cancelled
    /\ Broadcast(0, active, "sim_flows")
    /\ UNCHANGED <<cancelled, packets, raised, connVars, server, leaves>>

(* Then of an alert, now and then ...                                      *)
SimAlert ==
    /\ loader = "sim_flows"
    /\ raised < MaxAlerts
    /\ BroadcastEnd
    /\ raised' = raised + 1
    /\ Broadcast(raised + 1, active', "sim_alert")
    /\ UNCHANGED <<cancelled, packets, server, leaves>>

(* ... and of the statistics.                                              *)
SimStats ==
    /\ loader \in {"sim_flows", "sim_alert"}
    /\ BroadcastEnd
    /\ Broadcast(0, active', "sim_stats")
    /\ UNCHANGED <<cancelled, packets, raised, server, leaves>>

(* CancelledError is raised at the await the task is at. _kafka_loop takes *)
(* it for a failure of Kafka and returns False; the simulator ends.        *)
Cancel ==
    /\ cancelled
    /\ loader \in {"metadata", "poll", "sim_sleep"} \/ targets # {}
    /\ cancelled' = FALSE
    /\ IF loader \in {"poll", "kafka_send"} THEN Simulate
       ELSE loader' = "done" /\ UNCHANGED packets
    /\ message' = 0 /\ targets' = {} /\ stale' = {}
    /\ UNCHANGED <<raised, connVars, server, leaves>>

LoaderGoesOn ==
    \/ NoKafka \/ Subscribed
    \/ SimFlows \/ SimAlert \/ SimStats
    \/ \E c \in Conns : Send(c)
    \/ Wait
    \/ Cancel

Loader == LoaderGoesOn \/ Watchdog \/ PollFlow \/ PollAlert
----------------------------------------------------------------------------
(* A client opens a connection; its handler asks Redis for the key. (A     *)
(* name of a connection is free once nobody holds the last one of it.)     *)
Connect(c) ==
    /\ server = "serving"
    /\ handler[c] = "ended"
    /\ ~ peer[c] /\ c \notin targets \cup stale
    /\ handler' = [handler EXCEPT ![c] = "opening"]
    /\ peer' = [peer EXCEPT ![c] = TRUE]
    /\ UNCHANGED <<loaderVars, castVars, active, received, server, leaves>>

(* Redis does not answer: close(1011). Counted among the leaves.           *)
KeyRefused(c) ==
    /\ handler[c] = "opening"
    /\ leaves < MaxLeaves
    /\ leaves' = leaves + 1
    /\ handler' = [handler EXCEPT ![c] = "ended"]
    /\ peer' = [peer EXCEPT ![c] = FALSE]
    /\ UNCHANGED <<loaderVars, castVars, active, received, server>>

(* Variant: the connection is added before it is accepted.                 *)
AcceptAddedFirst(c) ==
    /\ handler[c] = "opening"
    /\ handler' = [handler EXCEPT ![c] = IF peer[c] THEN "receive" ELSE "ended"]
    /\ active' = active \cup {c}
    /\ UNCHANGED <<loaderVars, castVars, peer, received, server, leaves>>

(* The key is good. accept() raises if the client is gone already, or the  *)
(* client goes while it is awaited: then it is added, and receive_text     *)
(* raises.                                                                 *)
Accept(c) ==
    /\ handler[c] = "opening"
    /\ \/ handler' = [handler EXCEPT ![c] = "receive"] /\ active' = active \cup {c}
       \/ ~ peer[c] /\ handler' = [handler EXCEPT ![c] = "ended"] /\ UNCHANGED active
    /\ UNCHANGED <<loaderVars, castVars, peer, received, server, leaves>>

(* Variant: only a connection a broadcast found stale is removed.          *)
DisconnectLeavesIt(c) ==
    /\ handler[c] = "receive"
    /\ ~ peer[c]
    /\ handler' = [handler EXCEPT ![c] = "ended"]
    /\ UNCHANGED <<loaderVars, castVars, active, peer, received, server, leaves>>

(* receive_text raises WebSocketDisconnect.                                *)
Disconnect(c) ==
    /\ handler[c] = "receive"
    /\ ~ peer[c]
    /\ active' = active \ {c}
    /\ handler' = [handler EXCEPT ![c] = "ended"]
    /\ received' = [received EXCEPT ![c] = <<>>]
    /\ UNCHANGED <<loaderVars, castVars, peer, server, leaves>>

Handler(c) == KeyRefused(c) \/ Accept(c) \/ Disconnect(c)

(* The client leaves or its connection breaks.                             *)
PeerLeaves(c) ==
    /\ peer[c]
    /\ leaves < MaxLeaves
    /\ leaves' = leaves + 1
    /\ peer' = [peer EXCEPT ![c] = FALSE]
    /\ UNCHANGED <<loaderVars, castVars, active, handler, received, server>>
----------------------------------------------------------------------------
(* uvicorn is told to stop: it takes no more connections and closes those  *)
(* there are, waits for their handlers, and lets lifespan go on. (Bound:   *)
(* it stops after the last alert the model has.)                           *)
Stop ==
    /\ server = "serving"
    /\ raised = MaxAlerts
    /\ server' = "closing"
    /\ peer' = [c \in Conns |-> FALSE]
    /\ UNCHANGED <<loaderVars, castVars, active, handler, received, leaves>>

CancelLoader ==
    /\ server = "closing"
    /\ \A c \in Conns : handler[c] = "ended"
    /\ server' = "waiting"
    /\ cancelled' = (loader # "done")
    /\ UNCHANGED <<loader, packets, castVars, connVars, leaves>>

(* await poll_task returns; disconnect_all finds nobody.                   *)
Stopped ==
    /\ server = "waiting"
    /\ loader = "done"
    /\ server' = "stopped"
    /\ active' = {}
    /\ UNCHANGED <<loaderVars, castVars, handler, peer, received, leaves>>
----------------------------------------------------------------------------
Init ==
    /\ loader = "metadata"
    /\ cancelled = FALSE
    /\ packets = FALSE
    /\ message = 0
    /\ targets = {}
    /\ stale = {}
    /\ raised = 0
    /\ active = {}
    /\ handler = [c \in Conns |-> "ended"]
    /\ peer = [c \in Conns |-> FALSE]
    /\ received = [c \in Conns |-> <<>>]
    /\ server = "serving"
    /\ leaves = 0

Next ==
    \/ Loader
    \/ \E c \in Conns : Connect(c) \/ Handler(c) \/ PeerLeaves(c)
    \/ Stop \/ CancelLoader \/ Stopped

Spec == Init /\ [][Next]_vars

(* The event loop runs the loader and the handlers when they can go on.    *)
(* Nothing makes a message arrive, a client come or leave, Redis fail, ten *)
(* seconds pass without a packet, or the server stop.                      *)
HandlersGoOn == \E c \in Conns : Accept(c) \/ Disconnect(c)

Fairness ==
    /\ WF_vars(LoaderGoesOn)
    /\ WF_vars(HandlersGoOn)
    /\ WF_vars(CancelLoader \/ Stopped)
============================================================================
