---------------------------- MODULE SingleThread ----------------------------
(***************************************************************************)
(* The single-threaded command line tool (dpi_single_thread_main.cpp): it  *)
(* reads the capture packet by packet, classifies and judges the flow of   *)
(* each, writes the packet or drops it, and at the end of the file         *)
(* publishes the flows to Kafka and exports them.                          *)
(***************************************************************************)
EXTENDS PacketParser, SniExtractor

CONSTANTS PacketShapes,   \* the packets a capture is made of
          CommandLines,   \* the rules the tool is called with
          MaxPackets      \* packets of the capture file (bound)

ASSUME SingleThreadAssumption ==
    /\ MaxPackets \in Nat
    /\ \A pk \in PacketShapes : pk.headers \in Headers /\ pk.size \in Nat
    /\ \A c \in CommandLines : DOMAIN c = {"ips", "apps", "domains"}

VARIABLES
    capture,     \* the packets of the input file
    rules,       \* BlockingRules
    kafka,       \* kafka_available
    next,        \* the packet the tool is at
    pc,          \* "read", "emit", "publish", "export" or "done"
    flows,       \* flows: a function from the five-tuples seen
    alerts,      \* generated_alerts
    output,      \* the output file: packet numbers
    counts,      \* total_packets, forwarded, dropped, kafka_sent, kafka_fail
    appStats,    \* app_stats
    tried,       \* flows produce() was called for
    exported     \* the JSON file

vars == <<capture, rules, kafka, next, pc, flows, alerts, output, counts,
          appStats, tried, exported>>

Tuples == {pk.tuple : pk \in PacketShapes}
Packet == capture[next]

NewFlow == [app |-> "UNKNOWN", sni |-> "", packets |-> 0, bytes |-> 0, blocked |-> FALSE]
NoFlows == [t \in {} |-> NewFlow]
NotExported == [flows |-> NoFlows, alerts |-> <<>>, blocked |-> 0]

FlowOf(table, t) == IF t \in DOMAIN table THEN table[t] ELSE NewFlow
With(table, t, v) == [u \in DOMAIN table \cup {t} |-> IF u = t THEN v ELSE table[u]]
-----------------------------------------------------------------------------
(* What the extractors find in the payload of a packet.                    *)
FoundInTLS(payload) == IF payload.kind = "tls" THEN ServerName(payload) ELSE NoName
FoundInHTTP(payload) ==
    IF payload.kind = "http" THEN HTTPHost(SubSeq(payload.text, 1, payload.captured)) ELSE NoName

(* Evaluated once for each packet shape.                                   *)
TLSName == [pk \in PacketShapes |-> FoundInTLS(pk.payload)]
HTTPName == [pk \in PacketShapes |-> FoundInHTTP(pk.payload)]
AppOf == [n \in {TLSName[pk].name : pk \in PacketShapes}
                    \cup {HTTPName[pk].name : pk \in PacketShapes} |-> SniToAppType(n)]

Named(fl, found) == [fl EXCEPT !.sni = found.name, !.app = AppOf[found.name]]

(* Variant: a flow that is blocked is not counted any more.                *)
CountedUnblocked(fl, pk) ==
    IF fl.blocked THEN fl ELSE [fl EXCEPT !.packets = @ + 1, !.bytes = @ + pk.size]

Counted(fl, pk) == [fl EXCEPT !.packets = @ + 1, !.bytes = @ + pk.size]

(* The application the ports alone speak for.                              *)
PortApp(t) ==
    CASE 53 \in {t.sport, t.dport} -> "DNS"
      [] 53 # t.sport /\ t.dport = 443 -> "HTTPS"
      [] 53 # t.sport /\ t.dport = 80 -> "HTTP"
      [] OTHER -> "UNKNOWN"

(* A packet's payload is looked at as long as the flow has no name.        *)
STNamed(fl, pk) ==
    LET payload == STPayloadLength(pk.headers, pk.size)
        wanted == fl.sni = "" /\ HasTCP(pk.headers, pk.size)
        byTLS == /\ wanted /\ fl.app \in {"UNKNOWN", "HTTPS"} /\ pk.tuple.dport = 443
                 /\ payload > 5 /\ TLSName[pk].found
        byHTTP == /\ wanted /\ fl.app \in {"UNKNOWN", "HTTP"} /\ pk.tuple.dport = 80
                  /\ payload > 0 /\ HTTPName[pk].found
    IN  IF byTLS THEN Named(fl, TLSName[pk])
        ELSE IF byHTTP THEN Named(fl, HTTPName[pk])
        ELSE fl

(* Variant: a flow that has an application is not looked at again.         *)
STClassifiedOnce(fl, pk) ==
    LET named == IF fl.app = "UNKNOWN" THEN STNamed(fl, pk) ELSE fl
    IN  IF named.app = "UNKNOWN" THEN [named EXCEPT !.app = PortApp(pk.tuple)] ELSE named

STClassified(fl, pk) ==
    LET named == STNamed(fl, pk)
    IN  IF named.app = "UNKNOWN" THEN [named EXCEPT !.app = PortApp(pk.tuple)] ELSE named

(* isBlockedReason, "" for none. A domain is looked for in the name as it  *)
(* was sent, though applications are found in any case.                    *)
IsBlockedReason(src, fl) ==
    IF src \in rules.ips THEN "Source IP"
    ELSE IF fl.app \in rules.apps THEN "App Policy"
    ELSE IF \E d \in rules.domains : Finds(fl.sni, d) THEN "Domain Match"
    ELSE ""

Alert(t, fl, reason) ==
    [ip |-> t.src, reason |-> reason, label |-> IF fl.sni = "" THEN fl.app ELSE fl.sni]
-----------------------------------------------------------------------------
ReadSkip ==
    /\ pc = "read"
    /\ next <= MaxPackets
    /\ ~ Accepted(Packet.headers, Packet.size)
    /\ counts' = [counts EXCEPT !.total = @ + 1]
    /\ next' = next + 1
    /\ UNCHANGED <<capture, rules, kafka, pc, flows, alerts, output, appStats,
                   tried, exported>>

(* Variant: an alert for every packet of a blocked flow.                   *)
ReadAlertingAll ==
    /\ pc = "read"
    /\ next <= MaxPackets
    /\ Accepted(Packet.headers, Packet.size)
    /\ LET t == Packet.tuple
           fl == STClassified(Counted(FlowOf(flows, t), Packet), Packet)
           reason == IsBlockedReason(t.src, fl)
       IN  /\ flows' = With(flows, t, [fl EXCEPT !.blocked = @ \/ reason # ""])
           /\ alerts' = IF reason = "" THEN alerts ELSE Append(alerts, Alert(t, fl, reason))
           /\ appStats' = [appStats EXCEPT ![fl.app] = @ + 1]
    /\ counts' = [counts EXCEPT !.total = @ + 1]
    /\ pc' = "emit"
    /\ UNCHANGED <<capture, rules, kafka, next, output, tried, exported>>

(* Classify the flow of the packet and judge it, unless it is judged.      *)
ReadPacket ==
    /\ pc = "read"
    /\ next <= MaxPackets
    /\ Accepted(Packet.headers, Packet.size)
    /\ LET t == Packet.tuple
           fl == STClassified(Counted(FlowOf(flows, t), Packet), Packet)
           reason == IF fl.blocked THEN "" ELSE IsBlockedReason(t.src, fl)
       IN  /\ flows' = With(flows, t, [fl EXCEPT !.blocked = @ \/ reason # ""])
           /\ alerts' = IF reason = "" THEN alerts ELSE Append(alerts, Alert(t, fl, reason))
           /\ appStats' = [appStats EXCEPT ![fl.app] = @ + 1]
    /\ counts' = [counts EXCEPT !.total = @ + 1]
    /\ pc' = "emit"
    /\ UNCHANGED <<capture, rules, kafka, next, output, tried, exported>>

Emit ==
    /\ pc = "emit"
    /\ IF flows[Packet.tuple].blocked
       THEN counts' = [counts EXCEPT !.dropped = @ + 1] /\ UNCHANGED output
       ELSE counts' = [counts EXCEPT !.forwarded = @ + 1] /\ output' = Append(output, next)
    /\ next' = next + 1
    /\ pc' = "read"
    /\ UNCHANGED <<capture, rules, kafka, flows, alerts, appStats, tried, exported>>

EndOfFile ==
    /\ pc = "read"
    /\ next > MaxPackets
    /\ pc' = IF kafka THEN "publish" ELSE "export"
    /\ UNCHANGED <<capture, rules, kafka, next, flows, alerts, output, counts, appStats,
                   tried, exported>>

(* The flow records are produced in no order, and each is tried once: one  *)
(* that is refused is counted and left out.                                *)
Publish(t, accepted) ==
    /\ pc = "publish"
    /\ t \in DOMAIN flows \ tried
    /\ tried' = tried \cup {t}
    /\ counts' = IF accepted THEN [counts EXCEPT !.sent = @ + 1]
                 ELSE [counts EXCEPT !.fail = @ + 1]
    /\ UNCHANGED <<capture, rules, kafka, next, pc, flows, alerts, output, appStats, exported>>

Flush ==
    /\ pc = "publish"
    /\ tried = DOMAIN flows
    /\ pc' = "export"
    /\ UNCHANGED <<capture, rules, kafka, next, flows, alerts, output, counts, appStats,
                   tried, exported>>

(* With --json, and if the file can be written.                            *)
Export ==
    /\ pc = "export"
    /\ \/ exported' = [flows |-> flows, alerts |-> alerts, blocked |-> counts.dropped]
       \/ UNCHANGED exported
    /\ pc' = "done"
    /\ UNCHANGED <<capture, rules, kafka, next, flows, alerts, output, counts, appStats, tried>>
-----------------------------------------------------------------------------
(* --block-app takes an application by its name, and ignores a name it     *)
(* does not know.                                                          *)
Rules(c) == [ips |-> c.ips, apps |-> UNION {AppsNamed(n) : n \in c.apps}, domains |-> c.domains]

Init ==
    /\ capture \in [1 .. MaxPackets -> PacketShapes]
    /\ rules \in {Rules(c) : c \in CommandLines}
    /\ kafka \in BOOLEAN
    /\ next = 1
    /\ pc = "read"
    /\ flows = NoFlows
    /\ alerts = <<>>
    /\ output = <<>>
    /\ counts = [total |-> 0, forwarded |-> 0, dropped |-> 0, sent |-> 0, fail |-> 0]
    /\ appStats = [a \in AppType |-> 0]
    /\ tried = {}
    /\ exported = NotExported

Next ==
    \/ ReadSkip
    \/ ReadPacket
    \/ Emit
    \/ EndOfFile
    \/ \E t \in Tuples, accepted \in BOOLEAN : Publish(t, accepted)
    \/ Flush
    \/ Export

Spec == Init /\ [][Next]_vars
=============================================================================
