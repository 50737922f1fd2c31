------------------------- MODULE SingleVersusMulti -------------------------
(***************************************************************************)
(* The single-threaded tool next to dpi_mt, on the same capture with the   *)
(* same rules. dpi_mt hands the packets of a flow to one FP in their order *)
(* (DPIEngine!FlowOrder), so what it decides of a flow is what its FP      *)
(* decides packet by packet; here it does so in step with the tool.        *)
(***************************************************************************)
EXTENDS SingleThread

VARIABLES
    mtFlows,     \* flows_ of the FPs, together: an FP has whole flows
    mtOutput,    \* the packets pushed to the output queue
    mtStats      \* Stats: total, forwarded, dropped

allVars == <<vars, mtFlows, mtOutput, mtStats>>

NewEntry == [app |-> "UNKNOWN", sni |-> "", blocked |-> FALSE, classified |-> FALSE]

EntryOf(t) == IF t \in DOMAIN mtFlows THEN mtFlows[t] ELSE NewEntry

(* classifyFlow: a flow known by its port only is looked at again.         *)
MTClassified(e, pk) ==
    LET payload == MTPayloadLength(pk.headers, pk.size)
        named(found) == [e EXCEPT !.sni = found.name, !.app = AppOf[found.name],
                                  !.classified = TRUE]
        byPort == PortApp(pk.tuple)
    IN  IF pk.tuple.dport = 443 /\ payload > 5 /\ TLSName[pk].found
        THEN named(TLSName[pk])
        ELSE IF pk.tuple.dport = 80 /\ payload > 10 /\ HTTPName[pk].found
        THEN named(HTTPName[pk])
        ELSE [e EXCEPT !.app = IF byPort = "UNKNOWN" THEN @ ELSE byPort,
                       !.classified = (byPort = "DNS")]

IsBlocked(src, e) ==
    \/ src \in rules.ips
    \/ e.app \in rules.apps
    \/ \E d \in rules.domains : Finds(e.sni, d)

(* What an FP makes of the entry when the packet comes.                    *)
MTJudged(e, pk) ==
    LET c == IF e.classified THEN e ELSE MTClassified(e, pk)
    IN  IF c.blocked THEN c ELSE [c EXCEPT !.blocked = IsBlocked(pk.tuple.src, c)]

MTSkip == ReadSkip /\ UNCHANGED <<mtFlows, mtOutput, mtStats>>

MTProcess ==
    /\ ReadPacket
    /\ LET e == MTJudged(EntryOf(Packet.tuple), Packet)
       IN  /\ mtFlows' = With(mtFlows, Packet.tuple, e)
           /\ mtOutput' = IF e.blocked THEN mtOutput ELSE Append(mtOutput, next)
           /\ mtStats' = [total |-> mtStats.total + 1,
                          dropped |-> mtStats.dropped + (IF e.blocked THEN 1 ELSE 0),
                          forwarded |-> mtStats.forwarded + (IF e.blocked THEN 0 ELSE 1)]

Rest ==
    /\ \/ Emit
       \/ EndOfFile
       \/ \E t \in Tuples, accepted \in BOOLEAN : Publish(t, accepted)
       \/ Flush
       \/ Export
    /\ UNCHANGED <<mtFlows, mtOutput, mtStats>>
----------------------------------------------------------------------------
(* A ClientHello is a chain of lengths, and the name in it is as long as   *)
(* the client says.                                                        *)
SentHello(m) ==
    /\ {m.captured, m.sessionId, m.ciphers, m.compression, m.extensionsLength} \subseteq Nat
    /\ m.extensions \in Seq({m.extensions[i] : i \in DOMAIN m.extensions})
    /\ \A i \in DOMAIN m.extensions :
          LET e == m.extensions[i]
          IN  /\ e.length \in Nat
              /\ e.type = ServerNameExtension =>
                   e.nameLength \in Nat /\ SubSeq(e.name, 1, e.nameLength) = e.name

(* The packets the two are compared on: clients send names over TCP, and   *)
(* no empty ones (see README). A request in which a name is found has      *)
(* eleven bytes at least: the extractor looks no further than its loop.    *)
ASSUME ComparisonAssumption ==
    \A pk \in PacketShapes :
        /\ pk.payload.kind = "tls" => SentHello(pk.payload)
        /\ TLSName[pk].found => HasTCP(pk.headers, pk.size) /\ TLSName[pk].name # ""
        /\ HTTPName[pk].found =>
              /\ HasTCP(pk.headers, pk.size) /\ HTTPName[pk].name # ""
              /\ STPayloadLength(pk.headers, pk.size) > 10
----------------------------------------------------------------------------
BothInit ==
    /\ Init
    /\ mtFlows = [t \in {} |-> NewEntry]
    /\ mtOutput = <<>>
    /\ mtStats = [total |-> 0, forwarded |-> 0, dropped |-> 0]

BothNext == MTSkip \/ MTProcess \/ Rest

BothSpec == BothInit /\ [][BothNext]_allVars
----------------------------------------------------------------------------
(* PROPERTIES                                                              *)

(* "Reference implementation": the tool writes the packets dpi_mt writes,  *)
(* and knows every flow by the same application and name, though the one   *)
(* decides again at every packet what the other decides once, and their    *)
(* conditions on payload, protocol and port are not the same.              *)
SameAsMulti ==
    /\ pc # "emit" => output = mtOutput /\ counts.dropped = mtStats.dropped
    /\ \A t \in DOMAIN flows :
           /\ flows[t].blocked = mtFlows[t].blocked
           /\ flows[t].app = mtFlows[t].app
           /\ flows[t].sni = mtFlows[t].sni

(* One alert for each flow that is blocked and none for another, whatever  *)
(* becomes known of the flow afterwards; with the export, the JSON file    *)
(* and its reader see as many blocked flows of a source as alerts for it.  *)
AlertPerBlockedFlow ==
    \A src \in {t.src : t \in Tuples} :
        /\ Cardinality({i \in DOMAIN alerts : alerts[i].ip = src})
             = Cardinality({t \in DOMAIN flows : t.src = src /\ flows[t].blocked})
        /\ pc = "done" =>
             Cardinality({i \in DOMAIN exported.alerts : exported.alerts[i].ip = src})
               = Cardinality({t \in DOMAIN exported.flows :
                                 t.src = src /\ exported.flows[t].blocked})

(* The packets of the file are the skipped ones, the dropped ones and the  *)
(* written ones; packet counts by flow and by application, although a flow *)
(* may change its application, both add up to the packets judged; and what *)
(* Kafka accepted or refused is every flow, once.                          *)
CountsAddUp ==
    pc # "emit" =>
        LET judged == counts.forwarded + counts.dropped
        IN  /\ judged = FoldSet(LAMBDA t, n : n + flows[t].packets, 0, DOMAIN flows)
            /\ judged = FoldSet(LAMBDA a, n : n + appStats[a], 0, AppType)
            /\ judged = Cardinality({p \in 1 .. next - 1 :
                                        Accepted(capture[p].headers, capture[p].size)})
            /\ counts.total = next - 1
            /\ Len(output) = counts.forwarded
            /\ pc = "export" /\ kafka =>
                 counts.sent + counts.fail = Cardinality(DOMAIN flows)

(* "Truncated, but try to parse anyway": wherever a segment or the capture *)
(* cuts a ClientHello, a flow to port 443 has the whole name some client   *)
(* of it sent or none, never the beginning of one.                         *)
NamesWhole ==
    \A t \in DOMAIN flows :
        t.dport = 443 /\ flows[t].sni # "" =>
            \E p \in 1 .. next :
                /\ p <= MaxPackets
                /\ capture[p].tuple = t
                /\ capture[p].payload.kind = "tls"
                /\ \E i \in DOMAIN capture[p].payload.extensions :
                      LET e == capture[p].payload.extensions[i]
                      IN  e.type = ServerNameExtension /\ e.name = flows[t].sni
============================================================================
