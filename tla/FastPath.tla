------------------------------ MODULE FastPath ------------------------------
(***************************************************************************)
(* One fast path thread (fast_path, connection_tracker): for each packet   *)
(* it looks its connection up, follows the TCP flags, classifies the       *)
(* connection from the payload and asks the rules, while another thread    *)
(* changes them. shouldBlock takes the locks of the four kinds of rules    *)
(* one after another, so the rules may change between two looks.           *)
(*                                                                         *)
(* The connection table belongs to this thread: looking up, counting and   *)
(* classifying are one step. Time is the order in which connections were   *)
(* last seen.                                                              *)
(***************************************************************************)
EXTENDS RuleManager

CONSTANTS Flows,             \* the five-tuples hashed to this FP
          SrcIP, SrcPort, DstPort,   \* their fields
          TCPFlows,          \* those with protocol 6
          FlagSets,          \* the TCP flags a TCP packet can carry
          AppTypes,          \* AppType
          AppOf,             \* sniToAppType of each domain
          MaxConnections,    \* max_connections_ (100000 in the code)
          NoDomain,          \* the empty sni
          MaxRuleCalls       \* bound: how often the rules change

ASSUME FastPathAssumption ==
    /\ SrcIP \in [Flows -> IPs]
    /\ SrcPort \in [Flows -> Nat]
    /\ DstPort \in [Flows -> Nat]
    /\ TCPFlows \subseteq Flows
    /\ FlagSets \subseteq SUBSET {"SYN", "ACK", "FIN", "RST"}
    /\ Apps \cup {"UNKNOWN", "HTTP", "HTTPS", "DNS"} \subseteq AppTypes
    /\ AppOf \in [Domains -> AppTypes]
    /\ MaxConnections \in Nat \ {0} /\ MaxRuleCalls \in Nat
    /\ NoDomain \notin Domains

VARIABLES
    conns,      \* connections_: a function from some of Flows
    older,      \* pairs of connections: the first was last seen earlier
    job,        \* the packet in hand, or the last one, without its payload
    phase,      \* "idle", or the kind of rule to be looked up next
    verdict,    \* PacketAction for job; "none" while there is none
    ruleCalls,  \* rule changes so far
    standing,   \* history: kinds of rules that match since the check began
    suspects    \* history: connections some rule matched during a check

trackVars == <<conns, older>>
ghostVars == <<standing, suspects>>
vars == <<ruleVars, trackVars, job, phase, verdict, ruleCalls, ghostVars>>

Kinds == {"IP", "PORT", "APP", "DOMAIN"}

Payloads == [kind : {"empty", "opaque"}, domain : {NoDomain}]
       \cup [kind : {"tls", "http", "dns"}, domain : Domains]

Jobs == [flow : TCPFlows, flags : FlagSets]
   \cup [flow : Flows \ TCPFlows, flags : {{}}]

Connections ==
    [state : {"NEW", "ESTABLISHED", "CLASSIFIED", "BLOCKED", "CLOSED"},
     app : AppTypes, sni : Domains \cup {NoDomain},
     synSeen : BOOLEAN, synAckSeen : BOOLEAN, finSeen : BOOLEAN]

NewConnection ==
    [state |-> "NEW", app |-> "UNKNOWN", sni |-> NoDomain,
     synSeen |-> FALSE, synAckSeen |-> FALSE, finSeen |-> FALSE]
----------------------------------------------------------------------------
(* Connection table.                                                       *)
Oldest == {t \in DOMAIN conns : \A u \in DOMAIN conns \ {t} : <<t, u>> \in older}

(* The connections that remain when t is looked up: a new one may have to  *)
(* evict the oldest.                                                       *)
KeptFor(t) ==
    IF t \in DOMAIN conns \/ Cardinality(DOMAIN conns) < MaxConnections
    THEN DOMAIN conns ELSE DOMAIN conns \ Oldest

(* Variant: a new connection takes over the record of the one it evicts.   *)
FoundRecycled(t) ==
    IF t \in DOMAIN conns THEN conns[t]
    ELSE IF KeptFor(t) = DOMAIN conns THEN NewConnection
    ELSE conns[CHOOSE u \in Oldest : TRUE]

Found(t) == IF t \in DOMAIN conns THEN conns[t] ELSE NewConnection

(* Variant: last_seen is set when a connection is created, and never again.*)
SeenOnce(t) ==
    IF t \in DOMAIN conns THEN older
    ELSE {pair \in older : {pair[1], pair[2]} \subseteq KeptFor(t)}
             \cup {<<u, t>> : u \in KeptFor(t) \ {t}}

Seen(t) ==
    {pair \in older : {pair[1], pair[2]} \subseteq KeptFor(t) \ {t}}
        \cup {<<u, t>> : u \in KeptFor(t) \ {t}}

(* Variant: also a connection that is past NEW becomes ESTABLISHED.        *)
NextTCPStateAny(state, opens, closes) ==
    CASE closes -> "CLOSED"
      [] opens /\ ~ closes -> "ESTABLISHED"
      [] OTHER -> state

NextTCPState(state, opens, closes) ==
    CASE closes -> "CLOSED"
      [] opens /\ ~ closes /\ state = "NEW" -> "ESTABLISHED"
      [] OTHER -> state

(* updateTCPState *)
TCPUpdate(c, flags) ==
    LET synSeen == c.synSeen \/ ("SYN" \in flags /\ "ACK" \notin flags)
        synAckSeen == c.synAckSeen \/ {"SYN", "ACK"} \subseteq flags
        finSeen == c.finSeen \/ "FIN" \in flags
    IN  [c EXCEPT !.synSeen = synSeen, !.synAckSeen = synAckSeen, !.finSeen = finSeen,
                  !.state = NextTCPState(@,
                                synSeen /\ synAckSeen /\ "ACK" \in flags,
                                "RST" \in flags \/ (finSeen /\ "ACK" \in flags))]

(* Variant: an empty name does not replace the one that is there.          *)
ClassifiedKeepsName(c, app, sni) ==
    IF c.state = "CLASSIFIED" THEN c
    ELSE [c EXCEPT !.state = "CLASSIFIED", !.app = app,
                   !.sni = IF sni = NoDomain THEN @ ELSE sni]

(* classifyConnection *)
Classified(c, app, sni) ==
    IF c.state = "CLASSIFIED" THEN c
    ELSE [c EXCEPT !.state = "CLASSIFIED", !.app = app, !.sni = sni]

(* inspectPayload: a ClientHello is always long enough to be looked at     *)
(* whatever its port; a Host header and a query count on their ports only. *)
Inspected(c, t, payload) ==
    LET d == payload.domain
        named == \/ payload.kind = "tls"
                 \/ payload.kind = "http" /\ DstPort[t] = 80
        query == payload.kind = "dns" /\ 53 \in {DstPort[t], SrcPort[t]}
    IN  CASE named -> Classified(c, AppOf[d], d)
          [] query -> Classified(c, "DNS", d)
          [] ~ named /\ ~ query /\ DstPort[t] = 80 -> Classified(c, "HTTP", NoDomain)
          [] ~ named /\ ~ query /\ DstPort[t] = 443 -> Classified(c, "HTTPS", NoDomain)
          [] OTHER -> c
----------------------------------------------------------------------------
(* shouldBlock, one kind: does a rule of this kind match the connection c  *)
(* of five-tuple t?                                                        *)
Hit(kind, t, c) ==
    \/ kind = "IP" /\ IsIPBlocked(SrcIP[t])
    \/ kind = "PORT" /\ IsPortBlocked(DstPort[t])
    \/ kind = "APP" /\ IsAppBlocked(c.app)
    \/ kind = "DOMAIN" /\ c.sni # NoDomain /\ IsDomainBlocked(c.sni)

Hits(t, c) == {kind \in Kinds : Hit(kind, t, c)}

AfterFlags(p) ==
    IF p.flow \in TCPFlows THEN TCPUpdate(Found(p.flow), p.flags) ELSE Found(p.flow)

Stored(p, c) ==
    [t \in KeptFor(p.flow) \cup {p.flow} |-> IF t = p.flow THEN c ELSE conns[t]]

(* A packet of a connection that is BLOCKED and that its flags do not close.*)
ReceiveBlocked(p) ==
    /\ phase = "idle"
    /\ AfterFlags(p).state = "BLOCKED"
    /\ conns' = Stored(p, AfterFlags(p))
    /\ older' = Seen(p.flow)
    /\ job' = p
    /\ verdict' = "DROP"
    /\ suspects' = suspects \cap (KeptFor(p.flow) \cup {p.flow})
    /\ standing' = {}
    /\ UNCHANGED <<ruleVars, phase, ruleCalls>>

(* Any other packet: inspect it if need be, then begin to check the rules. *)
Receive(p, payload) ==
    LET c == IF AfterFlags(p).state # "CLASSIFIED" /\ payload.kind # "empty"
             THEN Inspected(AfterFlags(p), p.flow, payload)
             ELSE AfterFlags(p)
    IN  /\ phase = "idle"
        /\ AfterFlags(p).state # "BLOCKED"
        /\ conns' = Stored(p, c)
        /\ older' = Seen(p.flow)
        /\ job' = p
        /\ phase' = "IP"
        /\ verdict' = "none"
        /\ standing' = Hits(p.flow, c)
        /\ suspects' = (suspects \cap KeptFor(p.flow))
                           \cup (IF Hits(p.flow, c) # {} THEN {p.flow} ELSE {})
        /\ UNCHANGED <<ruleVars, ruleCalls>>

(* blockConnection and the verdict, at the first kind that matches.        *)
CheckHits ==
    /\ phase \in Kinds
    /\ Hit(phase, job.flow, conns[job.flow])
    /\ conns' = [conns EXCEPT ![job.flow].state = "BLOCKED"]
    /\ verdict' = "DROP"
    /\ phase' = "idle"
    /\ UNCHANGED <<ruleVars, older, job, ruleCalls, ghostVars>>

(* Variant: the domain of an application that is known is not looked up.   *)
PhaseAfterSkips(kind) ==
    CASE kind = "IP" -> "PORT"
      [] kind = "PORT" -> "APP"
      [] kind = "APP" -> IF conns[job.flow].app = "UNKNOWN" THEN "DOMAIN" ELSE "idle"
      [] OTHER -> "idle"

(* The order of the lookups in shouldBlock.                                *)
PhaseAfter(kind) ==
    CASE kind = "IP" -> "PORT"
      [] kind = "PORT" -> "APP"
      [] kind = "APP" -> "DOMAIN"
      [] OTHER -> "idle"

CheckMisses ==
    /\ phase \in Kinds
    /\ ~ Hit(phase, job.flow, conns[job.flow])
    /\ phase' = PhaseAfter(phase)
    /\ verdict' = IF PhaseAfter(phase) = "idle" THEN "FORWARD" ELSE "none"
    /\ UNCHANGED <<ruleVars, trackVars, job, ruleCalls, ghostVars>>

(* Variant: cleanup from another thread, while a packet is in hand.        *)
CleanupAnytime(stale) ==
    /\ stale \subseteq DOMAIN conns
    /\ \A t \in stale, u \in DOMAIN conns \ stale : <<t, u>> \in older
    /\ conns' = [t \in DOMAIN conns \ stale |-> conns[t]]
    /\ older' = {pair \in older : {pair[1], pair[2]} \cap stale = {}}
    /\ suspects' = suspects \ stale
    /\ UNCHANGED <<ruleVars, job, phase, verdict, ruleCalls, standing>>

(* cleanupStale, whenever the queue was empty for 100 ms: connections not  *)
(* seen for 300 s and the CLOSED ones go.                                  *)
Cleanup(stale) ==
    LET gone == stale \cup {t \in DOMAIN conns : conns[t].state = "CLOSED"}
    IN  /\ phase = "idle"
        /\ stale \subseteq DOMAIN conns
        /\ \A t \in stale, u \in DOMAIN conns \ stale : <<t, u>> \in older
        /\ conns' = [t \in DOMAIN conns \ gone |-> conns[t]]
        /\ older' = {pair \in older : {pair[1], pair[2]} \cap gone = {}}
        /\ suspects' = suspects \ gone
        /\ verdict' = "none"
        /\ UNCHANGED <<ruleVars, job, phase, ruleCalls, standing>>

(* Another thread changes a rule.                                          *)
ChangeRules ==
    /\ ruleCalls < MaxRuleCalls
    /\ RuleCall
    /\ ruleCalls' = ruleCalls + 1
    /\ UNCHANGED <<trackVars, job, phase, verdict>>
    /\ IF phase = "idle" THEN UNCHANGED <<standing, suspects>>
       ELSE LET hits == Hits(job.flow, conns[job.flow])'
            IN  /\ standing' = standing \cap hits
                /\ suspects' = suspects \cup (IF hits # {} THEN {job.flow} ELSE {})
----------------------------------------------------------------------------
Init ==
    /\ RulesInit
    /\ conns = [t \in {} |-> NewConnection]
    /\ older = {}
    /\ job \in Jobs
    /\ phase = "idle"
    /\ verdict = "none"
    /\ ruleCalls = 0
    /\ standing = {}
    /\ suspects = {}

FastPathStep ==
    \/ \E p \in Jobs : ReceiveBlocked(p)
    \/ \E p \in Jobs, payload \in Payloads : Receive(p, payload)
    \/ CheckHits
    \/ CheckMisses
    \/ \E stale \in SUBSET Flows : Cleanup(stale)

Next == FastPathStep \/ ChangeRules

Spec == Init /\ [][Next]_vars
----------------------------------------------------------------------------
(* PROPERTIES                                                              *)

TypeOK ==
    /\ RulesTypeOK
    /\ DOMAIN conns \subseteq Flows
    /\ \A t \in DOMAIN conns : conns[t] \in Connections
    /\ older \subseteq (DOMAIN conns) \X (DOMAIN conns)
    /\ job \in Jobs
    /\ phase \in Kinds \cup {"idle"}
    /\ phase # "idle" => job.flow \in DOMAIN conns
    /\ verdict \in {"none", "FORWARD", "DROP"}
    /\ ruleCalls \in 0 .. MaxRuleCalls
    /\ standing \subseteq Kinds
    /\ suspects \subseteq DOMAIN conns

(* However the rules change while a packet is checked: a rule that matches *)
(* it from the beginning of the check to its end is not overlooked.        *)
StandingRuleApplies == verdict = "FORWARD" => standing = {}

(* A packet is dropped only if a rule did match its connection during a    *)
(* check, of this packet or of an earlier one; an entry that was evicted   *)
(* or cleaned up leaves nothing behind for whoever uses its place.         *)
DropHasCause == verdict = "DROP" => job.flow \in suspects

(* "For LRU eviction if table gets full": the table never outgrows its     *)
(* limit, and the connection of the last packet leaves it in two ways      *)
(* only: evicted from a table with room for one, or cleaned up, CLOSED or  *)
(* together with all the others, which were seen before it.                *)
RecentStays ==
    [][/\ Cardinality(DOMAIN conns') <= MaxConnections
       /\ job.flow \in (DOMAIN conns) \ (DOMAIN conns') =>
             IF job' # job THEN MaxConnections = 1
             ELSE conns[job.flow].state = "CLOSED" \/ DOMAIN conns' = {}]_vars

(* Application and name of a connection come from the same packet, also    *)
(* when a closed connection is classified anew.                            *)
LabelsAgree ==
    \A t \in DOMAIN conns :
        conns[t].app \in IF conns[t].sni = NoDomain THEN {"UNKNOWN", "HTTP", "HTTPS"}
                         ELSE {AppOf[conns[t].sni], "DNS"}

(* What lifts a block is the end of the TCP connection: no payload, no     *)
(* unblocked rule, no later check does while the entry is in the table.    *)
BlockedUntilClosed ==
    [][\A t \in (DOMAIN conns) \cap (DOMAIN conns') :
          conns[t].state = "BLOCKED" /\ conns'[t].state # "BLOCKED" =>
              /\ t = job'.flow /\ t \in TCPFlows
              /\ \/ "RST" \in job'.flags
                 \/ conns'[t].finSeen /\ "ACK" \in job'.flags]_vars
=============================================================================
