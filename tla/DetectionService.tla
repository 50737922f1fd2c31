-------------------------- MODULE DetectionService --------------------------
(***************************************************************************)
(* The detection service (detection_service/main.py, rule_engine.py,       *)
(* rate_limiter.py): one thread takes flow records from Kafka and checks   *)
(* them one after another. Its event loop runs only while a check waits    *)
(* for Redis; the refresh of the rules and the tasks that store alerts     *)
(* advance then and at no other time.                                      *)
(***************************************************************************)
EXTENDS Naturals, FiniteSets

CONSTANTS Flows,
          Blocked,       \* the flows each version of the rules blocks, by
                         \* address, name or port (one alert stands for the
                         \* three); version 0 is the default
          MaxRecords,    \* flow records in the topic (bound)
          MaxAlerts,     \* alerts after which the limiter says no (bound)
          MaxCrashes     \* times the service is killed (bound)

Versions == DOMAIN Blocked

ASSUME DetectionAssumption ==
    /\ MaxRecords \in Nat /\ MaxAlerts \in Nat /\ MaxCrashes \in Nat
    /\ 0 \in Versions /\ \A v \in Versions : Blocked[v] \subseteq Flows

VARIABLES
    processed,   \* the topic processed_packets: the flow of each record
    next,        \* the record the consumer takes next
    committed,   \* the offset committed for the group, or 0
    config,      \* the version Redis has in rules:config
    rules,       \* the version in self.rules
    detector,    \* "poll", or the answer of the rate limiter it waits for
    found,       \* alerts of the check under way
    limits,      \* the version the limits of this check are of
    saves,       \* pending tasks save_alert
    buffer,      \* alerts produced and not yet delivered
    alerts,      \* the topic alerts
    stored,      \* the table alerts
    produced,    \* history: alerts the producer accepted
    lost,        \* history: alerts that were refused, could not be delivered,
                 \* or were in memory when the service was killed
    skipped,     \* history: records that a restart passed over
    crashes

kafka == <<processed, next, committed>>
detection == <<detector, found, limits>>
producer == <<buffer, alerts, produced>>
history == <<lost, skipped, crashes>>
vars == <<kafka, config, rules, detection, saves, producer, stored, history>>

Order == <<"rule", "source", "destination">>
Alert(i, kind, version) == [record |-> i, kind |-> kind, rules |-> version]

Current == next - 1
First == CHOOSE a \in found : \A b \in found : \E i, j \in DOMAIN Order :
             a.kind = Order[i] /\ b.kind = Order[j] /\ i <= j
Checking == detector \in {"source", "destination"}
----------------------------------------------------------------------------
(* poll; check begins, and reads all rules before its first await. The     *)
(* limits are of the same version.                                         *)
Take ==
    /\ detector = "poll"
    /\ next <= MaxRecords
    /\ next' = next + 1
    /\ found' = IF processed[next] \in Blocked[rules] THEN {Alert(next, "rule", rules)} ELSE {}
    /\ limits' = rules
    /\ detector' = "source"
    /\ UNCHANGED <<processed, committed, config, rules, saves, producer, stored, history>>

(* produce() accepts: the alerts are in the producer's buffer.             *)
Hand(accepted) ==
    /\ buffer' = buffer \cup accepted
    /\ produced' = produced \cup accepted
    /\ UNCHANGED alerts

(* Variant: the answer replaces what was found before.                     *)
AnsweredInstead(yes, kind) ==
    /\ found' = IF yes THEN {Alert(Current, kind, limits)} ELSE found
    /\ UNCHANGED producer

(* is_rate_limited answers (no, if Redis fails). A yes is also told to     *)
(* Kafka by the limiter itself, in other words and without a number.       *)
Answered(yes, kind) ==
    /\ found' = found \cup (IF yes THEN {Alert(Current, kind, limits)} ELSE {})
    /\ \E told \in SUBSET (IF yes THEN {Alert(Current, "limiter", limits)} ELSE {}) : Hand(told)

Answers == IF Cardinality(found \cup produced) < MaxAlerts THEN BOOLEAN ELSE {FALSE}

SourceAnswered ==
    /\ detector = "source"
    /\ \E yes \in Answers : Answered(yes, "source")
    /\ detector' = "destination"
    /\ UNCHANGED <<kafka, config, rules, limits, saves, stored, history>>

DestinationAnswered ==
    /\ detector = "destination"
    /\ \E yes \in Answers : Answered(yes, "destination")
    /\ detector' = "produce"
    /\ UNCHANGED <<kafka, config, rules, limits, saves, stored, history>>

Refuse ==
    /\ lost' = lost \cup found
    /\ found' = {}
    /\ detector' = "poll"
    /\ UNCHANGED producer

(* Variant: the task is made before produce() is called.                   *)
ProduceSavesFirst ==
    /\ detector = "produce"
    /\ IF found = {} THEN detector' = "poll" /\ UNCHANGED <<found, saves, producer, lost>>
       ELSE /\ saves' = saves \cup {First}
            /\ \/ Hand({First}) /\ found' = found \ {First} /\ UNCHANGED <<detector, lost>>
               \/ Refuse
    /\ UNCHANGED <<kafka, config, rules, limits, stored, skipped, crashes>>

(* The alerts are produced in the order of the checks, each followed by a  *)
(* task that stores it. If one is refused, the exception drops the rest.   *)
Produce ==
    /\ detector = "produce"
    /\ IF found = {} THEN detector' = "poll" /\ UNCHANGED <<found, saves, producer, lost>>
       ELSE \/ /\ Hand({First}) /\ saves' = saves \cup {First}
               /\ found' = found \ {First} /\ UNCHANGED <<detector, lost>>
            \/ Refuse /\ UNCHANGED saves
    /\ UNCHANGED <<kafka, config, rules, limits, stored, skipped, crashes>>

(* Kafka: an alert is delivered or times out, which delivery_report only   *)
(* writes to the log.                                                      *)
Deliver(a) ==
    /\ a \in buffer
    /\ buffer' = buffer \ {a}
    /\ \/ alerts' = alerts \cup {a} /\ UNCHANGED lost
       \/ lost' = lost \cup {a} /\ UNCHANGED alerts
    /\ UNCHANGED <<kafka, config, rules, detection, saves, produced, stored, skipped, crashes>>
----------------------------------------------------------------------------
(* While the loop runs: a task stores its alert, or fails ...              *)
SaveEnds(a) ==
    /\ Checking
    /\ a \in saves
    /\ saves' = saves \ {a}
    /\ stored' \in {stored, stored \cup {a}}
    /\ UNCHANGED <<kafka, config, rules, detection, producer, history>>

(* ... and the rules are fetched, at once and then every minute.           *)
Refresh ==
    /\ Checking
    /\ rules' = config
    /\ UNCHANGED <<kafka, config, detection, saves, producer, stored, history>>

(* Somebody writes rules:config.                                           *)
Configure ==
    /\ config' \in Versions \ {config}
    /\ config' > config
    /\ UNCHANGED <<kafka, rules, detection, saves, producer, stored, history>>

(* The consumer commits by itself, every five seconds, what poll returned. *)
AutoCommit ==
    /\ next > 1
    /\ committed' = next
    /\ UNCHANGED <<processed, next, config, rules, detection, saves, producer, stored, history>>

(* The detector is a daemon thread with an endless loop: the service ends  *)
(* with uvicorn, and nothing of its clean-up runs, flush() neither. A new  *)
(* process without a committed offset begins at the end of the topic.      *)
Crash ==
    /\ crashes < MaxCrashes
    /\ crashes' = crashes + 1
    /\ next' \in IF committed # 0 THEN {committed} ELSE next .. MaxRecords + 1
    /\ skipped' = skipped \cup {i \in 1 .. next' - 1 : i >= next}
    /\ lost' = lost \cup found \cup buffer
    /\ rules' = 0 /\ limits' = 0
    /\ detector' = "poll" /\ found' = {} /\ saves' = {} /\ buffer' = {}
    /\ UNCHANGED <<processed, committed, config, alerts, produced, stored>>
----------------------------------------------------------------------------
Init ==
    /\ processed \in [1 .. MaxRecords -> Flows]
    /\ next = 1 /\ committed = 0
    /\ config \in Versions /\ rules = 0 /\ limits = 0
    /\ detector = "poll"
    /\ found = {} /\ saves = {} /\ buffer = {}
    /\ alerts = {} /\ stored = {}
    /\ produced = {} /\ lost = {} /\ skipped = {}
    /\ crashes = 0

Next ==
    \/ Take \/ SourceAnswered \/ DestinationAnswered \/ Produce
    \/ \E a \in buffer : Deliver(a)
    \/ \E a \in saves : SaveEnds(a)
    \/ Refresh \/ Configure
    \/ AutoCommit
    \/ Crash

Spec == Init /\ [][Next]_vars
----------------------------------------------------------------------------
(* PROPERTIES                                                              *)

(* An alert of the database was handed to Kafka's producer, whatever was   *)
(* refused or interrupted in between, and the alerts of one record that    *)
(* came once are of one version of the rules, though they are refreshed    *)
(* meanwhile.                                                              *)
StoredWasProduced ==
    /\ stored \cup saves \subseteq produced
    /\ crashes = 0 => \A a, b \in produced \cup found :
                          a.record = b.record => a.rules = b.rules

(* A flow that all versions of the rules block has its alert, from the     *)
(* moment its record is taken: in hand, in the producer's buffer or in the *)
(* topic. It is missing there only if this alert was refused, could not be *)
(* delivered or died with the service, or the record was never taken: the  *)
(* commit of an offset does not wait for the check, and nothing waits for  *)
(* the delivery.                                                           *)
BlockedIsAlerted ==
    \A i \in 1 .. Current :
        (\A v \in Versions : processed[i] \in Blocked[v]) =>
            \/ i \in skipped
            \/ \E a \in found \cup buffer \cup alerts \cup lost : a.record = i /\ a.kind = "rule"
============================================================================
