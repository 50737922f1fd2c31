----------------------- MODULE DetectionServiceProofs -----------------------
(***************************************************************************)
(* Proofs about the detection service, for any flows, rules, records and   *)
(* number of crashes.                                                      *)
(***************************************************************************)
EXTENDS DetectionService, TLAPS

USE DEF kafka, detection, producer, history, Current, Alert

Types ==
    /\ processed \in [1 .. MaxRecords -> Flows]
    /\ next \in 1 .. MaxRecords + 1
    /\ committed \in 0 .. MaxRecords + 1
    /\ config \in Versions /\ rules \in Versions /\ limits \in Versions
    /\ detector \in {"poll", "source", "destination", "produce"}
    /\ crashes \in Nat

(* What was found belongs to the check under way, and is of one version of *)
(* the rules.                                                              *)
FoundInv ==
    /\ detector = "poll" => found = {}
    /\ detector # "poll" => Current \in 1 .. MaxRecords
    /\ \A a \in found : /\ a.record = Current /\ a.rules = limits
                        /\ a.kind \in {"rule", "source", "destination"}

(* Without a crash no record was checked twice: the alerts produced are of *)
(* records taken so far, those of the last one of the version in hand.     *)
AlertInv ==
    crashes = 0 =>
        \A a \in produced :
            /\ a.record \in Nat /\ a.record <= Current
            /\ a.record = Current => a.rules = limits

IInv == Types /\ FoundInv /\ AlertInv /\ StoredWasProduced /\ BlockedIsAlerted
----------------------------------------------------------------------------
(* Which alert is produced first is determined.                            *)
LEMMA FirstFound ==
    ASSUME found # {}, \A a \in found : a.kind \in {"rule", "source", "destination"}
    PROVE  First \in found
<1> DEFINE Leads(a, b) == \E i, j \in DOMAIN Order :
                              a.kind = Order[i] /\ b.kind = Order[j] /\ i <= j
<1>1. /\ DOMAIN Order = 1 .. 3
      /\ Order[1] = "rule" /\ Order[2] = "source" /\ Order[3] = "destination"
  BY DEF Order
<1>2. ASSUME NEW m \in 1 .. 3, NEW n \in 1 .. 3, m <= n,
             NEW a, NEW b, a.kind = Order[m], b.kind = Order[n]
      PROVE  Leads(a, b)
  BY <1>1, <1>2
<1> HIDE DEF Leads
<1>3. \E a \in found : \A b \in found : Leads(a, b)
  <2>1. CASE \E a \in found : a.kind = "rule"
    BY <1>1, <1>2, <2>1
  <2>2. CASE /\ ~ \E a \in found : a.kind = "rule"
             /\ \E a \in found : a.kind = "source"
    BY <1>1, <1>2, <2>2
  <2>3. CASE ~ \E a \in found : a.kind \in {"rule", "source"}
    BY <1>1, <1>2, <2>3
  <2>4. QED
    BY <2>1, <2>2, <2>3
<1>4. QED
  BY <1>3 DEF First, Leads
----------------------------------------------------------------------------
LEMMA InitIInv == Init => IInv
BY DetectionAssumption DEF Init, IInv, Types, FoundInv, AlertInv, StoredWasProduced,
   BlockedIsAlerted, Versions

LEMMA TakeStep == ASSUME IInv, Take PROVE IInv'
<1>1. Types'
  BY DetectionAssumption DEF IInv, Types, Take
<1>2. FoundInv'
  BY <1>1, DetectionAssumption DEF IInv, Types, FoundInv, Take
<1>3. AlertInv'
  BY DEF IInv, Types, AlertInv, Take
<1>4. StoredWasProduced'
  BY DEF IInv, Types, AlertInv, FoundInv, StoredWasProduced, Take
<1>5. BlockedIsAlerted'
  <2>1. found = {} /\ next \in Nat /\ next' = next + 1
    BY DEF IInv, FoundInv, Types, Take
  <2>2. ASSUME NEW i \in 1 .. next' - 1, \A v \in Versions : processed[i] \in Blocked[v]
        PROVE  \/ i \in skipped
               \/ \E a \in found' \cup buffer \cup alerts \cup lost :
                      a.record = i /\ a.kind = "rule"
    <3>1. CASE i = next
      <4>1. processed[next] \in Blocked[rules]
        BY <2>2, <3>1 DEF IInv, Types
      <4>2. found' = {Alert(next, "rule", rules)}
        BY <4>1 DEF Take
      <4>3. Alert(next, "rule", rules) \in found'
        BY <4>2
      <4>4. Alert(next, "rule", rules).record = i /\ Alert(next, "rule", rules).kind = "rule"
        BY <3>1
      <4>5. QED
        BY <4>3, <4>4
    <3>2. CASE i # next
      BY <2>1, <2>2, <3>2 DEF IInv, BlockedIsAlerted
    <3>3. QED
      BY <3>1, <3>2
  <2>3. QED
    BY <2>2 DEF BlockedIsAlerted, Take
<1>6. QED
  BY <1>1, <1>2, <1>3, <1>4, <1>5 DEF IInv

(* An answer of the limiter adds to what was found and what was produced.  *)
LEMMA AnsweredStep ==
    ASSUME IInv, NEW yes \in BOOLEAN, NEW kind \in {"source", "destination"}, Answered(yes, kind),
           detector # "poll", detector' \in {"destination", "produce"},
           UNCHANGED <<kafka, config, rules, limits, saves, stored, history>>
    PROVE  IInv'
<1>1. /\ found' \subseteq found \cup {Alert(Current, kind, limits)} /\ found \subseteq found'
      /\ produced' \subseteq produced \cup {Alert(Current, "limiter", limits)}
      /\ produced \subseteq produced' /\ buffer \subseteq buffer' /\ alerts' = alerts
  BY DEF Answered, Hand
<1>2. Types' /\ FoundInv'
  BY <1>1 DEF IInv, Types, FoundInv
<1>3. AlertInv'
  BY <1>1 DEF IInv, Types, FoundInv, AlertInv
<1>4. StoredWasProduced'
  BY <1>1 DEF IInv, AlertInv, FoundInv, StoredWasProduced
<1>5. BlockedIsAlerted'
  BY <1>1 DEF IInv, BlockedIsAlerted
<1>6. QED
  BY <1>2, <1>3, <1>4, <1>5 DEF IInv

LEMMA ProduceStep == ASSUME IInv, Produce PROVE IInv'
<1>1. CASE found = {}
  BY <1>1 DEF IInv, Types, FoundInv, AlertInv, StoredWasProduced, BlockedIsAlerted, Produce
<1>2. CASE /\ found # {} /\ Hand({First}) /\ saves' = saves \cup {First}
           /\ found' = found \ {First} /\ UNCHANGED <<detector, lost>>
  <2>1. First \in found
    BY <1>2, FirstFound DEF IInv, FoundInv
  <2>2. /\ UNCHANGED <<kafka, config, rules, limits, stored, skipped, crashes>>
        /\ detector # "poll"
    BY DEF Produce
  <2>3. buffer' = buffer \cup {First} /\ produced' = produced \cup {First} /\ alerts' = alerts
    BY <1>2 DEF Hand
  <2> HIDE DEF First
  <2>4. Types' /\ FoundInv' /\ AlertInv'
    BY <1>2, <2>1, <2>2, <2>3 DEF IInv, Types, FoundInv, AlertInv
  <2>5. StoredWasProduced'
    BY <1>2, <2>1, <2>2, <2>3 DEF IInv, FoundInv, AlertInv, StoredWasProduced
  <2>6. BlockedIsAlerted'
    BY <1>2, <2>1, <2>2, <2>3 DEF IInv, BlockedIsAlerted
  <2>7. QED
    BY <2>4, <2>5, <2>6 DEF IInv
<1>3. CASE found # {} /\ Refuse /\ UNCHANGED saves
  <2>1. /\ UNCHANGED <<kafka, config, rules, limits, saves, producer, stored, skipped, crashes>>
        /\ lost' = lost \cup found /\ found' = {} /\ detector' = "poll"
    BY <1>3 DEF Produce, Refuse
  <2>2. Types' /\ FoundInv' /\ AlertInv' /\ StoredWasProduced'
    BY <2>1 DEF IInv, Types, FoundInv, AlertInv, StoredWasProduced
  <2>3. BlockedIsAlerted'
    BY <2>1 DEF IInv, BlockedIsAlerted
  <2>4. QED
    BY <2>2, <2>3 DEF IInv
<1>4. QED
  BY <1>1, <1>2, <1>3 DEF Produce

(* An alert that leaves the producer's buffer is in the topic, or lost.    *)
LEMMA DeliverStep == ASSUME IInv, NEW a \in buffer, Deliver(a) PROVE IInv'
<1>1. /\ UNCHANGED <<kafka, config, rules, detection, saves, produced, stored, skipped, crashes>>
      /\ buffer' = buffer \ {a} /\ alerts \subseteq alerts' /\ lost \subseteq lost'
      /\ a \in alerts' \cup lost'
  BY DEF Deliver
<1>2. Types' /\ FoundInv' /\ AlertInv' /\ StoredWasProduced'
  BY <1>1 DEF IInv, Types, FoundInv, AlertInv, StoredWasProduced
<1>3. BlockedIsAlerted'
  <2>1. found \cup buffer \cup alerts \cup lost \subseteq found' \cup buffer' \cup alerts' \cup lost'
    BY <1>1
  <2>2. QED
    BY <1>1, <2>1 DEF IInv, BlockedIsAlerted
<1>4. QED
  BY <1>2, <1>3 DEF IInv

LEMMA CrashStep == ASSUME IInv, Crash PROVE IInv'
<1>1. next' \in 1 .. MaxRecords + 1
  BY DetectionAssumption DEF IInv, Types, Crash
<1>2. Types' /\ FoundInv'
  BY <1>1, DetectionAssumption DEF IInv, Types, FoundInv, Crash
<1>3. crashes' # 0
  BY DEF Crash, IInv, Types
<1>4. AlertInv' /\ StoredWasProduced'
  BY <1>3 DEF IInv, AlertInv, StoredWasProduced, Crash
<1>5. BlockedIsAlerted'
  <2>1. /\ UNCHANGED processed /\ skipped \subseteq skipped'
        /\ found \cup buffer \cup alerts \cup lost \subseteq found' \cup buffer' \cup alerts' \cup lost'
        /\ \A i \in 1 .. next' - 1 : i >= next => i \in skipped'
    BY DEF Crash
  <2>2. ASSUME NEW i \in 1 .. next' - 1, \A v \in Versions : processed[i] \in Blocked[v],
               i \notin skipped'
        PROVE  \E a \in found \cup buffer \cup alerts \cup lost : a.record = i /\ a.kind = "rule"
    <3>1. i \in 1 .. next - 1 /\ i \notin skipped
      <4>1. next \in Nat /\ next' \in Nat /\ i \in Nat /\ i >= 1
        BY <1>1 DEF IInv, Types
      <4>2. ~ i >= next /\ i \notin skipped
        BY <2>1, <2>2
      <4>3. QED
        BY <4>1, <4>2
    <3>2. QED
      BY <2>2, <3>1 DEF IInv, BlockedIsAlerted
  <2>3. ASSUME NEW i \in 1 .. next' - 1, \A v \in Versions : processed'[i] \in Blocked[v]
        PROVE  \/ i \in skipped'
               \/ \E a \in found' \cup buffer' \cup alerts' \cup lost' :
                      a.record = i /\ a.kind = "rule"
    BY <2>1, <2>2, <2>3
  <2>4. QED
    BY <2>3 DEF BlockedIsAlerted
<1>6. QED
  BY <1>2, <1>4, <1>5 DEF IInv

LEMMA StepIInv == IInv /\ [Next]_vars => IInv'
<1> SUFFICES ASSUME IInv, [Next]_vars PROVE IInv'
  OBVIOUS
<1>1. CASE SourceAnswered
  BY <1>1, AnsweredStep DEF SourceAnswered, Answers
<1>2. CASE DestinationAnswered
  BY <1>2, AnsweredStep DEF DestinationAnswered, Answers
<1>3. CASE \E a \in saves : SaveEnds(a)
  <2>1. PICK a \in saves : SaveEnds(a)
    BY <1>3
  <2>2. /\ saves' \subseteq saves /\ stored' \subseteq stored \cup saves
        /\ UNCHANGED <<kafka, config, rules, detection, producer, history>>
    BY <2>1 DEF SaveEnds
  <2>3. Types' /\ FoundInv' /\ AlertInv' /\ BlockedIsAlerted'
    BY <2>2 DEF IInv, Types, FoundInv, AlertInv, BlockedIsAlerted
  <2>4. StoredWasProduced'
    BY <2>2 DEF IInv, StoredWasProduced
  <2>5. QED
    BY <2>3, <2>4 DEF IInv
<1>4. CASE Refresh \/ Configure
  <2>1. /\ rules' \in Versions /\ config' \in Versions
        /\ UNCHANGED <<kafka, detection, saves, producer, stored, history>>
    BY <1>4 DEF Refresh, Configure, IInv, Types
  <2>2. Types'
    BY <2>1 DEF IInv, Types
  <2>3. QED
    BY <2>1, <2>2 DEF IInv, FoundInv, AlertInv, StoredWasProduced, BlockedIsAlerted
<1>5. CASE AutoCommit
  <2>1. /\ committed' = next
        /\ UNCHANGED <<processed, next, config, rules, detection, saves, producer, stored, history>>
    BY <1>5 DEF AutoCommit
  <2>2. Types'
    BY <2>1, DetectionAssumption DEF IInv, Types
  <2>3. QED
    BY <2>1, <2>2 DEF IInv, FoundInv, AlertInv, StoredWasProduced, BlockedIsAlerted
<1>6. CASE UNCHANGED vars
  BY <1>6 DEF vars, IInv, Types, FoundInv, AlertInv, StoredWasProduced, BlockedIsAlerted
<1>7. QED
  BY <1>1, <1>2, <1>3, <1>4, <1>5, <1>6, TakeStep, ProduceStep, DeliverStep, CrashStep DEF Next

(* The inductive invariant holds in every reachable state.                 *)
THEOREM Invariance == Spec => []IInv
BY InitIInv, StepIInv, PTL DEF Spec

(* No alert is in the database that Kafka's producer had not accepted, and *)
(* no record that came once has alerts of two versions of the rules.       *)
THEOREM StoredProduced == Spec => []StoredWasProduced
BY Invariance, PTL DEF IInv

(* A flow that every version of the rules blocks has its alert in hand, in *)
(* the producer's buffer or in the topic, unless this alert was refused,   *)
(* could not be delivered or died with the service, or the record was      *)
(* never taken.                                                            *)
THEOREM BlockedAlerted == Spec => []BlockedIsAlerted
BY Invariance, PTL DEF IInv
=============================================================================
