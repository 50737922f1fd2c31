------------------------ MODULE CaptureEngineProofs ------------------------
(***************************************************************************)
(* Proofs about the packet service, for any number of producers and        *)
(* packets and any capacities of the queue and of librdkafka.              *)
(***************************************************************************)
EXTENDS CaptureEngine, SumLemmas

USE DEF flagVars, prodVars, kafkaVars

CaptureTyped ==
    /\ running \in BOOLEAN /\ shut \in BOOLEAN /\ broken \in BOOLEAN
    /\ capturePc \in {"loop", "push", "count", "exit"}
    /\ queue \in 0 .. QueueCapacity
    /\ pc \in [Producers -> {"check", "pop", "produce", "retry", "exit"}]
    /\ drains \in [Producers -> BOOLEAN]
    /\ buffer \in [Producers -> Nat]
    /\ reports \in [Producers -> [ok : Nat, err : Nat]]
    /\ stats \in [captured : Nat, dropped : Nat, queued : Nat, sent : Nat, failed : Nat]
    /\ ownerPc \in {"run", "break", "shutdown", "join_capture", "join_producers", "done"}
    /\ signalled \in BOOLEAN

(* librdkafka never holds more messages and reports than it is allowed.    *)
BufferBound == \A i \in Producers : InBuffer(i) <= KafkaCapacity

(* The capture thread's own count.                                         *)
CaptureCount ==
    /\ stats.captured <= MaxPackets
    /\ stats.captured = stats.dropped + stats.queued
          + (IF capturePc \in {"push", "count"} THEN 1 ELSE 0)

Held == [i \in Producers |-> InBuffer(i)]

(* EveryPacketCounted, with the messages of librdkafka as a set.           *)
HeldCount ==
    stats.captured = stats.dropped + stats.sent + stats.failed
        + (IF capturePc = "push" THEN 1 ELSE 0)
        + queue + Cardinality(InHand) + Total(Held, Producers)

(* A producer that is in its last loop began it when running_ was false    *)
(* and the queue shut down; it leaves when nothing is queued.              *)
LastLoop ==
    \A i \in Producers :
        /\ drains[i] => ~ running /\ shut
        /\ pc[i] = "exit" => drains[i] /\ queue = 0

CaptureInv == CaptureTyped /\ BufferBound /\ CaptureCount /\ HeldCount /\ LastLoop
----------------------------------------------------------------------------
LEMMA HeldNat ==
    ASSUME CaptureTyped, NEW i \in Producers
    PROVE  /\ Held[i] = buffer[i] + reports[i].ok + reports[i].err
           /\ buffer[i] \in Nat /\ reports[i].ok \in Nat /\ reports[i].err \in Nat
           /\ Held[i] \in Nat
<1>1. buffer[i] \in Nat /\ reports[i].ok \in Nat /\ reports[i].err \in Nat
  BY DEF CaptureTyped
<1>2. QED
  BY <1>1 DEF Held, InBuffer

(* The fold of the property is the size of the set.                        *)
LEMMA HeldSum ==
    ASSUME CaptureTyped
    PROVE  MapThenSumSet(InBuffer, Producers) = Total(Held, Producers)
<1> DEFINE F(g) == g = [T \in SUBSET Producers |->
                           IF T = {} THEN 0 ELSE InBuffer(First(T)) + g[T \ {First(T)}]]
           g == CHOOSE h : F(h)
<1>1. MapThenSumSet(InBuffer, Producers) = g[Producers]
  BY DEF MapThenSumSet, MapThenFoldSet, First
<1>2. ASSUME NEW h
      PROVE  F(h) <=> Folds(h, Held, Producers)
  <2>1. ASSUME NEW T \in SUBSET Producers
        PROVE  (IF T = {} THEN 0 ELSE InBuffer(First(T)) + h[T \ {First(T)}])
                 = (IF T = {} THEN 0 ELSE Held[First(T)] + h[T \ {First(T)}])
    <3>1. T # {} => First(T) \in Producers
      BY DEF First
    <3>2. QED
      BY <3>1 DEF Held
  <2>2. [T \in SUBSET Producers |->
            IF T = {} THEN 0 ELSE InBuffer(First(T)) + h[T \ {First(T)}]]
          = [T \in SUBSET Producers |->
                IF T = {} THEN 0 ELSE Held[First(T)] + h[T \ {First(T)}]]
    BY <2>1, Zenon
  <2>3. QED
    BY <2>2 DEF Folds
<1>3. \A i \in Producers : Held[i] \in Nat
  BY HeldNat
<1>4. F(g)
  <2>1. \E h : F(h)
    BY <1>2, <1>3, FoldsExists, CaptureAssumption
  <2> HIDE DEF F
  <2>2. QED
    BY <2>1
<1>5. Folds(g, Held, Producers)
  BY <1>2, <1>4
<1> HIDE DEF F, g
<1>6. QED
  BY <1>1, <1>3, <1>5, FoldsTotal, CaptureAssumption

(* So are the folds of the flush.                                          *)
LEMMA ReportSums ==
    ASSUME CaptureTyped
    PROVE  /\ MapThenSumSet(LAMBDA i : reports[i].ok, Producers)
                = Total([i \in Producers |-> reports[i].ok], Producers)
           /\ MapThenSumSet(LAMBDA i : reports[i].err, Producers)
                = Total([i \in Producers |-> reports[i].err], Producers)
<1> DEFINE F(g, r) == g = [T \in SUBSET Producers |->
                       IF T = {} THEN 0 ELSE reports[First(T)][r] + g[T \ {First(T)}]]
           s(r) == CHOOSE h : F(h, r)
           f(r) == [i \in Producers |-> reports[i][r]]
<1>1. /\ MapThenSumSet(LAMBDA i : reports[i].ok, Producers) = s("ok")[Producers]
      /\ MapThenSumSet(LAMBDA i : reports[i].err, Producers) = s("err")[Producers]
  BY DEF MapThenSumSet, MapThenFoldSet, First
<1>2. ASSUME NEW h, NEW r
      PROVE  F(h, r) <=> Folds(h, f(r), Producers)
  <2>1. ASSUME NEW T \in SUBSET Producers
        PROVE  (IF T = {} THEN 0 ELSE reports[First(T)][r] + h[T \ {First(T)}])
                 = (IF T = {} THEN 0 ELSE f(r)[First(T)] + h[T \ {First(T)}])
    <3>1. T # {} => First(T) \in Producers
      BY DEF First
    <3>2. QED
      BY <3>1
  <2>2. [T \in SUBSET Producers |->
            IF T = {} THEN 0 ELSE reports[First(T)][r] + h[T \ {First(T)}]]
          = [T \in SUBSET Producers |->
                IF T = {} THEN 0 ELSE f(r)[First(T)] + h[T \ {First(T)}]]
    BY <2>1, Zenon
  <2>3. QED
    BY <2>2 DEF Folds
<1>3. ASSUME NEW r \in {"ok", "err"}
      PROVE  s(r)[Producers] = Total(f(r), Producers)
  <2>1. \A i \in Producers : f(r)[i] \in Nat
    BY DEF CaptureTyped
  <2>2. \A h : F(h, r) <=> Folds(h, f(r), Producers)
    BY <1>2
  <2>3. s(r) = CHOOSE h : F(h, r)
    OBVIOUS
  <2> HIDE DEF F, s, f
  <2>4. \E h : Folds(h, f(r), Producers)
    BY <2>1, FoldsExists, CaptureAssumption
  <2>5. Folds(s(r), f(r), Producers)
    <3>1. F(s(r), r)
      BY <2>2, <2>3, <2>4
    <3>2. QED
      BY <2>2, <3>1
  <2>6. QED
    BY <2>1, <2>5, FoldsTotal, CaptureAssumption
<1>4. QED
  BY <1>1, <1>3

LEMMA SizesNat ==
    ASSUME CaptureTyped
    PROVE  /\ IsFiniteSet(InHand) /\ Cardinality(InHand) \in Nat
           /\ Total(Held, Producers) \in Nat
<1>1. InHand \in SUBSET Producers
  BY DEF InHand
<1>2. \A i \in Producers : Held[i] \in Nat
  BY HeldNat
<1>3. QED
  BY <1>1, <1>2, FS_Subset, FS_CardinalityType, TotalNat, CaptureAssumption

Hand == {"produce", "retry"}

(* One producer goes on: whether its hand was full before and is now.      *)
LEMMA HandChange ==
    ASSUME CaptureTyped, NEW i \in Producers, NEW v, pc' = [pc EXCEPT ![i] = v]
    PROVE  /\ Cardinality(InHand') + (IF pc[i] \in Hand THEN 1 ELSE 0)
                = Cardinality(InHand) + (IF v \in Hand THEN 1 ELSE 0)
           /\ Cardinality(InHand) \in Nat /\ Cardinality(InHand') \in Nat
<1>1. IsFiniteSet(InHand) /\ Cardinality(InHand) \in Nat
  BY SizesNat
<1>2. i \in InHand <=> pc[i] \in Hand
  BY DEF InHand, Hand
<1>3. InHand' = IF v \in Hand THEN InHand \cup {i} ELSE InHand \ {i}
  BY DEF InHand, Hand, CaptureTyped
<1>4. /\ Cardinality(InHand \cup {i}) =
            IF i \in InHand THEN Cardinality(InHand) ELSE Cardinality(InHand) + 1
      /\ Cardinality(InHand \ {i}) =
            IF i \in InHand THEN Cardinality(InHand) - 1 ELSE Cardinality(InHand)
  BY <1>1, FS_AddElement, FS_RemoveElement
<1>5. i \in InHand => Cardinality(InHand) # 0
  BY <1>1, FS_EmptySet
<1>6. CASE v \in Hand
  <2>1. InHand' = InHand \cup {i}
    BY <1>3, <1>6
  <2>2. QED
    BY <1>1, <1>2, <1>4, <1>6, <2>1
<1>7. CASE v \notin Hand
  <2>1. InHand' = InHand \ {i}
    BY <1>3, <1>7
  <2>2. QED
    BY <1>1, <1>2, <1>4, <1>5, <1>7, <2>1
<1>8. QED
  BY <1>6, <1>7

(* Messages come to one producer's librdkafka or leave it.                 *)
LEMMA HeldChange ==
    ASSUME CaptureTyped, CaptureTyped', NEW i \in Producers,
           \A j \in Producers \ {i} : buffer'[j] = buffer[j] /\ reports'[j] = reports[j]
    PROVE  /\ Total(Held', Producers) + InBuffer(i) = Total(Held, Producers) + InBuffer(i)'
           /\ Total(Held', Producers) \in Nat
<1>1. ASSUME NEW j \in Producers
      PROVE  /\ Held[j] = InBuffer(j) /\ Held[j] \in Nat
             /\ Held'[j] = InBuffer(j)' /\ Held'[j] \in Nat
    <2>1. /\ buffer[j] \in Nat /\ reports[j].ok \in Nat /\ reports[j].err \in Nat
          /\ buffer'[j] \in Nat /\ reports'[j].ok \in Nat /\ reports'[j].err \in Nat
      BY DEF CaptureTyped
    <2>2. QED
      BY <2>1 DEF Held, InBuffer
<1>2. \A j \in Producers : j # i => Held'[j] = Held[j]
  BY DEF Held, InBuffer
<1>3. QED
  BY <1>1, <1>2, TotalChange, CaptureAssumption

(* Steps that touch no producer and no message.                            *)
LEMMA Quiet ==
    ASSUME UNCHANGED <<pc, kafkaVars>>
    PROVE  InHand' = InHand /\ Held' = Held /\ \A i \in Producers : InBuffer(i)' = InBuffer(i)
BY DEF InHand, Held, InBuffer

LEMMA CaptureInit_Inv ==
    ASSUME Init
    PROVE  CaptureInv
<1> USE DEF Init
<1>1. CaptureTyped
  <2>1. reports \in [Producers -> [ok : Nat, err : Nat]]
    BY DEF NoReports
  <2>2. stats \in [captured : Nat, dropped : Nat, queued : Nat, sent : Nat, failed : Nat]
    OBVIOUS
  <2>3. queue \in 0 .. QueueCapacity
    BY CaptureAssumption
  <2>4. QED
    BY <2>1, <2>2, <2>3 DEF CaptureTyped
<1>2. BufferBound /\ LastLoop /\ CaptureCount
  BY CaptureAssumption DEF BufferBound, InBuffer, NoReports, LastLoop, CaptureCount
<1>3. HeldCount
  <2>1. InHand = {}
    BY DEF InHand
  <2>2. \A i \in Producers : Held[i] = 0
    BY DEF Held, InBuffer, NoReports
  <2>3. Cardinality(InHand) = 0 /\ Total(Held, Producers) = 0
    BY <2>1, <2>2, FS_EmptySet, TotalOfNone
  <2>4. QED
    BY <2>3 DEF HeldCount
<1>4. QED
  BY <1>1, <1>2, <1>3 DEF CaptureInv

(* The capture thread.                                                     *)
LEMMA Capture_Inv ==
    ASSUME CaptureInv, Arrive \/ CaptureStep \/ LoopFails
    PROVE  CaptureInv'
<1>1. /\ UNCHANGED <<flagVars, prodVars, kafkaVars, ownerPc, signalled>>
      /\ CaptureTyped
  BY DEF Arrive, CaptureStep, Drop, Push, CountQueued, LoopBreaks, LoopFails, CaptureInv
<1>2. InHand' = InHand /\ Held' = Held /\ BufferBound'
  BY <1>1, Quiet DEF CaptureInv, BufferBound
<1>3. Cardinality(InHand) \in Nat /\ Total(Held, Producers) \in Nat
  BY <1>1, SizesNat
<1>4. /\ queue \in 0 .. QueueCapacity /\ QueueCapacity \in Nat /\ MaxPackets \in Nat
      /\ stats \in [captured : Nat, dropped : Nat, queued : Nat, sent : Nat, failed : Nat]
  BY <1>1, CaptureAssumption DEF CaptureTyped
<1>5. CaptureCount /\ HeldCount /\ LastLoop
  BY DEF CaptureInv
<1>6. CASE Arrive
  <2>1. /\ capturePc = "loop" /\ capturePc' = "push" /\ queue' = queue
        /\ stats.captured < MaxPackets /\ stats'.captured = stats.captured + 1
        /\ stats'.dropped = stats.dropped /\ stats'.queued = stats.queued
        /\ stats'.sent = stats.sent /\ stats'.failed = stats.failed
        /\ stats' \in [captured : Nat, dropped : Nat, queued : Nat, sent : Nat, failed : Nat]
    BY <1>4, <1>6 DEF Arrive
  <2>2. CaptureTyped'
    BY <1>1, <2>1 DEF CaptureTyped
  <2>3. CaptureCount' /\ HeldCount'
    BY <1>2, <1>3, <1>4, <1>5, <2>1 DEF CaptureCount, HeldCount
  <2>4. LastLoop'
    BY <1>1, <1>5, <2>1 DEF LastLoop
  <2>5. QED
    BY <1>2, <2>2, <2>3, <2>4 DEF CaptureInv
<1>7. CASE Drop
  <2>1. /\ capturePc = "push" /\ capturePc' = "loop" /\ queue' = queue
        /\ stats'.captured = stats.captured
        /\ stats'.dropped = stats.dropped + 1 /\ stats'.queued = stats.queued
        /\ stats'.sent = stats.sent /\ stats'.failed = stats.failed
        /\ stats' \in [captured : Nat, dropped : Nat, queued : Nat, sent : Nat, failed : Nat]
    BY <1>4, <1>7 DEF Drop
  <2>2. CaptureTyped'
    BY <1>1, <2>1 DEF CaptureTyped
  <2>3. CaptureCount' /\ HeldCount'
    BY <1>2, <1>3, <1>4, <1>5, <2>1 DEF CaptureCount, HeldCount
  <2>4. LastLoop'
    BY <1>1, <1>5, <2>1 DEF LastLoop
  <2>5. QED
    BY <1>2, <2>2, <2>3, <2>4 DEF CaptureInv
<1>8. CASE Push
  <2>1. /\ capturePc = "push" /\ capturePc' = "count" /\ stats' = stats
        /\ queue' = queue + 1 /\ queue < QueueCapacity /\ ~ shut
    BY <1>8 DEF Push, HasRoom
  <2>2. CaptureTyped'
    BY <1>1, <1>4, <2>1 DEF CaptureTyped
  <2>3. CaptureCount' /\ HeldCount'
    <3>1. CaptureCount'
      BY <1>5, <2>1 DEF CaptureCount
    <3>2. /\ queue \in Nat /\ stats.dropped \in Nat /\ stats.sent \in Nat
          /\ stats.failed \in Nat
      BY <1>4
    <3>3. stats.captured = stats.dropped + stats.sent + stats.failed + 1 + queue
                             + Cardinality(InHand) + Total(Held, Producers)
      BY <1>5, <2>1 DEF HeldCount
    <3>4. stats.captured = stats.dropped + stats.sent + stats.failed + 0 + (queue + 1)
                             + Cardinality(InHand) + Total(Held, Producers)
      BY <1>3, <3>2, <3>3
    <3>5. HeldCount'
      BY <1>2, <2>1, <3>4 DEF HeldCount
    <3>6. QED
      BY <3>1, <3>5
  <2>4. LastLoop'
    BY <1>1, <1>5, <2>1 DEF LastLoop
  <2>5. QED
    BY <1>2, <2>2, <2>3, <2>4 DEF CaptureInv
<1>9. CASE CountQueued
  <2>1. /\ capturePc = "count" /\ capturePc' = "loop" /\ queue' = queue
        /\ stats'.captured = stats.captured
        /\ stats'.dropped = stats.dropped /\ stats'.queued = stats.queued + 1
        /\ stats'.sent = stats.sent /\ stats'.failed = stats.failed
        /\ stats' \in [captured : Nat, dropped : Nat, queued : Nat, sent : Nat, failed : Nat]
    BY <1>4, <1>9 DEF CountQueued
  <2>2. CaptureTyped'
    BY <1>1, <2>1 DEF CaptureTyped
  <2>3. CaptureCount' /\ HeldCount'
    BY <1>2, <1>3, <1>4, <1>5, <2>1 DEF CaptureCount, HeldCount
  <2>4. LastLoop'
    BY <1>1, <1>5, <2>1 DEF LastLoop
  <2>5. QED
    BY <1>2, <2>2, <2>3, <2>4 DEF CaptureInv
<1>10. CASE LoopBreaks \/ LoopFails
  <2>1. capturePc = "loop" /\ capturePc' = "exit" /\ queue' = queue /\ stats' = stats
    BY <1>10 DEF LoopBreaks, LoopFails
  <2>2. CaptureTyped'
    BY <1>1, <2>1 DEF CaptureTyped
  <2>3. CaptureCount' /\ HeldCount'
    BY <1>2, <1>5, <2>1 DEF CaptureCount, HeldCount
  <2>4. LastLoop'
    BY <1>1, <1>5, <2>1 DEF LastLoop
  <2>5. QED
    BY <1>2, <2>2, <2>3, <2>4 DEF CaptureInv
<1>11. QED
  BY <1>6, <1>7, <1>8, <1>9, <1>10 DEF CaptureStep

(* The numbers the steps of a producer work with.                          *)
LEMMA Numbers ==
    ASSUME CaptureInv, NEW i \in Producers
    PROVE  /\ queue \in Nat /\ queue <= QueueCapacity
           /\ Cardinality(InHand) \in Nat /\ Total(Held, Producers) \in Nat
           /\ stats.captured \in Nat /\ stats.dropped \in Nat /\ stats.queued \in Nat
           /\ stats.sent \in Nat /\ stats.failed \in Nat
           /\ buffer[i] \in Nat /\ reports[i].ok \in Nat /\ reports[i].err \in Nat
           /\ InBuffer(i) = buffer[i] + reports[i].ok + reports[i].err
           /\ InBuffer(i) \in Nat /\ InBuffer(i) <= KafkaCapacity
           /\ QueueCapacity \in Nat /\ KafkaCapacity \in Nat /\ KafkaCapacity > 0
<1>1. CaptureTyped /\ BufferBound
  BY DEF CaptureInv
<1>2. buffer[i] \in Nat /\ reports[i].ok \in Nat /\ reports[i].err \in Nat
  BY <1>1 DEF CaptureTyped
<1>3. InBuffer(i) = buffer[i] + reports[i].ok + reports[i].err /\ InBuffer(i) \in Nat
  BY <1>2 DEF InBuffer
<1>4. QED
  BY <1>1, <1>2, <1>3, SizesNat, CaptureAssumption DEF CaptureTyped, BufferBound

LEMMA Loop_Inv ==
    ASSUME CaptureInv, NEW i \in Producers, GoOn(i) \/ Pop(i) \/ PopNothing(i)
    PROVE  CaptureInv'
<1>1. /\ UNCHANGED <<flagVars, capturePc, kafkaVars, stats, ownerPc, signalled>>
      /\ CaptureTyped /\ CaptureCount /\ HeldCount /\ LastLoop /\ BufferBound
      /\ CaptureCount'
  BY DEF GoOn, Pop, PopNothing, CaptureInv, CaptureCount
<1>2. Held' = Held /\ BufferBound'
  BY <1>1 DEF BufferBound, InBuffer, Held
<1>3. CASE GoOn(i)
  <2>1. /\ pc[i] = "check" /\ pc' = [pc EXCEPT ![i] = "pop"] /\ queue' = queue
        /\ drains' = [drains EXCEPT ![i] = ~ (running \/ ~ shut)]
    BY <1>3 DEF GoOn
  <2>2. CaptureTyped'
    BY <1>1, <2>1 DEF CaptureTyped
  <2>3. Cardinality(InHand') = Cardinality(InHand)
    <3>1. pc[i] \notin Hand /\ "pop" \notin Hand
      BY <2>1 DEF Hand
    <3>2. Cardinality(InHand') + 0 = Cardinality(InHand) + 0 /\ Cardinality(InHand') \in Nat
      BY <1>1, <2>1, <3>1, HandChange
    <3>3. QED
      BY <3>2, Numbers
  <2>4. HeldCount'
    BY <1>1, <1>2, <2>1, <2>3 DEF HeldCount
  <2>5. LastLoop'
    BY <1>1, <2>1 DEF LastLoop, CaptureTyped
  <2>6. QED
    BY <1>1, <1>2, <2>2, <2>4, <2>5 DEF CaptureInv
<1>4. CASE Pop(i)
  <2>1. /\ pc[i] = "pop" /\ pc' = [pc EXCEPT ![i] = "produce"] /\ drains' = drains
        /\ queue > 0 /\ queue' = queue - 1
    BY <1>4 DEF Pop
  <2>2. CaptureTyped'
    BY <1>1, <2>1, Numbers DEF CaptureTyped
  <2>3. Cardinality(InHand') + 0 = Cardinality(InHand) + 1 /\ Cardinality(InHand') \in Nat
    BY <1>1, <2>1, HandChange DEF Hand
  <2>4. HeldCount'
    <3>1. queue' + Cardinality(InHand') = queue + Cardinality(InHand)
      BY <2>1, <2>3, Numbers
    <3>2. queue' \in Nat /\ Cardinality(InHand') \in Nat
      BY <2>1, <2>3, Numbers
    <3>3. QED
      BY <1>1, <1>2, <3>1, <3>2, Numbers DEF HeldCount
  <2>5. LastLoop'
    BY <1>1, <2>1, Numbers DEF LastLoop, CaptureTyped
  <2>6. QED
    BY <1>1, <1>2, <2>2, <2>4, <2>5 DEF CaptureInv
<1>5. CASE PopNothing(i)
  <2>1. /\ pc[i] = "pop" /\ drains' = drains /\ queue = 0 /\ queue' = queue
        /\ pc' = [pc EXCEPT ![i] = IF drains[i] THEN "exit" ELSE "check"]
    BY <1>5 DEF PopNothing
  <2>2. CaptureTyped'
    BY <1>1, <2>1 DEF CaptureTyped
  <2>3. Cardinality(InHand') = Cardinality(InHand)
    <3>1. pc[i] \notin Hand /\ (IF drains[i] THEN "exit" ELSE "check") \notin Hand
      BY <2>1 DEF Hand
    <3>2. Cardinality(InHand') + 0 = Cardinality(InHand) + 0 /\ Cardinality(InHand') \in Nat
      BY <1>1, <2>1, <3>1, HandChange
    <3>3. QED
      BY <3>2, Numbers
  <2>4. HeldCount'
    BY <1>1, <1>2, <2>1, <2>3 DEF HeldCount
  <2>5. LastLoop'
    BY <1>1, <2>1 DEF LastLoop, CaptureTyped
  <2>6. QED
    BY <1>1, <1>2, <2>2, <2>4, <2>5 DEF CaptureInv
<1>6. QED
  BY <1>3, <1>4, <1>5

(* Reports that were waited for are counted.                               *)
LEMMA CountReports ==
    ASSUME stats \in [captured : Nat, dropped : Nat, queued : Nat, sent : Nat, failed : Nat],
           NEW a \in Nat, NEW b \in Nat,
           stats' = [stats EXCEPT !.sent = @ + a, !.failed = @ + b]
    PROVE  /\ stats' \in [captured : Nat, dropped : Nat, queued : Nat, sent : Nat, failed : Nat]
           /\ stats'.sent = stats.sent + a /\ stats'.failed = stats.failed + b
           /\ stats'.captured = stats.captured /\ stats'.dropped = stats.dropped
           /\ stats'.queued = stats.queued
<1>1. /\ stats.captured \in Nat /\ stats.dropped \in Nat /\ stats.queued \in Nat
      /\ stats.sent + a \in Nat /\ stats.failed + b \in Nat
  OBVIOUS
<1>2. stats' = [captured |-> stats.captured, dropped |-> stats.dropped,
                queued |-> stats.queued, sent |-> stats.sent + a, failed |-> stats.failed + b]
  <2> DEFINE s == stats.sent + a
             f == stats.failed + b
  <2>1. stats' = [stats EXCEPT !.sent = s, !.failed = f]
    BY Zenon
  <2> HIDE DEF s, f
  <2>2. stats' = [captured |-> stats.captured, dropped |-> stats.dropped,
                  queued |-> stats.queued, sent |-> s, failed |-> f]
    BY <2>1
  <2>3. QED
    BY <2>2 DEF s, f
<1>3. QED
  BY <1>1, <1>2

(* A packet in hand goes to librdkafka, waits for room there or is given   *)
(* up; the reports that a poll finds are counted.                          *)
LEMMA Produce_Inv ==
    ASSUME CaptureInv, NEW i \in Producers, Accepted(i) \/ QueueFull(i) \/ Refused(i)
    PROVE  CaptureInv'
<1>1. /\ UNCHANGED <<flagVars, capturePc, queue, drains, ownerPc, signalled>>
      /\ CaptureTyped /\ CaptureCount /\ HeldCount /\ LastLoop /\ BufferBound
  BY DEF Accepted, QueueFull, Refused, CaptureInv
<1>2. stats \in [captured : Nat, dropped : Nat, queued : Nat, sent : Nat, failed : Nat]
  BY <1>1 DEF CaptureTyped
<1>3. /\ AfterProduce(i) \in {"check", "pop"} /\ AfterProduce(i) \notin Hand
      /\ "retry" \in Hand
  BY DEF AfterProduce, Hand
<1> DEFINE sum == stats.sent + stats.failed + Cardinality(InHand) + Total(Held, Producers)
<1>4. SUFFICES ASSUME NEW v \in {"check", "pop", "retry"}, pc' = [pc EXCEPT ![i] = v],
                      pc[i] \in Hand,
                      CaptureTyped',
                      stats'.captured = stats.captured, stats'.dropped = stats.dropped,
                      stats'.queued = stats.queued,
                      BufferBound', Total(Held', Producers) \in Nat, sum' = sum
               PROVE  CaptureInv'
  <2>1. CASE Accepted(i)
    <3>1. /\ pc[i] \in Hand /\ pc' = [pc EXCEPT ![i] = AfterProduce(i)]
          /\ InBuffer(i) < KafkaCapacity
          /\ buffer' = [buffer EXCEPT ![i] = @ + 1]
          /\ reports' = [reports EXCEPT ![i] = NoReports]
          /\ stats' = [stats EXCEPT !.sent = @ + reports[i].ok, !.failed = @ + reports[i].err]
      BY <2>1 DEF Accepted, Hand, Served
    <3>2. /\ buffer' \in [Producers -> Nat] /\ reports' \in [Producers -> [ok : Nat, err : Nat]]
      BY <1>1, <3>1 DEF CaptureTyped, NoReports
    <3>3. /\ stats' \in [captured : Nat, dropped : Nat, queued : Nat, sent : Nat, failed : Nat]
          /\ stats'.sent = stats.sent + reports[i].ok
          /\ stats'.failed = stats.failed + reports[i].err
          /\ stats'.captured = stats.captured /\ stats'.dropped = stats.dropped
          /\ stats'.queued = stats.queued
      BY <1>2, <3>1, Numbers, CountReports
    <3>4. CaptureTyped'
      BY <1>1, <1>3, <3>1, <3>2, <3>3 DEF CaptureTyped
    <3>5. /\ buffer'[i] = buffer[i] + 1 /\ reports'[i].ok = 0 /\ reports'[i].err = 0
          /\ \A j \in Producers \ {i} : buffer'[j] = buffer[j] /\ reports'[j] = reports[j]
      BY <1>1, <3>1 DEF CaptureTyped, NoReports
    <3>6. InBuffer(i)' = buffer[i] + 1
      BY <3>5, Numbers DEF InBuffer
    <3>7. BufferBound'
      BY <1>1, <3>1, <3>5, <3>6, Numbers DEF BufferBound, InBuffer
    <3>8. /\ Total(Held', Producers) + InBuffer(i) = Total(Held, Producers) + (buffer[i] + 1)
          /\ Total(Held', Producers) \in Nat
      BY <1>1, <3>4, <3>5, <3>6, HeldChange
    <3>9. Cardinality(InHand') + 1 = Cardinality(InHand) + 0 /\ Cardinality(InHand') \in Nat
      BY <1>1, <1>3, <3>1, HandChange
    <3>10. sum' = sum
      BY <3>3, <3>8, <3>9, Numbers
    <3>11. QED
      BY <1>3, <1>4, <3>1, <3>3, <3>4, <3>7, <3>8, <3>10
  <2>2. CASE QueueFull(i)
    <3>1. /\ pc[i] \in Hand /\ pc' = [pc EXCEPT ![i] = "retry"]
          /\ buffer' = buffer
          /\ reports' = [reports EXCEPT ![i] = NoReports]
          /\ stats' = [stats EXCEPT !.sent = @ + reports[i].ok, !.failed = @ + reports[i].err]
      BY <2>2 DEF QueueFull, Hand, Served
    <3>2. reports' \in [Producers -> [ok : Nat, err : Nat]]
      BY <1>1, <3>1 DEF CaptureTyped, NoReports
    <3>3. /\ stats' \in [captured : Nat, dropped : Nat, queued : Nat, sent : Nat, failed : Nat]
          /\ stats'.sent = stats.sent + reports[i].ok
          /\ stats'.failed = stats.failed + reports[i].err
          /\ stats'.captured = stats.captured /\ stats'.dropped = stats.dropped
          /\ stats'.queued = stats.queued
      BY <1>2, <3>1, Numbers, CountReports
    <3>4. CaptureTyped'
      BY <1>1, <3>1, <3>2, <3>3 DEF CaptureTyped
    <3>5. /\ buffer'[i] = buffer[i] /\ reports'[i].ok = 0 /\ reports'[i].err = 0
          /\ \A j \in Producers \ {i} : buffer'[j] = buffer[j] /\ reports'[j] = reports[j]
      BY <1>1, <3>1 DEF CaptureTyped, NoReports
    <3>6. InBuffer(i)' = buffer[i]
      BY <3>5, Numbers DEF InBuffer
    <3>7. BufferBound'
      BY <1>1, <3>1, <3>5, <3>6, Numbers DEF BufferBound, InBuffer
    <3>8. /\ Total(Held', Producers) + InBuffer(i) = Total(Held, Producers) + buffer[i]
          /\ Total(Held', Producers) \in Nat
      BY <1>1, <3>4, <3>5, <3>6, HeldChange
    <3>9. Cardinality(InHand') + 1 = Cardinality(InHand) + 1 /\ Cardinality(InHand') \in Nat
      BY <1>1, <1>3, <3>1, HandChange
    <3>10. sum' = sum
      BY <3>3, <3>8, <3>9, Numbers
    <3>11. QED
      BY <1>4, <3>1, <3>3, <3>4, <3>7, <3>8, <3>10
  <2>3. CASE Refused(i)
    <3>1. /\ pc[i] \in Hand /\ pc' = [pc EXCEPT ![i] = AfterProduce(i)]
          /\ buffer' = buffer /\ reports' = reports
          /\ stats' = [stats EXCEPT !.failed = @ + 1]
      BY <2>3 DEF Refused, Hand
    <3>2. /\ stats' \in [captured : Nat, dropped : Nat, queued : Nat, sent : Nat, failed : Nat]
          /\ stats'.sent = stats.sent /\ stats'.failed = stats.failed + 1
          /\ stats'.captured = stats.captured /\ stats'.dropped = stats.dropped
          /\ stats'.queued = stats.queued
      BY <1>2, <3>1
    <3>3. CaptureTyped'
      BY <1>1, <1>3, <3>1, <3>2 DEF CaptureTyped
    <3>4. Held' = Held /\ BufferBound'
      BY <1>1, <3>1 DEF Held, BufferBound, InBuffer
    <3>5. Cardinality(InHand') + 1 = Cardinality(InHand) + 0 /\ Cardinality(InHand') \in Nat
      BY <1>1, <1>3, <3>1, HandChange
    <3>6. sum' = sum
      BY <3>2, <3>4, <3>5, Numbers
    <3>7. QED
      BY <1>3, <1>4, <3>1, <3>2, <3>3, <3>4, <3>6, Numbers
  <2>4. QED
    BY <2>1, <2>2, <2>3
<1>5. CaptureCount'
  BY <1>1, <1>4 DEF CaptureCount
<1>6. LastLoop'
  BY <1>1, <1>4 DEF LastLoop, CaptureTyped, Hand
<1>7. HeldCount'
  <2>1. stats'.sent \in Nat /\ stats'.failed \in Nat
    BY <1>4 DEF CaptureTyped
  <2>2. Cardinality(InHand') \in Nat
    BY <1>1, <1>4, HandChange
  <2>3. stats.captured =
            stats.dropped + (IF capturePc = "push" THEN 1 ELSE 0) + queue + sum
    BY <1>1, Numbers DEF HeldCount
  <2> DEFINE rest == stats.dropped + (IF capturePc = "push" THEN 1 ELSE 0) + queue
  <2>4. rest' = rest /\ rest \in Nat
    BY <1>1, <1>4, Numbers
  <2>5. stats'.captured = rest' + sum'
    BY <1>4, <2>3, <2>4
  <2>6. stats'.dropped \in Nat /\ queue' \in Nat
    BY <1>1, <1>4, Numbers
  <2>7. QED
    BY <1>4, <2>1, <2>2, <2>5, <2>6 DEF HeldCount
<1>8. QED
  BY <1>4, <1>5, <1>6, <1>7 DEF CaptureInv

(* An answer of the broker turns a message into a report.                  *)
LEMMA Broker_Inv ==
    ASSUME CaptureInv, NEW i \in Producers, BrokerAnswers(i)
    PROVE  CaptureInv'
<1>1. /\ UNCHANGED <<flagVars, capturePc, queue, prodVars, stats, ownerPc, signalled>>
      /\ CaptureTyped /\ CaptureCount /\ HeldCount /\ LastLoop /\ BufferBound
      /\ buffer[i] > 0 /\ buffer' = [buffer EXCEPT ![i] = @ - 1]
  BY DEF BrokerAnswers, CaptureInv
<1>2. PICK outcome \in {"ok", "err"} :
          reports' = [reports EXCEPT ![i][outcome] = @ + 1]
  BY DEF BrokerAnswers
<1>3. reports[i] \in [ok : Nat, err : Nat] /\ buffer[i] \in Nat
  BY <1>1 DEF CaptureTyped
<1>4. /\ reports'[i] = [reports[i] EXCEPT ![outcome] = @ + 1]
      /\ \A j \in Producers \ {i} : reports'[j] = reports[j]
      /\ DOMAIN reports' = Producers /\ reports' = [j \in Producers |-> reports'[j]]
  BY <1>1, <1>2 DEF CaptureTyped
<1>5. /\ reports'[i] \in [ok : Nat, err : Nat]
      /\ reports'[i].ok + reports'[i].err = reports[i].ok + reports[i].err + 1
  <2>1. CASE outcome = "ok"
    BY <1>3, <1>4, <2>1
  <2>2. CASE outcome = "err"
    BY <1>3, <1>4, <2>2
  <2>3. QED
    BY <2>1, <2>2
<1>6. CaptureTyped'
  <2>1. \A j \in Producers : reports'[j] \in [ok : Nat, err : Nat]
    BY <1>1, <1>4, <1>5 DEF CaptureTyped
  <2>2. reports' \in [Producers -> [ok : Nat, err : Nat]]
    BY <1>4, <2>1
  <2>3. buffer' \in [Producers -> Nat]
    BY <1>1, <1>3 DEF CaptureTyped
  <2>4. QED
    BY <1>1, <2>2, <2>3 DEF CaptureTyped
<1>7. InBuffer(i)' = InBuffer(i)
  <2>1. reports'[i].ok \in Nat /\ reports'[i].err \in Nat /\ buffer'[i] = buffer[i] - 1
    BY <1>1, <1>5 DEF CaptureTyped
  <2>2. /\ reports[i].ok \in Nat /\ reports[i].err \in Nat /\ buffer[i] \in Nat
        /\ reports'[i].ok + reports'[i].err = reports[i].ok + reports[i].err + 1
    BY <1>3, <1>5
  <2>3. (buffer[i] - 1) + reports'[i].ok + reports'[i].err
           = buffer[i] + reports[i].ok + reports[i].err
    BY <2>1, <2>2
  <2>4. QED
    BY <2>1, <2>3 DEF InBuffer
<1>8. \A j \in Producers \ {i} : buffer'[j] = buffer[j] /\ reports'[j] = reports[j]
  BY <1>1, <1>4 DEF CaptureTyped
<1>9. Held' = Held /\ BufferBound'
  BY <1>1, <1>7, <1>8 DEF Held, BufferBound, InBuffer
<1>10. CaptureCount' /\ HeldCount' /\ LastLoop'
  BY <1>1, <1>9 DEF CaptureCount, HeldCount, LastLoop, InHand
<1>11. QED
  BY <1>6, <1>9, <1>10 DEF CaptureInv

(* The flags and the steps of stop() and join() before the flush.          *)
LEMMA Owner_Inv ==
    ASSUME CaptureInv, Signal \/ Stop \/ StopBreak \/ StopShutdown \/ JoinCapture
    PROVE  CaptureInv'
<1>1. /\ UNCHANGED <<capturePc, queue, prodVars, kafkaVars, stats>>
      /\ CaptureTyped /\ CaptureCount /\ HeldCount /\ LastLoop /\ BufferBound
      /\ (running' = running \/ running' = FALSE) /\ (shut' = shut \/ shut' = TRUE)
  BY DEF Signal, Stop, StopBreak, StopShutdown, JoinCapture, CaptureInv
<1>2. CaptureTyped'
  <2>1. /\ broken' \in BOOLEAN /\ signalled' \in BOOLEAN
        /\ ownerPc' \in {"run", "break", "shutdown", "join_capture", "join_producers", "done"}
    BY <1>1 DEF CaptureTyped, Signal, Stop, StopBreak, StopShutdown, JoinCapture
  <2>2. QED
    BY <1>1, <2>1 DEF CaptureTyped
<1>3. InHand' = InHand /\ Held' = Held /\ BufferBound'
  BY <1>1, Quiet DEF BufferBound
<1>4. CaptureCount' /\ HeldCount' /\ LastLoop'
  BY <1>1, <1>3 DEF CaptureCount, HeldCount, LastLoop
<1>5. QED
  BY <1>2, <1>3, <1>4 DEF CaptureInv

(* flush serves the reports of every producer; what the broker has not     *)
(* answered stays in the buffers.                                          *)
LEMMA Flush_Inv ==
    ASSUME CaptureInv, Flush
    PROVE  CaptureInv'
<1>1. /\ UNCHANGED <<flagVars, capturePc, queue, prodVars, buffer, signalled>>
      /\ CaptureTyped /\ CaptureCount /\ HeldCount /\ LastLoop /\ BufferBound
      /\ reports' = [i \in Producers |-> NoReports] /\ ownerPc' = "done"
  BY DEF Flush, CaptureInv
<1> DEFINE Ok == [i \in Producers |-> reports[i].ok]
           Err == [i \in Producers |-> reports[i].err]
           Both == [i \in Producers |-> Ok[i] + Err[i]]
<1>2. /\ \A i \in Producers : Ok[i] \in Nat /\ Err[i] \in Nat /\ buffer[i] \in Nat
      /\ \A i \in Producers : Held[i] = buffer[i] + Both[i] /\ Both[i] \in Nat
      /\ \A i \in Producers : Both[i] = Ok[i] + Err[i]
  BY <1>1, HeldNat
<1>3. /\ Total(Held, Producers) = Total(buffer, Producers) + Total(Both, Producers)
      /\ Total(Both, Producers) = Total(Ok, Producers) + Total(Err, Producers)
      /\ Total(Ok, Producers) \in Nat /\ Total(Err, Producers) \in Nat
      /\ Total(buffer, Producers) \in Nat
  <2> HIDE DEF Ok, Err, Both
  <2>1. QED
    BY <1>2, TotalPlus, CaptureAssumption
<1>4. /\ MapThenSumSet(LAMBDA i : reports[i].ok, Producers) = Total(Ok, Producers)
      /\ MapThenSumSet(LAMBDA i : reports[i].err, Producers) = Total(Err, Producers)
  BY <1>1, ReportSums
<1>5. stats' = [stats EXCEPT !.sent = @ + Total(Ok, Producers),
                             !.failed = @ + Total(Err, Producers)]
  BY <1>4 DEF Flush
<1>6. /\ stats' \in [captured : Nat, dropped : Nat, queued : Nat, sent : Nat, failed : Nat]
      /\ stats'.sent = stats.sent + Total(Ok, Producers)
      /\ stats'.failed = stats.failed + Total(Err, Producers)
      /\ stats'.captured = stats.captured /\ stats'.dropped = stats.dropped
      /\ stats'.queued = stats.queued
  <2> HIDE DEF Ok, Err
  <2>1. QED
    BY <1>1, <1>3, <1>5, CountReports DEF CaptureTyped
<1>7. CaptureTyped'
  <2>1. reports' \in [Producers -> [ok : Nat, err : Nat]]
    BY <1>1 DEF NoReports
  <2>2. QED
    BY <1>1, <1>6, <2>1 DEF CaptureTyped
<1>8. /\ \A i \in Producers : Held'[i] = buffer[i] /\ InBuffer(i)' = buffer[i]
      /\ BufferBound'
  <2>1. \A i \in Producers : InBuffer(i)' = buffer[i] + 0 + 0
    BY <1>1 DEF InBuffer, NoReports
  <2>2. \A i \in Producers : InBuffer(i)' = buffer[i]
    BY <1>2, <2>1
  <2>3. \A i \in Producers : buffer[i] <= KafkaCapacity
    BY <1>1, <1>2, CaptureAssumption DEF BufferBound, Held
  <2>4. QED
    BY <2>2, <2>3 DEF Held, BufferBound
<1>9. Total(Held', Producers) = Total(buffer, Producers)
  BY <1>8, TotalSame
<1>10. CaptureCount' /\ LastLoop' /\ InHand' = InHand
  BY <1>1, <1>6 DEF CaptureCount, LastLoop, InHand
<1>11. HeldCount'
  <2>1. Cardinality(InHand) \in Nat /\ queue \in Nat
    BY <1>1, SizesNat, CaptureAssumption DEF CaptureTyped
  <2>2. stats.sent \in Nat /\ stats.failed \in Nat /\ stats.dropped \in Nat
    BY <1>1 DEF CaptureTyped
  <2> HIDE DEF Ok, Err, Both
  <2>3. QED
    BY <1>1, <1>3, <1>6, <1>9, <1>10, <2>1, <2>2 DEF HeldCount
<1>12. QED
  BY <1>7, <1>8, <1>10, <1>11 DEF CaptureInv

THEOREM CaptureInvariant == Spec => []CaptureInv
<1>1. Init => CaptureInv
  BY CaptureInit_Inv
<1>2. CaptureInv /\ [Next]_vars => CaptureInv'
  <2>1. ASSUME CaptureInv, Next
        PROVE  CaptureInv'
    BY <2>1, Capture_Inv, Loop_Inv, Produce_Inv, Broker_Inv, Owner_Inv, Flush_Inv
       DEF Next, Producer, Stopping
  <2>2. ASSUME CaptureInv, UNCHANGED vars
        PROVE  CaptureInv'
    <3>1. UNCHANGED <<flagVars, capturePc, queue, prodVars, kafkaVars, stats, ownerPc, signalled>>
      BY <2>2 DEF vars
    <3>2. InHand' = InHand /\ Held' = Held /\ BufferBound'
      BY <2>2, <3>1, Quiet DEF CaptureInv, BufferBound
    <3>3. QED
      BY <2>2, <3>1, <3>2 DEF CaptureInv, CaptureTyped, CaptureCount, HeldCount, LastLoop
  <2>3. QED
    BY <2>1, <2>2
<1>3. QED
  BY <1>1, <1>2, PTL DEF Spec
----------------------------------------------------------------------------
(* No packet is lost uncounted or counted twice: the sum over the          *)
(* producers, as the code's counters and librdkafka's buffers have it.     *)
THEOREM EveryPacketIsCounted == Spec => []EveryPacketCounted
<1>1. CaptureInv => EveryPacketCounted
  BY HeldSum DEF CaptureInv, HeldCount, EveryPacketCounted
<1>2. QED
  BY <1>1, CaptureInvariant, PTL

(* The counters stay within the number of packets that arrived, and no     *)
(* producer's buffer grows beyond librdkafka's limit.                      *)
THEOREM CaptureTypesCorrect == Spec => []TypeOK
<1>1. ASSUME CaptureInv
      PROVE  TypeOK
  <2>1. /\ CaptureTyped /\ CaptureCount /\ HeldCount /\ BufferBound
    BY <1>1 DEF CaptureInv
  <2>2. /\ queue \in Nat /\ MaxPackets \in Nat /\ KafkaCapacity \in Nat
        /\ Cardinality(InHand) \in Nat /\ Total(Held, Producers) \in Nat
        /\ stats.captured \in Nat /\ stats.dropped \in Nat /\ stats.queued \in Nat
        /\ stats.sent \in Nat /\ stats.failed \in Nat
    BY <2>1, SizesNat, CaptureAssumption DEF CaptureTyped
  <2>3. /\ stats.captured <= MaxPackets /\ stats.queued <= stats.captured
        /\ stats.dropped <= stats.captured
    BY <2>1, <2>2 DEF CaptureCount
  <2>4. stats.sent <= stats.captured /\ stats.failed <= stats.captured
    BY <2>1, <2>2 DEF HeldCount
  <2>5. stats \in [captured : 0 .. MaxPackets, dropped : 0 .. MaxPackets,
                   queued : 0 .. MaxPackets, sent : 0 .. MaxPackets, failed : 0 .. MaxPackets]
    <3>1. /\ stats.captured \in 0 .. MaxPackets /\ stats.dropped \in 0 .. MaxPackets
          /\ stats.queued \in 0 .. MaxPackets /\ stats.sent \in 0 .. MaxPackets
          /\ stats.failed \in 0 .. MaxPackets
      BY <2>2, <2>3, <2>4
    <3>2. QED
      BY <2>1, <3>1 DEF CaptureTyped
  <2>6. ASSUME NEW i \in Producers
        PROVE  /\ buffer[i] \in 0 .. KafkaCapacity
               /\ reports[i] \in [ok : 0 .. KafkaCapacity, err : 0 .. KafkaCapacity]
    <3>1. /\ buffer[i] \in Nat /\ reports[i] \in [ok : Nat, err : Nat]
          /\ buffer[i] + reports[i].ok + reports[i].err <= KafkaCapacity
      BY <2>1 DEF CaptureTyped, BufferBound, InBuffer
    <3>2. /\ buffer[i] \in 0 .. KafkaCapacity /\ reports[i].ok \in 0 .. KafkaCapacity
          /\ reports[i].err \in 0 .. KafkaCapacity
      BY <2>2, <3>1
    <3>3. QED
      BY <3>1, <3>2
  <2>7. QED
    BY <2>1, <2>5, <2>6 DEF CaptureTyped, TypeOK
<1>2. QED
  BY <1>1, CaptureInvariant, PTL

(* The two loops of a producer thread take everything that was queued      *)
(* before the queue was shut down, however many threads share it.          *)
THEOREM ProducersLeaveNothing == Spec => []NothingLeftBehind
<1>1. CaptureInv => NothingLeftBehind
  BY DEF CaptureInv, LastLoop, NothingLeftBehind
<1>2. QED
  BY <1>1, CaptureInvariant, PTL
============================================================================
