----------------------- MODULE ProcessingServiceProofs -----------------------
(***************************************************************************)
(* Proofs about the processing service, for any flows, packets and number  *)
(* of crashes.                                                             *)
(***************************************************************************)
EXTENDS ProcessingService, TLAPS

USE DEF memory, topics, history

InTable == {o \in Offsets : \E f \in Flows : o \in flows[f]}

(* No two records of a set count the same packet.                          *)
Apart(records) == \A r, q \in records : r # q => r.packets \cap q.packets = {}

(* No two records of a set are of one flow.                                *)
OnePerFlow(records) == \A r, q \in records : r.flow = q.flow => r = q

Types ==
    /\ TypeOK
    /\ raw \in [Offsets -> Flows]
    /\ processed \in Seq(Records)
    /\ crashes \in Nat

(* A packet is in one flow of the table, and only packets of this life of  *)
(* the process are.                                                        *)
TableInv ==
    /\ \A f, g \in Flows : f # g => flows[f] \cap flows[g] = {}
    /\ \A f \in Flows : \A o \in flows[f] : o < position

BatchInv ==
    /\ flusher # "send" => batch = {}
    /\ Apart(batch) /\ OnePerFlow(batch)

Covered ==
    \A o \in 1 .. position - 1 :
        \/ o \in InTable \/ o \in Counted(batch) \/ o \in Counted(buffer)
        \/ o \in Counted(Delivered) \/ o \in lost

(* Before the first crash no packet comes twice: it is in one place.       *)
Separate ==
    crashes = 0 =>
        /\ InTable \cap Counted(batch) = {} /\ InTable \cap Counted(buffer) = {}
        /\ InTable \cap Counted(Delivered) = {} /\ InTable \cap lost = {}
        /\ Counted(batch) \cap Counted(buffer) = {}
        /\ Counted(batch) \cap Counted(Delivered) = {} /\ Counted(batch) \cap lost = {}
        /\ Counted(buffer) \cap Counted(Delivered) = {} /\ Counted(buffer) \cap lost = {}
        /\ Counted(Delivered) \cap lost = {}
        /\ Apart(buffer)
        /\ \A o \in Counted(batch) \cup Counted(buffer) \cup Counted(Delivered) \cup lost :
               o < position

(* What waits for the database was accepted by the producer as a whole.    *)
UpsertInv ==
    \A records \in upserts : records \subseteq produced /\ OnePerFlow(records)

IInv == Types /\ TableInv /\ BatchInv /\ Covered /\ Separate /\ UpsertInv /\ StoredWasProduced
----------------------------------------------------------------------------
LEMMA CountedBy ==
    ASSUME NEW records, NEW o
    PROVE  o \in Counted(records) <=> \E r \in records : o \in r.packets
BY DEF Counted

LEMMA CountedUnion ==
    ASSUME NEW S, NEW R
    PROVE  Counted(S \cup R) = Counted(S) \cup Counted(R)
BY DEF Counted

(* The packets of a set of records, and of those left when some are taken. *)
LEMMA CountedRest ==
    ASSUME NEW S, NEW R \in SUBSET S
    PROVE  /\ Counted(S) = Counted(R) \cup Counted(S \ R)
           /\ Apart(S) => Counted(R) \cap Counted(S \ R) = {}
           /\ Apart(S) => Apart(R)
           /\ OnePerFlow(S) => OnePerFlow(R)
<1>1. Counted(S) = Counted(R) \cup Counted(S \ R)
  <2>1. S = R \cup (S \ R)
    OBVIOUS
  <2>2. QED
    BY <2>1, CountedUnion
<1>2. Apart(S) => Counted(R) \cap Counted(S \ R) = {}
  <2> SUFFICES ASSUME Apart(S), NEW o \in Counted(R), o \in Counted(S \ R) PROVE FALSE
    OBVIOUS
  <2>1. PICK r \in R : o \in r.packets
    BY CountedBy
  <2>2. PICK q \in S \ R : o \in q.packets
    BY CountedBy
  <2>3. QED
    BY <2>1, <2>2 DEF Apart
<1>3. QED
  BY <1>1, <1>2 DEF Apart, OnePerFlow

(* The records of a table.                                                 *)
LEMMA TableRecords ==
    ASSUME Types, TableInv, NEW F \in SUBSET Flows
    PROVE  LET R == {r \in RecordsOf(flows) : r.flow \in F}
           IN  /\ R \subseteq Records
               /\ Apart(R) /\ OnePerFlow(R)
               /\ \A o : o \in Counted(R) <=> \E f \in F : o \in flows[f]
<1> DEFINE R == {r \in RecordsOf(flows) : r.flow \in F}
<1>1. \A r \in R : /\ r = [flow |-> r.flow, packets |-> flows[r.flow]]
                   /\ r.flow \in F /\ r.packets = flows[r.flow]
  BY DEF RecordsOf, In
<1>2. \A f \in F : flows[f] # {} =>
          /\ [flow |-> f, packets |-> flows[f]] \in R
          /\ [flow |-> f, packets |-> flows[f]].packets = flows[f]
  BY DEF RecordsOf, In
<1>3. \A f \in Flows : flows[f] \in SUBSET Offsets
  BY DEF Types, TypeOK
<1>4. R \subseteq Records
  BY <1>1, <1>3 DEF Records
<1> HIDE DEF R
<1>5. OnePerFlow(R)
  BY <1>1 DEF OnePerFlow
<1>6. Apart(R)
  <2> SUFFICES ASSUME NEW r \in R, NEW q \in R, r # q PROVE r.packets \cap q.packets = {}
    BY DEF Apart
  <2>1. r.flow # q.flow
    BY <1>5 DEF OnePerFlow
  <2>2. QED
    BY <1>1, <2>1 DEF TableInv
<1>7. ASSUME NEW o PROVE o \in Counted(R) <=> \E f \in F : o \in flows[f]
  <2>1. ASSUME o \in Counted(R) PROVE \E f \in F : o \in flows[f]
    <3>1. PICK r \in R : o \in r.packets
      BY <2>1, CountedBy
    <3>2. QED
      BY <1>1, <3>1
  <2>2. ASSUME NEW f \in F, o \in flows[f] PROVE o \in Counted(R)
    <3>1. PICK r \in R : r.packets = flows[f]
      BY <1>2, <2>2
    <3>2. QED
      BY <2>2, <3>1, CountedBy
  <2>3. QED
    BY <2>1, <2>2
<1>8. QED
  BY <1>4, <1>5, <1>6, <1>7 DEF R

LEMMA WholeTable ==
    ASSUME Types, TableInv
    PROVE  /\ RecordsOf(flows) \subseteq Records
           /\ Apart(RecordsOf(flows)) /\ OnePerFlow(RecordsOf(flows))
           /\ Counted(RecordsOf(flows)) = InTable
<1>1. RecordsOf(flows) = {r \in RecordsOf(flows) : r.flow \in Flows}
  BY DEF RecordsOf, In
<1>2. \A f \in Flows : flows[f] \in SUBSET Offsets
  BY DEF Types, TypeOK
<1>3. QED
  BY <1>1, <1>2, TableRecords DEF InTable

(* The five places of the property are those of the invariant.             *)
LEMMA PlacesCounted == IInv => EveryPacketCounted
<1> SUFFICES ASSUME IInv PROVE EveryPacketCounted
  OBVIOUS
<1> DEFINE places == <<Counted(RecordsOf(flows)), Counted(batch), Counted(buffer),
                       Counted(Delivered), lost>>
<1>1. Counted(RecordsOf(flows)) = InTable
  BY WholeTable DEF IInv
<1>2. /\ DOMAIN places = 1 .. 5
      /\ places[1] = InTable /\ places[2] = Counted(batch) /\ places[3] = Counted(buffer)
      /\ places[4] = Counted(Delivered) /\ places[5] = lost
  BY <1>1
<1> HIDE DEF places
<1>3. \A o \in 1 .. position - 1 : \E i \in DOMAIN places : o \in places[i]
  BY <1>2 DEF IInv, Covered
<1>4. ASSUME crashes = 0, NEW i \in DOMAIN places, NEW j \in DOMAIN places, i # j
      PROVE  places[i] \cap places[j] = {}
  BY <1>2, <1>4 DEF IInv, Separate
<1>5. QED
  BY <1>3, <1>4 DEF EveryPacketCounted, places
----------------------------------------------------------------------------
LEMMA InitIInv == Init => IInv
<1> SUFFICES ASSUME Init PROVE IInv
  OBVIOUS
<1>1. processed = <<>> /\ Delivered = {} /\ \A f \in Flows : flows[f] = {} /\ database[f] = {}
  BY DEF Init, Delivered, NoFlows
<1>2. Types
  BY <1>1, ProcessingAssumption DEF Init, Types, TypeOK, NoFlows
<1>3. Counted({}) = {} /\ InTable = {}
  BY <1>1 DEF Counted, InTable
<1>4. TableInv /\ BatchInv /\ UpsertInv /\ StoredWasProduced
  BY <1>1 DEF Init, TableInv, BatchInv, UpsertInv, StoredWasProduced, Apart, OnePerFlow
<1>5. Covered /\ Separate
  BY <1>1, <1>3 DEF Init, Covered, Separate, Apart
<1>6. QED
  BY <1>2, <1>4, <1>5 DEF IInv

LEMMA PollStep == ASSUME IInv, Poll PROVE IInv'
<1>1. PICK f \in Flows : f = raw[position]
  BY DEF IInv, Types, TypeOK, Poll, Offsets
<1>2. /\ position \in Offsets /\ position' = position + 1 /\ consumer' \in {"poll", "store"}
      /\ flows' = [flows EXCEPT ![f] = @ \cup {position}]
      /\ UNCHANGED <<topics, remaining, flusher, batch, buffer, upserts, running, history>>
  BY <1>1 DEF IInv, Types, TypeOK, Poll, Offsets
<1>3. /\ flows'[f] = flows[f] \cup {position}
      /\ \A g \in Flows : g # f => flows'[g] = flows[g]
      /\ \A g \in Flows : flows[g] \subseteq Offsets /\ position \notin flows[g]
  BY <1>2 DEF IInv, Types, TypeOK, TableInv
<1>4. Types'
  BY <1>2, ProcessingAssumption DEF IInv, Types, TypeOK, Offsets, Delivered, Records
<1>5. TableInv'
  <2>1. \A g \in Flows : \A o \in flows[g] : o < position /\ o \in Nat
    BY <1>3 DEF IInv, TableInv, Offsets
  <2>2. \A g \in Flows : \A o \in flows'[g] : o < position'
    BY <1>2, <1>3, <2>1 DEF Offsets
  <2>3. QED
    BY <1>3, <2>2 DEF IInv, TableInv
<1>6. InTable' = InTable \cup {position}
  BY <1>2, <1>3 DEF InTable
<1>7. Covered'
  BY <1>2, <1>6 DEF IInv, Covered, Delivered, Offsets
<1>8. Separate'
  <2> SUFFICES ASSUME crashes' = 0 PROVE Separate'
    BY DEF Separate
  <2>1. crashes = 0
    BY <1>2
  <2>2. /\ position \notin Counted(batch) /\ position \notin Counted(buffer)
        /\ position \notin Counted(Delivered) /\ position \notin lost
    BY <1>2, <2>1 DEF IInv, Separate, Offsets
  <2>3. \A o \in Counted(batch) \cup Counted(buffer) \cup Counted(Delivered) \cup lost :
            o < position'
    <3>1. Counted(batch) \cup Counted(buffer) \cup Counted(Delivered) \cup lost \subseteq Offsets
      BY DEF IInv, Types, TypeOK, Counted, Records
    <3>2. QED
      BY <1>2, <2>1, <3>1 DEF IInv, Separate, Offsets
  <2>4. Delivered' = Delivered /\ buffer' = buffer /\ batch' = batch /\ lost' = lost
    BY <1>2 DEF Delivered
  <2>5. Counted(batch)' = Counted(batch) /\ Counted(buffer)' = Counted(buffer)
        /\ Counted(Delivered)' = Counted(Delivered)
    BY <2>4
  <2>6. QED
    BY <1>6, <2>1, <2>2, <2>3, <2>4, <2>5 DEF IInv, Separate
<1>9. BatchInv' /\ UpsertInv' /\ StoredWasProduced'
  BY <1>2 DEF IInv, BatchInv, UpsertInv, StoredWasProduced
<1>10. QED
  BY <1>4, <1>5, <1>7, <1>8, <1>9 DEF IInv

(* Steps that move no packet.                                              *)
LEMMA QuietStep ==
    ASSUME IInv, Types',
           UNCHANGED <<raw, processed, database, position, flows, batch, buffer, upserts, history>>,
           flusher' = flusher
    PROVE  IInv'
<1>1. InTable' = InTable /\ Delivered' = Delivered /\ Counted(batch)' = Counted(batch)
      /\ Counted(buffer)' = Counted(buffer)
  BY DEF InTable, Delivered, Counted
<1>2. TableInv' /\ BatchInv' /\ UpsertInv' /\ StoredWasProduced'
  BY DEF IInv, TableInv, BatchInv, UpsertInv, StoredWasProduced
<1>3. Covered'
  BY <1>1 DEF IInv, Covered
<1>4. Separate'
  BY <1>1 DEF IInv, Separate
<1>5. QED
  BY <1>2, <1>3, <1>4 DEF IInv

(* A task ends: what it stored was accepted by the producer.               *)
LEMMA UpsertStep ==
    ASSUME IInv, NEW records \in upserts, UpsertEnds(records)
    PROVE  IInv'
<1>1. records \subseteq produced /\ OnePerFlow(records) /\ records \subseteq Records
  BY DEF IInv, UpsertInv, Types, TypeOK
<1>2. /\ upserts' \subseteq upserts
      /\ database' = Upserted(records) \/ database' = database
      /\ UNCHANGED <<raw, processed, requested, committed, position, flows, consumer, remaining,
                     flusher, batch, buffer, running, history>>
  BY DEF UpsertEnds
<1>3. Upserted(records) \in [Flows -> SUBSET Offsets]
  <2>1. \A f \in Flows : Counted({r \in records : r.flow = f}) \subseteq Offsets
    BY <1>1 DEF Counted, Records
  <2>2. \A f \in Flows : database[f] \subseteq Offsets
    BY DEF IInv, Types, TypeOK
  <2>3. QED
    BY <2>1, <2>2 DEF Upserted
<1>4. Types'
  BY <1>2, <1>3 DEF IInv, Types, TypeOK, Delivered
<1>5. ASSUME NEW f \in Flows, Upserted(records)[f] # {}
      PROVE  [flow |-> f, packets |-> Upserted(records)[f]] \in produced
  <2> DEFINE rs == {r \in records : r.flow = f}
  <2>1. Upserted(records)[f] = IF rs = {} THEN database[f] ELSE Counted(rs)
    BY DEF Upserted
  <2>2. CASE rs = {}
    BY <1>5, <2>1, <2>2 DEF IInv, StoredWasProduced
  <2>3. CASE rs # {}
    <3>1. PICK r \in records : r.flow = f
      BY <2>3
    <3>2. rs = {r}
      BY <1>1, <3>1 DEF OnePerFlow
    <3>3. Counted(rs) = r.packets
      BY <3>2 DEF Counted
    <3>4. r = [flow |-> f, packets |-> r.packets]
      BY <1>1, <3>1 DEF Records
    <3>5. QED
      BY <1>1, <2>1, <2>3, <3>3, <3>4
  <2>4. QED
    BY <2>2, <2>3
<1>6. StoredWasProduced'
  BY <1>2, <1>5 DEF IInv, StoredWasProduced
<1>7. QED
  BY <1>2, <1>4, <1>6 DEF IInv, TableInv, BatchInv, Covered, Separate, UpsertInv, InTable, Delivered

(* The stale flows' records are now in the batch.                          *)
LEMMA FlushStaleStep == ASSUME IInv, FlushStale PROVE IInv'
<1>1. PICK stale \in SUBSET In(flows) :
          /\ batch' = {r \in RecordsOf(flows) : r.flow \in stale}
          /\ flows' = [f \in Flows |-> IF f \in stale THEN {} ELSE flows[f]]
  BY DEF FlushStale
<1>2. /\ batch = {} /\ flusher' = "send" /\ stale \in SUBSET Flows
      /\ UNCHANGED <<topics, position, consumer, remaining, buffer, upserts, running, history>>
  BY <1>1 DEF FlushStale, IInv, BatchInv, In
<1>3. /\ batch' \subseteq Records /\ Apart(batch)' /\ OnePerFlow(batch)'
      /\ \A o : o \in Counted(batch)' <=> \E f \in stale : o \in flows[f]
  <2>1. IInv /\ Types /\ TableInv
    BY DEF IInv
  <2>2. QED
    BY <1>1, <1>2, <2>1, TableRecords
<1>4. /\ \A f \in Flows : flows[f] \subseteq Offsets /\ flows'[f] \subseteq flows[f]
      /\ Delivered' = Delivered /\ Counted(buffer)' = Counted(buffer)
      /\ Counted(Delivered)' = Counted(Delivered)
  BY <1>1, <1>2 DEF IInv, Types, TypeOK, Delivered
<1>5. Types'
  <2>1. flows' \in [Flows -> SUBSET Offsets]
    BY <1>1, <1>4
  <2>2. QED
    BY <1>2, <1>3, <1>4, <2>1 DEF IInv, Types, TypeOK
<1>6. TableInv'
  <2>1. \A f, g \in Flows : f # g => flows[f] \cap flows[g] = {}
    BY DEF IInv, TableInv
  <2>2. \A f \in Flows : \A o \in flows[f] : o < position
    BY DEF IInv, TableInv
  <2>3. QED
    BY <1>2, <1>4, <2>1, <2>2 DEF TableInv
<1>7. InTable = InTable' \cup Counted(batch)' /\ InTable' \cap Counted(batch)' = {}
  <2>1. \A f \in Flows : flows'[f] = IF f \in stale THEN {} ELSE flows[f]
    BY <1>1
  <2>2. \A f, g \in Flows : f # g => flows[f] \cap flows[g] = {}
    BY DEF IInv, TableInv
  <2>3. \A o : o \in InTable' <=> \E f \in Flows \ stale : o \in flows[f]
    BY <1>4, <2>1 DEF InTable
  <2>4. \A o : o \in InTable <=> \E f \in Flows : o \in flows[f]
    BY <1>4 DEF InTable
  <2>5. InTable = InTable' \cup Counted(batch)'
    BY <1>2, <1>3, <2>3, <2>4
  <2>6. InTable' \cap Counted(batch)' = {}
    BY <1>2, <1>3, <2>2, <2>3
  <2>7. QED
    BY <2>5, <2>6
<1>8. Covered'
  <2>1. Counted(batch) = {}
    BY <1>2 DEF Counted
  <2>2. QED
    BY <1>2, <1>4, <1>7, <2>1 DEF IInv, Covered
<1>9. Separate'
  <2> SUFFICES ASSUME crashes' = 0 PROVE Separate'
    BY DEF Separate
  <2>1. crashes = 0
    BY <1>2
  <2>2. \A o \in Counted(batch)' : o < position'
    BY <1>2, <1>3 DEF IInv, TableInv
  <2>3. Counted(batch)' \subseteq InTable /\ InTable' \subseteq InTable
    BY <1>7
  <2>4. Apart(buffer)' <=> Apart(buffer)
    BY <1>2
  <2>5. QED
    BY <1>2, <1>4, <1>7, <2>1, <2>2, <2>3, <2>4 DEF IInv, Separate
<1>10. BatchInv' /\ UpsertInv' /\ StoredWasProduced'
  BY <1>2, <1>3 DEF IInv, BatchInv, UpsertInv, StoredWasProduced
<1>11. QED
  BY <1>5, <1>6, <1>8, <1>9, <1>10 DEF IInv

(* Handing records to the producer: each of them is in its buffer or lost. *)
LEMMA HandParts ==
    ASSUME IInv, NEW S \in SUBSET Records, Apart(S), OnePerFlow(S),
           NEW accepted \in Beginnings(S), Hand(S, accepted)
    PROVE  /\ accepted \subseteq S /\ produced' = produced \cup accepted
           /\ buffer' \subseteq Records /\ lost' \subseteq Offsets
           /\ Counted(S) = Counted(accepted) \cup Counted(S \ accepted)
           /\ Counted(accepted) \cap Counted(S \ accepted) = {}
           /\ Counted(buffer)' = Counted(buffer) \cup Counted(accepted)
           /\ lost' = lost \cup Counted(S \ accepted)
           /\ Apart(buffer) /\ Counted(buffer) \cap Counted(S) = {} => Apart(buffer)'
<1>1. accepted \in SUBSET S
  BY DEF Beginnings
<1>2. /\ buffer' = buffer \cup accepted /\ produced' = produced \cup accepted
      /\ lost' = lost \cup Counted(S \ accepted)
  BY DEF Hand
<1>3. /\ Counted(S) = Counted(accepted) \cup Counted(S \ accepted)
      /\ Counted(accepted) \cap Counted(S \ accepted) = {} /\ Apart(accepted)
  BY <1>1, CountedRest
<1>4. Counted(buffer)' = Counted(buffer) \cup Counted(accepted)
  BY <1>2, CountedUnion
<1>5. buffer' \subseteq Records /\ lost' \subseteq Offsets
  BY <1>1, <1>2 DEF IInv, Types, TypeOK, Counted, Records
<1>6. ASSUME Apart(buffer), Counted(buffer) \cap Counted(S) = {} PROVE Apart(buffer)'
  <2>1. \A r \in buffer, q \in accepted : r.packets \cap q.packets = {}
    BY <1>1, <1>6 DEF Counted
  <2>2. QED
    BY <1>2, <1>3, <1>6, <2>1 DEF Apart
<1>7. QED
  BY <1>1, <1>2, <1>3, <1>4, <1>5, <1>6

LEMMA FlushSendStep == ASSUME IInv, FlushSend PROVE IInv'
<1>1. PICK accepted \in Beginnings(batch) :
          /\ Hand(batch, accepted)
          /\ upserts' = IF batch # {} /\ accepted = batch /\ consumer # "closed"
                        THEN upserts \cup {batch} ELSE upserts
  BY DEF FlushSend
<1>2. /\ batch' = {} /\ flusher' \in {"sleep", "done"}
      /\ UNCHANGED <<topics, position, flows, consumer, remaining, running, crashes>>
  BY DEF FlushSend
<1>3. batch \in SUBSET Records /\ Apart(batch) /\ OnePerFlow(batch)
  BY DEF IInv, Types, TypeOK, BatchInv
<1>4. /\ accepted \subseteq batch /\ produced' = produced \cup accepted
      /\ buffer' \subseteq Records /\ lost' \subseteq Offsets
      /\ Counted(batch) = Counted(accepted) \cup Counted(batch \ accepted)
      /\ Counted(accepted) \cap Counted(batch \ accepted) = {}
      /\ Counted(buffer)' = Counted(buffer) \cup Counted(accepted)
      /\ lost' = lost \cup Counted(batch \ accepted)
      /\ Apart(buffer) /\ Counted(buffer) \cap Counted(batch) = {} => Apart(buffer)'
  BY <1>1, <1>3, HandParts
<1>5. /\ InTable' = InTable /\ Delivered' = Delivered /\ Counted(Delivered)' = Counted(Delivered)
      /\ Counted(batch)' = {}
  BY <1>2 DEF InTable, Delivered, Counted
<1>6. Types'
  <2>1. upserts' \subseteq SUBSET Records
    BY <1>1, <1>3 DEF IInv, Types, TypeOK
  <2>2. QED
    BY <1>2, <1>4, <1>5, <2>1 DEF IInv, Types, TypeOK
<1>7. Covered'
  BY <1>2, <1>4, <1>5 DEF IInv, Covered
<1>8. Separate'
  <2> SUFFICES ASSUME crashes' = 0 PROVE Separate'
    BY DEF Separate
  <2>1. crashes = 0
    BY <1>2
  <2>2. QED
    BY <1>2, <1>4, <1>5, <2>1 DEF IInv, Separate
<1>9. TableInv' /\ BatchInv'
  BY <1>2 DEF IInv, TableInv, BatchInv, Apart, OnePerFlow
<1>10. UpsertInv' /\ StoredWasProduced'
  BY <1>1, <1>2, <1>3, <1>4 DEF IInv, UpsertInv, StoredWasProduced
<1>11. QED
  BY <1>6, <1>7, <1>8, <1>9, <1>10 DEF IInv

LEMMA FlushAllStep == ASSUME IInv, FlushAll PROVE IInv'
<1> DEFINE S == RecordsOf(flows)
<1>1. PICK accepted \in Beginnings(S) :
          /\ Hand(S, accepted)
          /\ \/ accepted = S /\ consumer' = "upsert" /\ upserts' \in {upserts, upserts \cup {S}}
             \/ consumer' = "dead" /\ upserts' = upserts
  BY DEF FlushAll
<1>2. /\ flows' = NoFlows /\ remaining' = S
      /\ UNCHANGED <<topics, position, flusher, batch, running, crashes>>
  BY DEF FlushAll
<1>3. S \in SUBSET Records /\ Apart(S) /\ OnePerFlow(S) /\ Counted(S) = InTable
  BY WholeTable DEF IInv
<1> HIDE DEF S
<1>4. /\ accepted \subseteq S /\ produced' = produced \cup accepted
      /\ buffer' \subseteq Records /\ lost' \subseteq Offsets
      /\ Counted(S) = Counted(accepted) \cup Counted(S \ accepted)
      /\ Counted(accepted) \cap Counted(S \ accepted) = {}
      /\ Counted(buffer)' = Counted(buffer) \cup Counted(accepted)
      /\ lost' = lost \cup Counted(S \ accepted)
      /\ Apart(buffer) /\ Counted(buffer) \cap Counted(S) = {} => Apart(buffer)'
  BY <1>1, <1>3, HandParts
<1>5. /\ InTable' = {} /\ Delivered' = Delivered /\ Counted(Delivered)' = Counted(Delivered)
      /\ Counted(batch)' = Counted(batch) /\ \A f \in Flows : flows'[f] = {}
  BY <1>2 DEF InTable, Delivered, NoFlows
<1>6. Types'
  <2>1. upserts' \subseteq SUBSET Records /\ flows' \in [Flows -> SUBSET Offsets]
    BY <1>1, <1>2, <1>3 DEF IInv, Types, TypeOK, NoFlows
  <2>2. QED
    BY <1>1, <1>2, <1>3, <1>4, <1>5, <2>1 DEF IInv, Types, TypeOK
<1>7. Covered'
  BY <1>2, <1>3, <1>4, <1>5 DEF IInv, Covered
<1>8. Separate'
  <2> SUFFICES ASSUME crashes' = 0 PROVE Separate'
    BY DEF Separate
  <2>1. crashes = 0
    BY <1>2
  <2>2. \A o \in InTable : o < position
    BY DEF IInv, TableInv, InTable
  <2>3. Apart(buffer)'
    BY <1>3, <1>4, <2>1 DEF IInv, Separate
  <2>4. \A o \in Counted(batch)' \cup Counted(buffer)' \cup Counted(Delivered)' \cup lost' :
            o < position'
    BY <1>2, <1>3, <1>4, <1>5, <2>1, <2>2 DEF IInv, Separate
  <2>5. QED
    BY <1>2, <1>3, <1>4, <1>5, <2>1, <2>3, <2>4 DEF IInv, Separate
<1>9. TableInv' /\ BatchInv'
  BY <1>2, <1>5 DEF IInv, TableInv, BatchInv
<1>10. UpsertInv' /\ StoredWasProduced'
  BY <1>1, <1>2, <1>3, <1>4 DEF IInv, UpsertInv, StoredWasProduced
<1>11. QED
  BY <1>6, <1>7, <1>8, <1>9, <1>10 DEF IInv

(* A record leaves the buffer, for the topic or for nowhere.               *)
LEMMA DeliverStep == ASSUME IInv, NEW r \in buffer, Deliver(r) PROVE IInv'
<1>1. /\ buffer' = buffer \ {r}
      /\ \/ processed' = Append(processed, r) /\ lost' = lost
         \/ lost' = lost \cup r.packets /\ processed' = processed
      /\ UNCHANGED <<raw, requested, committed, database, position, flows, consumer, remaining,
                     flusher, batch, upserts, running, produced, crashes>>
  BY DEF Deliver
<1>2. r \in Records /\ processed \in Seq(Records) /\ buffer \subseteq Records
  BY DEF IInv, Types, TypeOK
<1>3. /\ Counted(buffer) = r.packets \cup Counted(buffer')
      /\ Apart(buffer) => r.packets \cap Counted(buffer') = {} /\ Apart(buffer')
  <2>1. {r} \in SUBSET buffer /\ Counted({r}) = r.packets
    BY DEF Counted
  <2>2. buffer' = buffer \ {r}
    BY <1>1
  <2>3. /\ Counted(buffer) = Counted({r}) \cup Counted(buffer \ {r})
        /\ Apart(buffer) => Counted({r}) \cap Counted(buffer \ {r}) = {}
    BY <2>1, CountedRest
  <2>4. Apart(buffer) => Apart(buffer \ {r})
    BY DEF Apart
  <2>5. QED
    BY <2>1, <2>2, <2>3, <2>4
<1>4. CASE processed' = Append(processed, r) /\ lost' = lost
  <2>1. processed' \in Seq(Records) /\ Delivered' = Delivered \cup {r}
    <3>1. /\ processed' \in Seq(Records) /\ Len(processed') = Len(processed) + 1
          /\ processed'[Len(processed) + 1] = r
          /\ \A i \in 1 .. Len(processed) : processed'[i] = processed[i]
      BY <1>2, <1>4
    <3>2. DOMAIN processed' = DOMAIN processed \cup {Len(processed) + 1}
      BY <1>2, <3>1
    <3>3. QED
      BY <1>2, <3>1, <3>2 DEF Delivered
  <2>2. Counted(Delivered') = Counted(Delivered) \cup r.packets
    BY <2>1, CountedUnion DEF Counted
  <2>3. InTable' = InTable /\ Counted(batch)' = Counted(batch)
    BY <1>1 DEF InTable
  <2>4. Types'
    BY <1>1, <1>2, <1>4, <2>1 DEF IInv, Types, TypeOK
  <2>5. Covered'
    BY <1>1, <1>3, <1>4, <2>2, <2>3 DEF IInv, Covered
  <2>6. Separate'
    BY <1>1, <1>3, <1>4, <2>2, <2>3 DEF IInv, Separate
  <2>7. TableInv' /\ BatchInv' /\ UpsertInv' /\ StoredWasProduced'
    BY <1>1 DEF IInv, TableInv, BatchInv, UpsertInv, StoredWasProduced
  <2>8. QED
    BY <2>4, <2>5, <2>6, <2>7 DEF IInv
<1>5. CASE lost' = lost \cup r.packets /\ processed' = processed
  <2>1. InTable' = InTable /\ Counted(batch)' = Counted(batch) /\ Delivered' = Delivered
    BY <1>1, <1>5 DEF InTable, Delivered
  <2>2. Types'
    BY <1>1, <1>2, <1>5, <2>1 DEF IInv, Types, TypeOK, Records
  <2>3. Covered'
    BY <1>1, <1>3, <1>5, <2>1 DEF IInv, Covered
  <2>4. Separate'
    BY <1>1, <1>3, <1>5, <2>1 DEF IInv, Separate
  <2>5. TableInv' /\ BatchInv' /\ UpsertInv' /\ StoredWasProduced'
    BY <1>1 DEF IInv, TableInv, BatchInv, UpsertInv, StoredWasProduced
  <2>6. QED
    BY <2>2, <2>3, <2>4, <2>5 DEF IInv
<1>6. QED
  BY <1>1, <1>4, <1>5

(* What is in memory is lost, unless it is read again.                     *)
LEMMA CrashStep == ASSUME IInv, Crash PROVE IInv'
<1>1. /\ crashes' = crashes + 1 /\ crashes' # 0 /\ crashes' \in Nat
      /\ requested' = 0 /\ consumer' = "poll" /\ flusher' = "sleep"
      /\ flows' = NoFlows /\ batch' = {} /\ buffer' = {} /\ remaining' = {} /\ upserts' = {}
      /\ UNCHANGED <<raw, processed, committed, database, produced>>
      /\ lost' = lost \cup {o \in Offsets : /\ o < position'
                                            /\ \/ o \in Counted(RecordsOf(flows) \cup batch \cup buffer)
                                               \/ o >= position}
  BY DEF Crash, IInv, Types
<1>2. position' \in 1 .. MaxPackets + 1
  BY ProcessingAssumption DEF Crash, IInv, Types, TypeOK
<1>3. Counted(RecordsOf(flows) \cup batch \cup buffer)
          = InTable \cup Counted(batch) \cup Counted(buffer)
  <2>1. Counted(RecordsOf(flows)) = InTable
    BY WholeTable DEF IInv
  <2>2. Counted((RecordsOf(flows) \cup batch) \cup buffer)
            = Counted(RecordsOf(flows) \cup batch) \cup Counted(buffer)
    BY CountedUnion
  <2>3. Counted(RecordsOf(flows) \cup batch) = Counted(RecordsOf(flows)) \cup Counted(batch)
    BY CountedUnion
  <2>4. QED
    BY <2>1, <2>2, <2>3
<1>4. Delivered' = Delivered /\ \A f \in Flows : flows'[f] = {}
  BY <1>1 DEF Delivered, NoFlows
<1>5. Types'
  BY <1>1, <1>2, <1>4 DEF IInv, Types, TypeOK, NoFlows
<1>6. Covered'
  <2> DEFINE last == position' - 1
  <2>1. last \in Nat /\ last <= MaxPackets /\ last < position'
    <3>1. \A k \in 1 .. MaxPackets + 1 : k - 1 \in Nat /\ k - 1 <= MaxPackets /\ k - 1 < k
      BY ProcessingAssumption
    <3>2. QED
      BY <1>2, <3>1
  <2> SUFFICES ASSUME NEW o \in 1 .. last
               PROVE  o \in Counted(Delivered)' \/ o \in lost'
    BY DEF Covered
  <2> HIDE DEF last
  <2>2. position \in Nat
    BY ProcessingAssumption DEF IInv, Types, TypeOK
  <2>3. o \in Offsets /\ o < position' /\ o \in Nat /\ position \in Nat /\ o >= 1
    <3>1. o \in Nat /\ 1 <= o /\ o <= last
      BY <2>1
    <3>2. o < position'
      BY <1>2, <2>1, <3>1, ProcessingAssumption
    <3>3. QED
      BY <2>2, <2>1, <3>1, <3>2, ProcessingAssumption DEF Offsets
  <2>4. CASE o >= position
    BY <1>1, <2>3, <2>4
  <2>5. CASE o < position
    <3>1. o \in 1 .. position - 1
      BY <2>3, <2>5
    <3>2. \/ o \in InTable \cup Counted(batch) \cup Counted(buffer)
          \/ o \in Counted(Delivered) \/ o \in lost
      BY <3>1 DEF IInv, Covered
    <3>3. QED
      BY <1>1, <1>3, <1>4, <2>3, <3>2
  <2>6. QED
    BY <2>3, <2>4, <2>5
<1>7. Separate'
  BY <1>1 DEF Separate
<1>8. TableInv' /\ BatchInv' /\ UpsertInv' /\ StoredWasProduced'
  BY <1>1, <1>4 DEF IInv, TableInv, BatchInv, UpsertInv, StoredWasProduced, Apart, OnePerFlow
<1>9. QED
  BY <1>5, <1>6, <1>7, <1>8 DEF IInv
----------------------------------------------------------------------------
LEMMA StepIInv == IInv /\ [Next]_vars => IInv'
<1> SUFFICES ASSUME IInv, [Next]_vars PROVE IInv'
  OBVIOUS
<1>1. CASE Poll
  BY <1>1, PollStep
<1>2. CASE Stored \/ FinalUpsert \/ Close \/ Shutdown \/ Commit
  <2>1. /\ UNCHANGED <<raw, processed, database, position, flows, batch, buffer, upserts, history>>
        /\ flusher' = flusher
    BY <1>2 DEF Stored, FinalUpsert, Close, Shutdown, Commit
  <2>2. requested' \in 0 .. position' /\ committed' \in 0 .. MaxPackets + 1
    BY <1>2, ProcessingAssumption DEF Stored, FinalUpsert, Close, Shutdown, Commit, IInv, Types, TypeOK
  <2>3. consumer' \in {"poll", "store", "upsert", "close", "closed", "dead"} /\ remaining' = remaining
    BY <1>2 DEF Stored, FinalUpsert, Close, Shutdown, Commit, IInv, Types, TypeOK
  <2>4. Types'
    BY <2>1, <2>2, <2>3 DEF IInv, Types, TypeOK, Delivered
  <2>5. QED
    BY <2>1, <2>4, QuietStep
<1>3. CASE FlushAll
  BY <1>3, FlushAllStep
<1>4. ASSUME NEW records \in upserts, UpsertEnds(records) PROVE IInv'
  BY <1>4, UpsertStep
<1>5. CASE FlushStale
  BY <1>5, FlushStaleStep
<1>6. CASE FlushSend
  BY <1>6, FlushSendStep
<1>7. ASSUME NEW r \in buffer, Deliver(r) PROVE IInv'
  BY <1>7, DeliverStep
<1>8. CASE Crash
  BY <1>8, CrashStep
<1>9. CASE UNCHANGED vars
  <2>1. Types'
    BY <1>9 DEF IInv, Types, TypeOK, Delivered, vars
  <2>2. QED
    BY <1>9, <2>1, QuietStep DEF vars
<1>10. QED
  BY <1>1, <1>2, <1>3, <1>4, <1>5, <1>6, <1>7, <1>8, <1>9
     DEF Next, Consumer, EventLoop, Flusher, Producer

(* The inductive invariant: where every packet is.                         *)
THEOREM Invariance == Spec => []IInv
<1>1. Init => IInv
  BY InitIInv
<1>2. IInv /\ [Next]_vars => IInv'
  BY StepIInv
<1>3. QED
  BY <1>1, <1>2, PTL DEF Spec

(* Every variable keeps its type.                                          *)
THEOREM TypeCorrect == Spec => []TypeOK
<1>1. IInv => TypeOK
  BY DEF IInv, Types
<1>2. QED
  BY <1>1, Invariance, PTL

(* Every packet that was read is counted by a flow, a record or the        *)
(* losses, and before the first restart by one of them only.               *)
THEOREM PacketsCounted == Spec => []EveryPacketCounted
BY Invariance, PlacesCounted, PTL

(* The database shows only records the producer has accepted.              *)
THEOREM StoredProduced == Spec => []StoredWasProduced
<1>1. IInv => StoredWasProduced
  BY DEF IInv
<1>2. QED
  BY <1>1, Invariance, PTL
=============================================================================
