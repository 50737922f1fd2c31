------------------------- MODULE ProcessingService -------------------------
(***************************************************************************)
(* The processing service (processing_service/main.py, flow_tracker.py):   *)
(* a consumer thread puts packets from Kafka into flows, a flusher thread  *)
(* takes the flows nobody has seen for a while out of the table, and both  *)
(* hand flow records to a Kafka producer and to database tasks. The tasks  *)
(* are on an event loop that the consumer thread runs only while it waits  *)
(* for a coroutine of its own.                                             *)
(*                                                                         *)
(* A packet is its offset in the topic. A flow record is the set of        *)
(* packets it counts.                                                      *)
(***************************************************************************)
EXTENDS Naturals, Sequences, FiniteSets, FiniteSetsExt

CONSTANTS Flows,
          MaxPackets,    \* packets in the topic (bound)
          MaxCrashes     \* times a service is killed (bound)

ASSUME ProcessingAssumption == MaxPackets \in Nat /\ MaxCrashes \in Nat

VARIABLES
    raw,         \* the topic raw_packets: the flow of each packet
    position,    \* the offset the consumer reads next
    requested,   \* the offset of an asynchronous commit under way, or 0
    committed,   \* the offset committed for the group, or 0
    flows,       \* tracker.flows: the packets of each flow, or {}
    consumer,    \* where the consumer thread is
    remaining,   \* what flush_all returned
    flusher,     \* where the flusher thread is
    batch,       \* what flush_stale returned
    buffer,      \* records produced and not yet delivered
    processed,   \* the topic processed_packets
    upserts,     \* database tasks on the loop: a set of records each
    database,    \* the record the table flows has for each flow, or {}
    running,     \* self.running
    produced,    \* history: records handed to the producer
    lost,        \* history: packets of records that were refused, could not
                 \* be delivered, or were in memory when the service was
                 \* killed; and those it never read
    crashes

memory == <<flows, consumer, remaining, flusher, batch, buffer, upserts, running>>
topics == <<raw, processed, requested, committed, database>>
history == <<produced, lost, crashes>>
vars == <<memory, topics, position, history>>

Offsets == 1 .. MaxPackets
Records == [flow : Flows, packets : SUBSET Offsets]
NoFlows == [f \in Flows |-> {}]

In(table) == {f \in Flows : table[f] # {}}
RecordsOf(table) == {[flow |-> f, packets |-> table[f]] : f \in In(table)}
Counted(records) == UNION {r.packets : r \in records}
Delivered == {processed[i] : i \in DOMAIN processed}
----------------------------------------------------------------------------
(* produce() is called for one record after another, in the order in which *)
(* the flows were first seen; if one is refused the exception leaves the   *)
(* loop. What was accepted is then a beginning of the batch.               *)
Beginnings(records) ==
    {s \in SUBSET records : \A r \in s, q \in records \ s : Min(r.packets) < Min(q.packets)}

Hand(records, accepted) ==
    /\ buffer' = buffer \cup accepted
    /\ produced' = produced \cup accepted
    /\ lost' = lost \cup Counted(records \ accepted)

(* A packet of a new flow is put into the table; then update() raises, for *)
(* it formats a variable it has not set, and nothing else is done for it.  *)
(* The test of running, poll and update are one step: a packet polled      *)
(* while running is cleared is one polled just before. A message that does *)
(* not parse is logged and changes nothing.                                *)
Poll ==
    /\ consumer = "poll"
    /\ running
    /\ position <= MaxPackets
    /\ LET f == raw[position]
       IN  /\ flows' = [flows EXCEPT ![f] = @ \cup {position}]
           /\ consumer' = IF flows[f] = {} THEN "poll" ELSE "store"
    /\ position' = position + 1
    /\ UNCHANGED <<topics, remaining, flusher, batch, buffer, upserts, running, history>>

(* Variant: the commit is for the packet that comes next, too.             *)
StoredAhead ==
    /\ consumer = "store"
    /\ consumer' = "poll"
    /\ requested' = position + 1
    /\ UNCHANGED <<raw, processed, committed, database, position, flows, remaining, flusher,
                   batch, buffer, upserts, running, history>>

(* run_until_complete(store_flow) has returned; commit(asynchronous=True). *)
Stored ==
    /\ consumer = "store"
    /\ consumer' = "poll"
    /\ requested' = position
    /\ UNCHANGED <<raw, processed, committed, database, position, flows, remaining, flusher,
                   batch, buffer, upserts, running, history>>

(* Variant: the last records are put on the loop as the flusher does it,   *)
(* and then waited for.                                                    *)
LoopRunsNotAtEnd == consumer = "store"

(* The loop runs: a database task commits its records, or fails.           *)
LoopRuns ==
    \/ consumer = "store"
    \/ consumer = "upsert" /\ remaining \in upserts
    \/ consumer = "close" /\ buffer = {}

Upserted(records) ==
    [f \in Flows |-> LET rs == {r \in records : r.flow = f}
                     IN  IF rs = {} THEN database[f] ELSE Counted(rs)]

UpsertEnds(records) ==
    /\ LoopRuns
    /\ records \in upserts
    /\ upserts' = upserts \ {records}
    /\ \/ database' = Upserted(records)
       \/ UNCHANGED database
    /\ UNCHANGED <<raw, processed, requested, committed, position, flows, consumer, remaining,
                   flusher, batch, buffer, running, history>>
----------------------------------------------------------------------------
(* Variant: every flow leaves the table, the stale ones are returned.      *)
FlushStaleClears ==
    /\ flusher = "sleep"
    /\ \E stale \in SUBSET In(flows) :
           /\ \A f \in stale, g \in In(flows) \ stale : Max(flows[f]) < Max(flows[g])
           /\ batch' = {r \in RecordsOf(flows) : r.flow \in stale}
           /\ flows' = NoFlows
    /\ flusher' = "send"
    /\ UNCHANGED <<topics, position, consumer, remaining, buffer, upserts, running, history>>

(* flush_stale, under the lock: the flows last seen longest ago.           *)
FlushStale ==
    /\ flusher = "sleep"
    /\ \E stale \in SUBSET In(flows) :
           /\ \A f \in stale, g \in In(flows) \ stale : Max(flows[f]) < Max(flows[g])
           /\ batch' = {r \in RecordsOf(flows) : r.flow \in stale}
           /\ flows' = [f \in Flows |-> IF f \in stale THEN {} ELSE flows[f]]
    /\ flusher' = "send"
    /\ UNCHANGED <<topics, position, consumer, remaining, buffer, upserts, running, history>>

(* Variant: the database task is scheduled first.                          *)
FlushSendUpsertFirst ==
    /\ flusher = "send"
    /\ \E accepted \in Beginnings(batch) :
           /\ Hand(batch, accepted)
           /\ upserts' = IF batch # {} /\ consumer # "closed"
                         THEN upserts \cup {batch} ELSE upserts
    /\ batch' = {}
    /\ flusher' = IF running THEN "sleep" ELSE "done"
    /\ UNCHANGED <<topics, position, flows, consumer, remaining, running, crashes>>

(* The records are produced and, if none was refused and the loop is not   *)
(* closed, a task for them is put on the loop.                             *)
FlushSend ==
    /\ flusher = "send"
    /\ \E accepted \in Beginnings(batch) :
           /\ Hand(batch, accepted)
           /\ upserts' = IF batch # {} /\ accepted = batch /\ consumer # "closed"
                         THEN upserts \cup {batch} ELSE upserts
    /\ batch' = {}
    /\ flusher' = IF running THEN "sleep" ELSE "done"
    /\ UNCHANGED <<topics, position, flows, consumer, remaining, running, crashes>>
----------------------------------------------------------------------------
(* SIGTERM, as long as uvicorn has not taken over the signals. Later it is *)
(* a Crash: the threads are daemons.                                       *)
Shutdown ==
    /\ running
    /\ running' = FALSE
    /\ UNCHANGED <<topics, position, history, flows, consumer, remaining, flusher, batch,
                   buffer, upserts>>

(* The consumer's finally: a refused record ends the thread; otherwise the *)
(* loop runs until the last records are in the database ...                *)
FlushAll ==
    /\ consumer = "poll"
    /\ ~ running
    /\ flows' = NoFlows
    /\ remaining' = RecordsOf(flows)
    /\ \E accepted \in Beginnings(remaining') :
           /\ Hand(remaining', accepted)
           /\ IF accepted = remaining'
              THEN /\ consumer' = "upsert"
                   /\ upserts' = IF remaining' = {} THEN upserts ELSE upserts \cup {remaining'}
              ELSE consumer' = "dead" /\ UNCHANGED upserts
    /\ UNCHANGED <<topics, position, flusher, batch, running, crashes>>

FinalUpsert ==
    /\ consumer = "upsert"
    /\ remaining \notin upserts
    /\ consumer' = "close"
    /\ UNCHANGED <<topics, position, history, flows, remaining, flusher, batch, buffer,
                   upserts, running>>

(* ... the producer is flushed, and everything is closed.                  *)
Close ==
    /\ consumer = "close"
    /\ buffer = {}
    /\ consumer' = "closed"
    /\ UNCHANGED <<topics, position, history, flows, remaining, flusher, batch, buffer,
                   upserts, running>>
----------------------------------------------------------------------------
(* Kafka: a record is delivered, or times out; a commit arrives, or not.   *)
Deliver(r) ==
    /\ r \in buffer
    /\ buffer' = buffer \ {r}
    /\ \/ processed' = Append(processed, r) /\ UNCHANGED lost
       \/ lost' = lost \cup r.packets /\ UNCHANGED processed
    /\ UNCHANGED <<raw, requested, committed, database, position, flows, consumer, remaining,
                   flusher, batch, upserts, running, produced, crashes>>

Commit ==
    /\ requested # 0
    /\ committed' \in {committed, requested}
    /\ requested' = 0
    /\ UNCHANGED <<raw, processed, database, position, memory, history>>

(* The process is killed and started again: it reads from the committed    *)
(* offset on or, without one, from the end of the topic.                   *)
Crash ==
    /\ crashes < MaxCrashes
    /\ crashes' = crashes + 1
    /\ position' \in IF committed # 0 THEN {committed} ELSE position .. MaxPackets + 1
    /\ lost' = lost \cup {o \in Offsets : /\ o < position'
                                          /\ \/ o \in Counted(RecordsOf(flows) \cup batch \cup buffer)
                                             \/ o >= position}
    /\ flows' = NoFlows /\ batch' = {} /\ buffer' = {} /\ remaining' = {} /\ upserts' = {}
    /\ requested' = 0
    /\ consumer' = "poll" /\ flusher' = "sleep" /\ running' = TRUE
    /\ UNCHANGED <<raw, processed, committed, database, produced>>
----------------------------------------------------------------------------
Init ==
    /\ raw \in [Offsets -> Flows]
    /\ position = 1
    /\ requested = 0 /\ committed = 0
    /\ flows = NoFlows
    /\ consumer = "poll" /\ flusher = "sleep" /\ running = TRUE
    /\ remaining = {} /\ batch = {} /\ buffer = {} /\ upserts = {}
    /\ processed = <<>>
    /\ database = NoFlows
    /\ produced = {} /\ lost = {}
    /\ crashes = 0

Consumer == Poll \/ Stored \/ FlushAll \/ FinalUpsert \/ Close
EventLoop == \E records \in upserts : UpsertEnds(records)
Flusher == FlushStale \/ FlushSend
Producer == \E r \in buffer : Deliver(r)

Next == Consumer \/ EventLoop \/ Flusher \/ Producer \/ Commit \/ Shutdown \/ Crash

Spec == Init /\ [][Next]_vars

(* The consumer thread, the tasks on its loop and the producer's own       *)
(* thread go on when they can. Packets need not come.                      *)
Fairness ==
    /\ WF_vars(Stored \/ FlushAll \/ FinalUpsert \/ Close)
    /\ WF_vars(EventLoop)
    /\ WF_vars(Producer)

FairSpec == Spec /\ Fairness
----------------------------------------------------------------------------
(* PROPERTIES                                                              *)

TypeOK ==
    /\ position \in 1 .. MaxPackets + 1
    /\ requested \in 0 .. position /\ committed \in 0 .. MaxPackets + 1
    /\ flows \in [Flows -> SUBSET Offsets] /\ database \in [Flows -> SUBSET Offsets]
    /\ consumer \in {"poll", "store", "upsert", "close", "closed", "dead"}
    /\ flusher \in {"sleep", "send", "done"}
    /\ remaining \subseteq Records /\ batch \subseteq Records
    /\ buffer \subseteq Records /\ Delivered \subseteq Records
    /\ upserts \subseteq SUBSET Records
    /\ lost \subseteq Offsets

(* "Aggregates flows": every packet that was read is counted by a flow of  *)
(* the table or by a record on its way, whatever flusher, shutdown and     *)
(* producer do at the same time; none is lost but by a refusal or a crash. *)
(* And by one of them only, unless a restart made it come twice.           *)
EveryPacketCounted ==
    LET inTable == Counted(RecordsOf(flows))
        places == <<inTable, Counted(batch), Counted(buffer), Counted(Delivered), lost>>
    IN  /\ \A o \in 1 .. position - 1 : \E i \in DOMAIN places : o \in places[i]
        /\ crashes = 0 =>
             \A i, j \in DOMAIN places : i # j => places[i] \cap places[j] = {}

(* The database never shows a flow record that was not handed to Kafka:    *)
(* refusals, failing tasks and crashes can only make it show less.         *)
StoredWasProduced ==
    \A f \in Flows :
        database[f] # {} => [flow |-> f, packets |-> database[f]] \in produced

(* "Initiating graceful shutdown ... complete": once running is cleared    *)
(* the consumer's thread ends, although its tasks need a loop that only    *)
(* this thread runs; unless the service is killed before.                  *)
ShutdownCompletes ==
    ~ running ~> (consumer \in {"closed", "dead"} \/ running)
============================================================================
