--------------------------- MODULE CaptureEngine ---------------------------
(***************************************************************************)
(* The packet service (capture_engine, kafka_producer): the capture thread *)
(* puts packets on a bounded queue or drops them; producer threads offer   *)
(* them to librdkafka, which buffers a message until its delivery report   *)
(* was served by a poll. The owner of the engine (main, or the destructor) *)
(* calls stop and join; a signal only clears the flag running_.            *)
(*                                                                         *)
(* Packets are counted, not told apart: what is at stake is where they     *)
(* are lost. The broker answers, or fails, a buffered message at any time. *)
(***************************************************************************)
EXTENDS Naturals, FiniteSets, FiniteSetsExt

CONSTANTS Producers,       \* the producer threads
          QueueCapacity,   \* EngineConfig::queue_capacity
          KafkaCapacity,   \* queue.buffering.max.messages of each producer
          MaxPackets       \* bound: packets that arrive

ASSUME CaptureAssumption ==
    /\ IsFiniteSet(Producers) /\ Producers # {}
    /\ QueueCapacity \in Nat \ {0}
    /\ KafkaCapacity \in Nat \ {0}
    /\ MaxPackets \in Nat

VARIABLES
    running, shut, broken,    \* running_, queue_.shutdown_, pcap_breakloop called
    capturePc,
    queue,                    \* how many packets queue_ holds
    pc, drains,               \* each producer thread; whether it is in its last loop
    buffer, reports,          \* librdkafka: undelivered messages, unserved reports
    stats,                    \* captured, dropped, queued; messages sent, failed
    ownerPc,
    signalled                 \* history: SIGINT or SIGTERM has come

flagVars == <<running, shut, broken>>
prodVars == <<pc, drains>>
kafkaVars == <<buffer, reports>>
vars == <<flagVars, capturePc, queue, prodVars, kafkaVars, stats, ownerPc, signalled>>
----------------------------------------------------------------------------
(* Capture thread: pcapCallback counts, parses, pushes, counts.            *)
Arrive ==
    /\ capturePc = "loop"
    /\ stats.captured < MaxPackets
    /\ capturePc' = "push"
    /\ stats' = [stats EXCEPT !.captured = @ + 1]
    /\ UNCHANGED <<flagVars, queue, prodVars, kafkaVars, ownerPc, signalled>>

(* Variant: the queue is found full one item too late.                     *)
HasRoomLate == queue <= QueueCapacity /\ ~ shut

HasRoom == queue < QueueCapacity /\ ~ shut

(* The packet cannot be parsed, or tryPush fails.                          *)
Drop ==
    /\ capturePc = "push"
    /\ capturePc' = "loop"
    /\ stats' = [stats EXCEPT !.dropped = @ + 1]
    /\ UNCHANGED <<flagVars, queue, prodVars, kafkaVars, ownerPc, signalled>>

Push ==
    /\ capturePc = "push"
    /\ HasRoom
    /\ queue' = queue + 1
    /\ capturePc' = "count"
    /\ UNCHANGED <<flagVars, prodVars, kafkaVars, stats, ownerPc, signalled>>

CountQueued ==
    /\ capturePc = "count"
    /\ capturePc' = "loop"
    /\ stats' = [stats EXCEPT !.queued = @ + 1]
    /\ UNCHANGED <<flagVars, queue, prodVars, kafkaVars, ownerPc, signalled>>

(* pcap_loop returns: it saw pcap_breakloop, or an error.                  *)
LoopBreaks ==
    /\ capturePc = "loop" /\ broken
    /\ capturePc' = "exit"
    /\ UNCHANGED <<flagVars, queue, prodVars, kafkaVars, stats, ownerPc, signalled>>

LoopFails ==
    /\ capturePc = "loop"
    /\ capturePc' = "exit"
    /\ UNCHANGED <<flagVars, queue, prodVars, kafkaVars, stats, ownerPc, signalled>>

CaptureStep == Drop \/ Push \/ CountQueued \/ LoopBreaks
----------------------------------------------------------------------------
(* Producer thread i: a loop until running_ is false and the queue shut    *)
(* down, then a second one until the queue is empty. The break of the      *)
(* first loop has the same condition as its head.                          *)
GoOn(i) ==
    /\ pc[i] = "check"
    /\ pc' = [pc EXCEPT ![i] = "pop"]
    /\ drains' = [drains EXCEPT ![i] = ~ (running \/ ~ shut)]
    /\ UNCHANGED <<flagVars, capturePc, queue, kafkaVars, stats, ownerPc, signalled>>

Pop(i) ==
    /\ pc[i] = "pop" /\ queue > 0
    /\ queue' = queue - 1
    /\ pc' = [pc EXCEPT ![i] = "produce"]
    /\ UNCHANGED <<flagVars, capturePc, drains, kafkaVars, stats, ownerPc, signalled>>

(* Variant: no second loop.                                                *)
PopNothingLeaves(i) ==
    /\ pc[i] = "pop" /\ (queue = 0 \/ drains[i])
    /\ pc' = [pc EXCEPT ![i] = IF drains[i] THEN "exit" ELSE "check"]
    /\ UNCHANGED <<flagVars, capturePc, queue, drains, kafkaVars, stats,
                   ownerPc, signalled>>

PopNothing(i) ==
    /\ pc[i] = "pop" /\ queue = 0
    /\ pc' = [pc EXCEPT ![i] = IF drains[i] THEN "exit" ELSE "check"]
    /\ UNCHANGED <<flagVars, capturePc, queue, drains, kafkaVars, stats,
                   ownerPc, signalled>>

AfterProduce(i) == IF drains[i] THEN "pop" ELSE "check"

InBuffer(i) == buffer[i] + reports[i].ok + reports[i].err

NoReports == [ok |-> 0, err |-> 0]

(* rd_kafka_poll: deliveryReportCallback for every report that is there.   *)
Served(i) == [stats EXCEPT !.sent = @ + reports[i].ok, !.failed = @ + reports[i].err]

(* rd_kafka_produce took the message; a poll that does not wait.           *)
Accepted(i) ==
    /\ pc[i] \in {"produce", "retry"}
    /\ InBuffer(i) < KafkaCapacity
    /\ buffer' = [buffer EXCEPT ![i] = @ + 1]
    /\ reports' = [reports EXCEPT ![i] = NoReports]
    /\ stats' = Served(i)
    /\ pc' = [pc EXCEPT ![i] = AfterProduce(i)]
    /\ UNCHANGED <<flagVars, capturePc, queue, drains, ownerPc, signalled>>

(* QUEUE_FULL: poll to make room, then retry once.                         *)
QueueFull(i) ==
    /\ pc[i] = "produce"
    /\ InBuffer(i) >= KafkaCapacity
    /\ reports' = [reports EXCEPT ![i] = NoReports]
    /\ stats' = Served(i)
    /\ pc' = [pc EXCEPT ![i] = "retry"]
    /\ UNCHANGED <<flagVars, capturePc, queue, drains, buffer, ownerPc, signalled>>

(* Variant: only a first attempt that fails is counted.                    *)
RefusedUncounted(i) ==
    /\ pc[i] \in {"produce", "retry"}
    /\ stats' = [stats EXCEPT !.failed = IF pc[i] = "retry" THEN @ ELSE @ + 1]
    /\ pc' = [pc EXCEPT ![i] = AfterProduce(i)]
    /\ UNCHANGED <<flagVars, capturePc, queue, drains, kafkaVars, ownerPc, signalled>>

(* Another error than QUEUE_FULL, or any error of the second attempt: the  *)
(* message is given up.                                                    *)
Refused(i) ==
    /\ pc[i] \in {"produce", "retry"}
    /\ stats' = [stats EXCEPT !.failed = @ + 1]
    /\ pc' = [pc EXCEPT ![i] = AfterProduce(i)]
    /\ UNCHANGED <<flagVars, capturePc, queue, drains, kafkaVars, ownerPc, signalled>>

Producer(i) ==
    GoOn(i) \/ Pop(i) \/ PopNothing(i) \/ Accepted(i) \/ QueueFull(i) \/ Refused(i)

(* librdkafka's own thread: the broker acknowledged a message, or its time *)
(* is over.                                                                *)
BrokerAnswers(i) ==
    /\ buffer[i] > 0
    /\ buffer' = [buffer EXCEPT ![i] = @ - 1]
    /\ \E outcome \in {"ok", "err"} :
          reports' = [reports EXCEPT ![i][outcome] = @ + 1]
    /\ UNCHANGED <<flagVars, capturePc, queue, prodVars, stats, ownerPc, signalled>>
----------------------------------------------------------------------------
Signal ==
    /\ ~ signalled
    /\ signalled' = TRUE
    /\ running' = FALSE
    /\ UNCHANGED <<shut, broken, capturePc, queue, prodVars, kafkaVars, stats, ownerPc>>

(* stop(): the early return, then its three steps.                         *)
Stop ==
    /\ ownerPc = "run"
    /\ ownerPc' = IF running THEN "break" ELSE "join_capture"
    /\ running' = FALSE
    /\ UNCHANGED <<shut, broken, capturePc, queue, prodVars, kafkaVars, stats, signalled>>

StopBreak ==
    /\ ownerPc = "break"
    /\ ownerPc' = "shutdown"
    /\ broken' = TRUE
    /\ UNCHANGED <<running, shut, capturePc, queue, prodVars, kafkaVars, stats, signalled>>

(* Variant: the queue is not shut down.                                    *)
StopShutdownForgotten ==
    /\ ownerPc = "shutdown"
    /\ ownerPc' = "join_capture"
    /\ UNCHANGED <<flagVars, capturePc, queue, prodVars, kafkaVars, stats, signalled>>

StopShutdown ==
    /\ ownerPc = "shutdown"
    /\ ownerPc' = "join_capture"
    /\ shut' = TRUE
    /\ UNCHANGED <<running, broken, capturePc, queue, prodVars, kafkaVars, stats, signalled>>

(* join(): the capture thread, the producers, then flush(5000) of each,    *)
(* which may time out and leave messages in the buffer.                    *)
JoinCapture ==
    /\ ownerPc = "join_capture" /\ capturePc = "exit"
    /\ ownerPc' = "join_producers"
    /\ UNCHANGED <<flagVars, capturePc, queue, prodVars, kafkaVars, stats, signalled>>

Flush ==
    /\ ownerPc = "join_producers"
    /\ \A i \in Producers : pc[i] = "exit"
    /\ ownerPc' = "done"
    /\ reports' = [i \in Producers |-> NoReports]
    /\ stats' = [stats EXCEPT !.sent = @ + MapThenSumSet(LAMBDA i : reports[i].ok, Producers),
                              !.failed = @ + MapThenSumSet(LAMBDA i : reports[i].err, Producers)]
    /\ UNCHANGED <<flagVars, capturePc, queue, prodVars, buffer, signalled>>

Stopping == StopBreak \/ StopShutdown \/ JoinCapture \/ Flush
----------------------------------------------------------------------------
Init ==
    /\ running = TRUE /\ shut = FALSE /\ broken = FALSE
    /\ capturePc = "loop"
    /\ queue = 0
    /\ pc = [i \in Producers |-> "check"]
    /\ drains = [i \in Producers |-> FALSE]
    /\ buffer = [i \in Producers |-> 0]
    /\ reports = [i \in Producers |-> NoReports]
    /\ stats = [captured |-> 0, dropped |-> 0, queued |-> 0, sent |-> 0, failed |-> 0]
    /\ ownerPc = "run"
    /\ signalled = FALSE

Next ==
    \/ Arrive \/ CaptureStep \/ LoopFails
    \/ \E i \in Producers : Producer(i) \/ BrokerAnswers(i)
    \/ Signal \/ Stop \/ Stopping

Spec == Init /\ [][Next]_vars

(* Threads are scheduled again and again; main calls stop() once it sees   *)
(* the flag cleared. Packets and the broker's answers need not come.       *)
Fairness ==
    /\ WF_vars(CaptureStep)
    /\ \A i \in Producers : WF_vars(Producer(i))
    /\ WF_vars(~ running /\ Stop)
    /\ WF_vars(Stopping)

FairSpec == Spec /\ Fairness
----------------------------------------------------------------------------
(* PROPERTIES                                                              *)

TypeOK ==
    /\ running \in BOOLEAN /\ shut \in BOOLEAN /\ broken \in BOOLEAN
    /\ capturePc \in {"loop", "push", "count", "exit"}
    /\ queue \in 0 .. QueueCapacity
    /\ pc \in [Producers -> {"check", "pop", "produce", "retry", "exit"}]
    /\ drains \in [Producers -> BOOLEAN]
    /\ buffer \in [Producers -> 0 .. KafkaCapacity]
    /\ reports \in [Producers -> [ok : 0 .. KafkaCapacity, err : 0 .. KafkaCapacity]]
    /\ stats \in [captured : 0 .. MaxPackets, dropped : 0 .. MaxPackets,
                  queued : 0 .. MaxPackets, sent : 0 .. MaxPackets,
                  failed : 0 .. MaxPackets]
    /\ ownerPc \in {"run", "break", "shutdown", "join_capture", "join_producers", "done"}
    /\ signalled \in BOOLEAN

InHand == {i \in Producers : pc[i] \in {"produce", "retry"}}

(* No packet is lost uncounted, or counted twice, on its way from pcap to  *)
(* a delivery report: retries, refusals, full queues and stop() included.  *)
EveryPacketCounted ==
    stats.captured = stats.dropped + stats.sent + stats.failed
        + (IF capturePc = "push" THEN 1 ELSE 0)
        + queue + Cardinality(InHand)
        + MapThenSumSet(InBuffer, Producers)

(* A producer leaves only when nothing is queued and nothing will be: what *)
(* the capture thread queued before stop() is offered to Kafka.            *)
NothingLeftBehind == (\E i \in Producers : pc[i] = "exit") => queue = 0

(* A stop() that finds the engine running ends in a join() that returns,   *)
(* whatever the threads were doing and even if Kafka never answers.        *)
StopJoins == ownerPc = "break" ~> ownerPc = "done"

(* "Signal handler sets running_ = false ... All threads join cleanly" is  *)
(* not what the code does: stop() then returns early (see README).         *)
SignalJoins == signalled ~> ownerPc = "done"
============================================================================
