----------------------------- MODULE DPIEngine -----------------------------
(***************************************************************************)
(* The multi-threaded DPI engine (dpi_engine, load_balancer, fast_path and *)
(* thread_safe_queue): a reader thread hands the packets of a capture file *)
(* to load balancer (LB) threads, these to fast path (FP) threads, which   *)
(* drop a packet or put it on the output queue that a writer thread        *)
(* empties into the output file. The thread that called processFile waits  *)
(* for the reader, sleeps, and stops everybody.                            *)
(*                                                                         *)
(* One action is one critical section of a queue or one test of a loop's   *)
(* flag. What an FP decides about a packet (processPacket) is a free       *)
(* choice here; FastPath.tla says how it is made. A sleep is a step that   *)
(* may be taken at once: nothing bounds how long the other threads need.   *)
(* The state after start() is the initial one.                             *)
(***************************************************************************)
EXTENDS Naturals, Sequences, FiniteSets

CONSTANTS Tuples,         \* the five-tuples that occur in the capture file
          Hash,           \* FiveTupleHash of each of them
          NumLBs,         \* Config::num_load_balancers
          FPsPerLB,       \* Config::fps_per_lb
          QueueCapacity,  \* max_size_ of every queue (10000 in the code)
          MaxPackets,     \* bound: packets of a capture file
          Captures,       \* the capture files: the five-tuple of each packet
          Records         \* bound: the packets of each of them that are read

ASSUME EngineAssumption ==
    /\ Hash \in [Tuples -> Nat]
    /\ NumLBs \in Nat \ {0}
    /\ FPsPerLB \in Nat \ {0}
    /\ QueueCapacity \in Nat \ {0}
    /\ MaxPackets \in Nat
    /\ Captures \subseteq [1 .. MaxPackets -> Tuples]
    /\ Records \in [Captures -> Nat]

Packets == 1 .. MaxPackets
NoJob == 0
LBs == 0 .. NumLBs - 1
FPs == 0 .. (NumLBs * FPsPerLB) - 1

VARIABLES
    capture,     \* the input file: the five-tuple of each packet
    readerPc, next,                 \* reader thread; packet_id to be read next
    lbQueue, lbPc, lbJob, lbRunning,   \* each LB: input_queue_, thread, running_
    fpQueue, fpPc, fpJob, fpRunning,   \* each FP: input_queue_, thread, running_
    outQueue, outPc, output,        \* output_queue_, writer thread, output file
    running,     \* DPIEngine::running_
    mainPc, stopping,               \* processFile and stop(); loop variable of stopAll
    stats,       \* DPIStats
    at           \* history: where each packet is

readerVars == <<readerPc, next>>
lbVars == <<lbQueue, lbPc, lbJob>>
fpVars == <<fpQueue, fpPc, fpJob>>
outVars == <<outQueue, outPc, output>>
mainVars == <<running, lbRunning, fpRunning, mainPc, stopping>>
vars == <<capture, readerVars, lbVars, fpVars, outVars, mainVars, stats, at>>

(* A packet moves from left to right through the first eight places; an FP *)
(* that drops it moves it to "dropped", a push to a queue that is shut     *)
(* down to "discarded".                                                    *)
Places == {"capture", "reader", "lb_queue", "lb", "fp_queue", "fp",
           "out_queue", "output", "dropped", "discarded"}

----------------------------------------------------------------------------
(* ThreadSafeQueue: push blocks while the queue is full and open, and      *)
(* returns without having stored the item when it is shut down.            *)
CanPush(q, open) == open => Len(q) < QueueCapacity

Pushed(q, open, p) == IF open THEN Append(q, p) ELSE q

(* The two levels of flow hashing. *)
SelectLB(t) == Hash[t] % NumLBs

(* Variant: the shortest of the LB's queues instead of the flow's.         *)
SelectFPShortest(l, t) ==
    CHOOSE f \in (l * FPsPerLB) .. (l * FPsPerLB) + FPsPerLB - 1 :
        \A g \in (l * FPsPerLB) .. (l * FPsPerLB) + FPsPerLB - 1 :
            Len(fpQueue[f]) <= Len(fpQueue[g])

SelectFP(l, t) == (l * FPsPerLB) + (Hash[t] % FPsPerLB)

----------------------------------------------------------------------------
(* Reader thread. The file may end, or a record may be cut, anywhere.      *)
ReaderRead ==
    /\ readerPc = "read"
    /\ next \in Packets /\ next <= Records[capture]
    /\ readerPc' = "push"
    /\ stats' = [stats EXCEPT !.total = @ + 1]
    /\ at' = [at EXCEPT ![next] = "reader"]
    /\ UNCHANGED <<capture, next, lbVars, fpVars, outVars, mainVars>>

ReaderPush ==
    LET l == SelectLB(capture[next])
    IN  /\ readerPc = "push"
        /\ CanPush(lbQueue[l], lbRunning[l])
        /\ lbQueue' = [lbQueue EXCEPT ![l] = Pushed(@, lbRunning[l], next)]
        /\ at' = [at EXCEPT ![next] = IF lbRunning[l] THEN "lb_queue"
                                                      ELSE "discarded"]
        /\ next' = next + 1
        /\ readerPc' = "read"
        /\ UNCHANGED <<capture, lbPc, lbJob, fpVars, outVars, mainVars, stats>>

ReaderEnd ==
    /\ readerPc = "read"
    /\ readerPc' = "exit"
    /\ UNCHANGED <<capture, next, lbVars, fpVars, outVars, mainVars, stats, at>>

Reader == ReaderRead \/ ReaderPush \/ ReaderEnd
----------------------------------------------------------------------------
(* LB thread l: while (running_) { popWithTimeout; selectFP; push }        *)
LBCheck(l) ==
    /\ lbPc[l] = "check"
    /\ lbPc' = [lbPc EXCEPT ![l] = IF lbRunning[l] THEN "pop" ELSE "exit"]
    /\ UNCHANGED <<capture, readerVars, lbQueue, lbJob, fpVars, outVars,
                   mainVars, stats, at>>

LBTimeout(l) ==
    /\ lbPc[l] = "pop"
    /\ lbQueue[l] = <<>>
    /\ lbPc' = [lbPc EXCEPT ![l] = "check"]
    /\ UNCHANGED <<capture, readerVars, lbQueue, lbJob, fpVars, outVars,
                   mainVars, stats, at>>

(* Variant: the front of the queue is read and not removed.                *)
LBPopKeeps(l) ==
    /\ lbPc[l] = "pop"
    /\ lbQueue[l] # <<>>
    /\ lbJob' = [lbJob EXCEPT ![l] = Head(lbQueue[l])]
    /\ at' = [at EXCEPT ![Head(lbQueue[l])] = "lb"]
    /\ lbPc' = [lbPc EXCEPT ![l] = "push"]
    /\ UNCHANGED <<capture, readerVars, lbQueue, fpVars, outVars, mainVars, stats>>

LBPop(l) ==
    /\ lbPc[l] = "pop"
    /\ lbQueue[l] # <<>>
    /\ lbJob' = [lbJob EXCEPT ![l] = Head(lbQueue[l])]
    /\ lbQueue' = [lbQueue EXCEPT ![l] = Tail(@)]
    /\ at' = [at EXCEPT ![Head(lbQueue[l])] = "lb"]
    /\ lbPc' = [lbPc EXCEPT ![l] = "push"]
    /\ UNCHANGED <<capture, readerVars, fpVars, outVars, mainVars, stats>>

LBPush(l) ==
    LET f == SelectFP(l, capture[lbJob[l]])
    IN  /\ lbPc[l] = "push"
        /\ CanPush(fpQueue[f], fpRunning[f])
        /\ fpQueue' = [fpQueue EXCEPT ![f] = Pushed(@, fpRunning[f], lbJob[l])]
        /\ at' = [at EXCEPT ![lbJob[l]] = IF fpRunning[f] THEN "fp_queue"
                                                          ELSE "discarded"]
        /\ lbJob' = [lbJob EXCEPT ![l] = NoJob]
        /\ lbPc' = [lbPc EXCEPT ![l] = "check"]
        /\ UNCHANGED <<capture, readerVars, lbQueue, fpPc, fpJob, outVars,
                       mainVars, stats>>

LB(l) == LBCheck(l) \/ LBTimeout(l) \/ LBPop(l) \/ LBPush(l)
----------------------------------------------------------------------------
(* FP thread f: while (running_) { popWithTimeout; processPacket;          *)
(* handleOutput }. handleOutput counts the packet before it pushes it.     *)
FPCheck(f) ==
    /\ fpPc[f] = "check"
    /\ fpPc' = [fpPc EXCEPT ![f] = IF fpRunning[f] THEN "pop" ELSE "exit"]
    /\ UNCHANGED <<capture, readerVars, lbVars, fpQueue, fpJob, outVars,
                   mainVars, stats, at>>

FPTimeout(f) ==
    /\ fpPc[f] = "pop"
    /\ fpQueue[f] = <<>>
    /\ fpPc' = [fpPc EXCEPT ![f] = "check"]
    /\ UNCHANGED <<capture, readerVars, lbVars, fpQueue, fpJob, outVars,
                   mainVars, stats, at>>

(* Variant: handleOutput without the return after dropped_packets++.       *)
FPDropCountsTwice(f) ==
    /\ fpPc[f] = "pop"
    /\ fpQueue[f] # <<>>
    /\ fpQueue' = [fpQueue EXCEPT ![f] = Tail(@)]
    /\ at' = [at EXCEPT ![Head(fpQueue[f])] = "dropped"]
    /\ stats' = [stats EXCEPT !.dropped = @ + 1, !.forwarded = @ + 1]
    /\ fpPc' = [fpPc EXCEPT ![f] = "check"]
    /\ UNCHANGED <<capture, readerVars, lbVars, fpJob, outVars, mainVars>>

FPDrop(f) ==
    /\ fpPc[f] = "pop"
    /\ fpQueue[f] # <<>>
    /\ fpQueue' = [fpQueue EXCEPT ![f] = Tail(@)]
    /\ at' = [at EXCEPT ![Head(fpQueue[f])] = "dropped"]
    /\ stats' = [stats EXCEPT !.dropped = @ + 1]
    /\ fpPc' = [fpPc EXCEPT ![f] = "check"]
    /\ UNCHANGED <<capture, readerVars, lbVars, fpJob, outVars, mainVars>>

FPForward(f) ==
    /\ fpPc[f] = "pop"
    /\ fpQueue[f] # <<>>
    /\ fpJob' = [fpJob EXCEPT ![f] = Head(fpQueue[f])]
    /\ fpQueue' = [fpQueue EXCEPT ![f] = Tail(@)]
    /\ at' = [at EXCEPT ![Head(fpQueue[f])] = "fp"]
    /\ stats' = [stats EXCEPT !.forwarded = @ + 1]
    /\ fpPc' = [fpPc EXCEPT ![f] = "push"]
    /\ UNCHANGED <<capture, readerVars, lbVars, outVars, mainVars>>

(* output_queue_ is shut down after the FPs are joined: mainPc says so.    *)
OutOpen == mainPc \notin {"join_out", "done"}

(* Variant: tryPush, which gives up on a full queue.                       *)
FPTryPush(f) ==
    LET room == OutOpen /\ Len(outQueue) < QueueCapacity
    IN  /\ fpPc[f] = "push"
        /\ outQueue' = Pushed(outQueue, room, fpJob[f])
        /\ at' = [at EXCEPT ![fpJob[f]] = IF room THEN "out_queue" ELSE "discarded"]
        /\ fpJob' = [fpJob EXCEPT ![f] = NoJob]
        /\ fpPc' = [fpPc EXCEPT ![f] = "check"]
        /\ UNCHANGED <<capture, readerVars, lbVars, fpQueue, outPc, output,
                       mainVars, stats>>

FPPush(f) ==
    /\ fpPc[f] = "push"
    /\ CanPush(outQueue, OutOpen)
    /\ outQueue' = Pushed(outQueue, OutOpen, fpJob[f])
    /\ at' = [at EXCEPT ![fpJob[f]] = IF OutOpen THEN "out_queue" ELSE "discarded"]
    /\ fpJob' = [fpJob EXCEPT ![f] = NoJob]
    /\ fpPc' = [fpPc EXCEPT ![f] = "check"]
    /\ UNCHANGED <<capture, readerVars, lbVars, fpQueue, outPc, output,
                   mainVars, stats>>

FP(f) == FPCheck(f) \/ FPTimeout(f) \/ FPDrop(f) \/ FPForward(f) \/ FPPush(f)
----------------------------------------------------------------------------
(* Writer thread: while (running_ || !output_queue_.empty()).              *)
WriterGoesOn == running \/ outQueue # <<>>

WriterCheck ==
    /\ outPc = "check"
    /\ outPc' = IF WriterGoesOn THEN "pop" ELSE "exit"
    /\ UNCHANGED <<capture, readerVars, lbVars, fpVars, outQueue, output,
                   mainVars, stats, at>>

(* Variant: the loop ends at the first timeout.                            *)
WriterTimeoutExits ==
    /\ outPc = "pop"
    /\ outQueue = <<>>
    /\ outPc' = "exit"
    /\ UNCHANGED <<capture, readerVars, lbVars, fpVars, outQueue, output,
                   mainVars, stats, at>>

WriterTimeout ==
    /\ outPc = "pop"
    /\ outQueue = <<>>
    /\ outPc' = "check"
    /\ UNCHANGED <<capture, readerVars, lbVars, fpVars, outQueue, output,
                   mainVars, stats, at>>

(* Variant: the packet written stays at the front of the queue.            *)
WriterWriteKeeps ==
    /\ outPc = "pop"
    /\ outQueue # <<>>
    /\ output' = Append(output, Head(outQueue))
    /\ at' = [at EXCEPT ![Head(outQueue)] = "output"]
    /\ outPc' = "check"
    /\ UNCHANGED <<capture, readerVars, lbVars, fpVars, outQueue, mainVars, stats>>

WriterWrite ==
    /\ outPc = "pop"
    /\ outQueue # <<>>
    /\ output' = Append(output, Head(outQueue))
    /\ outQueue' = Tail(outQueue)
    /\ at' = [at EXCEPT ![Head(outQueue)] = "output"]
    /\ outPc' = "check"
    /\ UNCHANGED <<capture, readerVars, lbVars, fpVars, mainVars, stats>>

Writer == WriterCheck \/ WriterTimeout \/ WriterWrite
----------------------------------------------------------------------------
(* processFile: join the reader, sleep twice, then stop(), which clears    *)
(* the engine's flag first and then stops and joins LB after LB, FP after  *)
(* FP and the writer. Stopping a thread clears its running_ and shuts its  *)
(* input queue down.                                                       *)
MainStop ==
    /\ mainPc = "wait"
    /\ readerPc = "exit"
    /\ running' = FALSE
    /\ mainPc' = "stop_lb"
    /\ stopping' = 0
    /\ UNCHANGED <<capture, readerVars, lbVars, fpVars, outVars,
                   lbRunning, fpRunning, stats, at>>

StopLB ==
    /\ mainPc = "stop_lb"
    /\ lbRunning' = [lbRunning EXCEPT ![stopping] = FALSE]
    /\ mainPc' = "join_lb"
    /\ UNCHANGED <<capture, readerVars, lbVars, fpVars, outVars,
                   running, fpRunning, stopping, stats, at>>

(* Variant: stopAll goes on without having joined the LB thread.           *)
JoinLBSkipped ==
    /\ mainPc = "join_lb"
    /\ IF stopping + 1 \in LBs
       THEN mainPc' = "stop_lb" /\ stopping' = stopping + 1
       ELSE mainPc' = "stop_fp" /\ stopping' = 0
    /\ UNCHANGED <<capture, readerVars, lbVars, fpVars, outVars,
                   running, lbRunning, fpRunning, stats, at>>

JoinLB ==
    /\ mainPc = "join_lb"
    /\ lbPc[stopping] = "exit"
    /\ IF stopping + 1 \in LBs
       THEN mainPc' = "stop_lb" /\ stopping' = stopping + 1
       ELSE mainPc' = "stop_fp" /\ stopping' = 0
    /\ UNCHANGED <<capture, readerVars, lbVars, fpVars, outVars,
                   running, lbRunning, fpRunning, stats, at>>

StopFP ==
    /\ mainPc = "stop_fp"
    /\ fpRunning' = [fpRunning EXCEPT ![stopping] = FALSE]
    /\ mainPc' = "join_fp"
    /\ UNCHANGED <<capture, readerVars, lbVars, fpVars, outVars,
                   running, lbRunning, stopping, stats, at>>

(* Variant: one FP too many is stopped.                                    *)
JoinFPOneMore ==
    /\ mainPc = "join_fp"
    /\ fpPc[stopping] = "exit"
    /\ IF stopping \in FPs
       THEN mainPc' = "stop_fp" /\ stopping' = stopping + 1
       ELSE mainPc' = "join_out" /\ stopping' = 0
    /\ UNCHANGED <<capture, readerVars, lbVars, fpVars, outVars,
                   running, lbRunning, fpRunning, stats, at>>

JoinFP ==
    /\ mainPc = "join_fp"
    /\ fpPc[stopping] = "exit"
    /\ IF stopping + 1 \in FPs
       THEN mainPc' = "stop_fp" /\ stopping' = stopping + 1
       ELSE mainPc' = "join_out" /\ stopping' = 0
    /\ UNCHANGED <<capture, readerVars, lbVars, fpVars, outVars,
                   running, lbRunning, fpRunning, stats, at>>

JoinOut ==
    /\ mainPc = "join_out"
    /\ outPc = "exit"
    /\ mainPc' = "done"
    /\ UNCHANGED <<capture, readerVars, lbVars, fpVars, outVars,
                   running, lbRunning, fpRunning, stopping, stats, at>>

Main == MainStop \/ StopLB \/ JoinLB \/ StopFP \/ JoinFP \/ JoinOut
----------------------------------------------------------------------------
Init ==
    /\ capture \in Captures
    /\ readerPc = "read"
    /\ next = 1
    /\ lbQueue = [l \in LBs |-> <<>>]
    /\ lbPc = [l \in LBs |-> "check"]
    /\ lbJob = [l \in LBs |-> NoJob]
    /\ lbRunning = [l \in LBs |-> TRUE]
    /\ fpQueue = [f \in FPs |-> <<>>]
    /\ fpPc = [f \in FPs |-> "check"]
    /\ fpJob = [f \in FPs |-> NoJob]
    /\ fpRunning = [f \in FPs |-> TRUE]
    /\ outQueue = <<>>
    /\ outPc = "check"
    /\ output = <<>>
    /\ running = TRUE
    /\ mainPc = "wait"
    /\ stopping = 0
    /\ stats = [total |-> 0, forwarded |-> 0, dropped |-> 0]
    /\ at = [p \in Packets |-> "capture"]

Next ==
    \/ Reader
    \/ \E l \in LBs : LB(l)
    \/ \E f \in FPs : FP(f)
    \/ Writer
    \/ Main

Spec == Init /\ [][Next]_vars

(* Every thread is scheduled again and again.                              *)
Fairness ==
    /\ WF_vars(Reader)
    /\ \A l \in LBs : WF_vars(LB(l))
    /\ \A f \in FPs : WF_vars(FP(f))
    /\ WF_vars(Writer)
    /\ WF_vars(Main)

FairSpec == Spec /\ Fairness
----------------------------------------------------------------------------
(* PROPERTIES                                                              *)

TypeOK ==
    /\ capture \in [Packets -> Tuples]
    /\ readerPc \in {"read", "push", "exit"}
    /\ next \in 1 .. MaxPackets + 1
    /\ lbQueue \in [LBs -> Seq(Packets)]
    /\ lbPc \in [LBs -> {"check", "pop", "push", "exit"}]
    /\ lbJob \in [LBs -> Packets \cup {NoJob}]
    /\ lbRunning \in [LBs -> BOOLEAN]
    /\ fpQueue \in [FPs -> Seq(Packets)]
    /\ fpPc \in [FPs -> {"check", "pop", "push", "exit"}]
    /\ fpJob \in [FPs -> Packets \cup {NoJob}]
    /\ fpRunning \in [FPs -> BOOLEAN]
    /\ outQueue \in Seq(Packets)
    /\ outPc \in {"check", "pop", "exit"}
    /\ output \in Seq(Packets)
    /\ running \in BOOLEAN
    /\ mainPc \in {"wait", "stop_lb", "join_lb", "stop_fp", "join_fp",
                   "join_out", "done"}
    /\ stopping \in Nat
    /\ mainPc \in {"stop_lb", "join_lb"} => stopping \in LBs
    /\ mainPc \in {"stop_fp", "join_fp"} => stopping \in FPs
    /\ stats \in [total : Nat, forwarded : Nat, dropped : Nat]
    /\ at \in [Packets -> Places]

SameFlow(p, q) == capture[p] = capture[q]

FlowSorted(q) ==
    \A i, j \in 1 .. Len(q) : i < j /\ SameFlow(q[i], q[j]) => q[i] < q[j]

(* "All packets of a flow go to the same FP" exists for this: the packets  *)
(* of a flow reach the output file in the order of the capture file, and   *)
(* none of them twice, however the threads are scheduled and whenever      *)
(* stop() arrives.                                                         *)
FlowOrder == FlowSorted(output)

(* stop() abandons whatever is still queued. What it abandons of a flow is *)
(* always the end: a packet is in the output file only if every earlier    *)
(* packet of its flow is there too or was dropped by an FP.                *)
NoGapInFlow ==
    \A p, q \in Packets :
        p < q /\ SameFlow(p, q) /\ at[q] = "output"
            => at[p] \in {"output", "dropped"}

Holds(q, p) == \E i \in 1 .. Len(q) : q[i] = p

LBOf(p) == SelectLB(capture[p])
FPOf(p) == SelectFP(LBOf(p), capture[p])

ReaderAgrees(p) ==
    /\ at[p] = "capture" <=> p > next \/ (p = next /\ readerPc # "push")
    /\ at[p] = "reader" <=> p = next /\ readerPc = "push"

LBsAgree(p) ==
    \A l \in LBs : /\ Holds(lbQueue[l], p) <=> l = LBOf(p) /\ at[p] = "lb_queue"
                   /\ lbJob[l] = p <=> l = LBOf(p) /\ at[p] = "lb"

FPsAgree(p) ==
    \A f \in FPs : /\ Holds(fpQueue[f], p) <=> f = FPOf(p) /\ at[p] = "fp_queue"
                   /\ fpJob[f] = p <=> f = FPOf(p) /\ at[p] = "fp"

OutAgrees(p) ==
    /\ Holds(outQueue, p) <=> at[p] = "out_queue"
    /\ Holds(output, p) <=> at[p] = "output"

(* No packet vanishes or is copied between two threads: it is exactly      *)
(* where its history says, in the queue or the hands of the LB and the FP  *)
(* its hash selects.                                                       *)
EachPacketInOnePlace ==
    \A p \in Packets :
        ReaderAgrees(p) /\ LBsAgree(p) /\ FPsAgree(p) /\ OutAgrees(p)

(* push() silently drops its item once the queue is shut down. The order   *)
(* in which stop() takes the threads down (each producer is joined before  *)
(* the queue it feeds is shut down) keeps that from ever happening.        *)
NothingDiscarded == \A p \in Packets : at[p] # "discarded"

(* The final report: what total exceeds forwarded + dropped by is exactly  *)
(* what stop() left in the input queues of the LBs and FPs, and a packet   *)
(* counted as forwarded is in the file or was left in the output queue.    *)
ReportAddsUp ==
    mainPc = "done" =>
        /\ stats.total = stats.forwarded + stats.dropped
             + Cardinality({p \in Packets : at[p] \in {"lb_queue", "fp_queue"}})
        /\ stats.forwarded = Len(output) + Len(outQueue)

(* Back-pressure never blocks the pipeline for good while the engine runs: *)
(* the reader gets rid of every packet of the file, also when there are    *)
(* more of them than all queues and threads up to the writer can hold.     *)
ReaderFinishes == <>(readerPc = "exit")

(* The engine implements the filter of FlowFilter.tla.                     *)
Verdict(place) ==
    CASE place \in {"fp", "out_queue", "output", "discarded"} -> "FORWARD"
      [] place = "dropped" -> "DROP"
      [] OTHER -> "none"

Filter == INSTANCE FlowFilter
              WITH verdict <- [p \in Packets |-> Verdict(at[p])]

FilterSpec == Filter!Spec

(* What the code's documentation says of the end of a run and the code     *)
(* does not do (see README): "Stop the engine (stops all threads)", with   *)
(* every packet counted as forwarded in the file ("Output PCAP (forwarded  *)
(* traffic)").                                                             *)
StopDelivers ==
    (mainPc = "stop_lb") ~> (mainPc = "done" /\ Len(output) = stats.forwarded)
============================================================================
