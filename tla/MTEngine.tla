------------------------------ MODULE MTEngine ------------------------------
(***************************************************************************)
(* The second multi-threaded engine, dpi_mt.cpp. Its reader, load balancer *)
(* and fast path loops and its queue are those of DPIEngine, which this    *)
(* module extends. What differs: an FP remembers the flows it blocked and  *)
(* drops them for good; and process() ends the writer after the FPs, by a  *)
(* flag of its own (output_running, here the variable running).            *)
(***************************************************************************)
EXTENDS DPIEngine

VARIABLE blocked     \* the flows of flows_ whose entry is blocked, per FP

mtVars == <<vars, blocked>>

Front(f) == capture[Head(fpQueue[f])]

(* Variant: the flow's entry is not looked at.                             *)
MTForwardUnblocks(f) ==
    /\ FPForward(f)
    /\ UNCHANGED blocked

(* isBlocked is asked only while the flow is not blocked. What it answers, *)
(* from the rules and the classification, is a free choice.                *)
MTForward(f) ==
    /\ FPForward(f)
    /\ Front(f) \notin blocked[f]
    /\ UNCHANGED blocked

MTDrop(f) ==
    /\ FPDrop(f)
    /\ blocked' = [blocked EXCEPT ![f] = @ \cup {Front(f)}]

MTFP(f) ==
    \/ MTForward(f)
    \/ MTDrop(f)
    \/ (FPCheck(f) \/ FPTimeout(f) \/ FPPush(f)) /\ UNCHANGED blocked

(* Variant: the engine's flag is cleared before anybody is stopped.        *)
MTStopFlagFirst ==
    /\ mainPc = "wait"
    /\ readerPc = "exit"
    /\ mainPc' = "stop_lb"
    /\ stopping' = 0
    /\ running' = FALSE
    /\ UNCHANGED <<capture, readerVars, lbVars, fpVars, outVars,
                   lbRunning, fpRunning, stats, at, blocked>>

(* process: the reader has finished, 500 ms have passed.                   *)
MTStop ==
    /\ mainPc = "wait"
    /\ readerPc = "exit"
    /\ mainPc' = "stop_lb"
    /\ stopping' = 0
    /\ UNCHANGED <<capture, readerVars, lbVars, fpVars, outVars,
                   running, lbRunning, fpRunning, stats, at, blocked>>

(* After the last FP: output_running = false, output_queue_.shutdown().    *)
MTJoinFP ==
    /\ mainPc = "join_fp"
    /\ fpPc[stopping] = "exit"
    /\ IF stopping + 1 \in FPs
       THEN mainPc' = "stop_fp" /\ stopping' = stopping + 1 /\ UNCHANGED running
       ELSE mainPc' = "join_out" /\ stopping' = 0 /\ running' = FALSE
    /\ UNCHANGED <<capture, readerVars, lbVars, fpVars, outVars,
                   lbRunning, fpRunning, stats, at, blocked>>

MTMain ==
    \/ MTStop
    \/ MTJoinFP
    \/ (StopLB \/ JoinLB \/ StopFP \/ JoinOut) /\ UNCHANGED blocked

(* Variant: the writer does not look at what is left in its queue.         *)
MTWriterLeaves ==
    \/ /\ outPc = "check"
       /\ outPc' = IF running THEN "pop" ELSE "exit"
       /\ UNCHANGED <<capture, readerVars, lbVars, fpVars, outQueue, output,
                      mainVars, stats, at, blocked>>
    \/ (WriterTimeout \/ WriterWrite) /\ UNCHANGED blocked

MTWriter == Writer /\ UNCHANGED blocked

MTReader == Reader /\ UNCHANGED blocked

MTLB(l) == LB(l) /\ UNCHANGED blocked
----------------------------------------------------------------------------
MTInit == Init /\ blocked = [f \in FPs |-> {}]

MTNext ==
    \/ MTReader
    \/ \E l \in LBs : MTLB(l)
    \/ \E f \in FPs : MTFP(f)
    \/ MTWriter
    \/ MTMain

MTSpec == MTInit /\ [][MTNext]_mtVars

MTFairSpec ==
    /\ MTSpec
    /\ WF_mtVars(MTReader)
    /\ \A l \in LBs : WF_mtVars(MTLB(l))
    /\ \A f \in FPs : WF_mtVars(MTFP(f))
    /\ WF_mtVars(MTWriter)
    /\ WF_mtVars(MTMain)
----------------------------------------------------------------------------
(* PROPERTIES                                                              *)

(* Once a packet of a flow was dropped no later one is forwarded, although *)
(* the decision is the FP's and the packets come by way of two queues.     *)
BlockedForGood ==
    \A p, q \in Packets :
        p < q /\ SameFlow(p, q) /\ at[p] = "dropped"
            => at[q] \notin {"fp", "out_queue", "output"}

(* Every packet counted as forwarded is in the file when process returns.  *)
AllWritten == mainPc = "done" => Len(output) = stats.forwarded /\ outQueue = <<>>

(* process() returns: nobody waits for ever on a full queue, because each  *)
(* thread is stopped while the one it feeds still empties its queue.       *)
ProcessReturns == <>(mainPc = "done")
=============================================================================
