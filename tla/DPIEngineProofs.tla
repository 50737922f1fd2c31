-------------------------- MODULE DPIEngineProofs --------------------------
(***************************************************************************)
(* Theorems about DPIEngine and MTEngine, for any number of packets, flows, *)
(* threads and any queue capacity: the order of the packets and the stop of *)
(* the engine; the counters of its report; dpi_mt.                         *)
(***************************************************************************)
EXTENDS MTEngine, SequenceTheorems, FiniteSetTheorems, TLAPS

----------------------------------------------------------------------------
(* Hashing selects an existing LB and an existing FP. *)

LEMMA IndexInGrid ==
    ASSUME NEW L \in Nat \ {0}, NEW F \in Nat \ {0},
           NEW l \in 0 .. L - 1, NEW r \in 0 .. F - 1
    PROVE  (l * F) + r \in 0 .. (L * F) - 1
<1>1. l * F \in Nat /\ L * F \in Nat
  OBVIOUS
<1>2. (L - 1 - l) * F >= 0
  OBVIOUS
<1>3. (L - 1 - l) * F = (L * F) - F - (l * F)
  OBVIOUS
<1> QED BY <1>1, <1>2, <1>3

LEMMA SelectLBType ==
    ASSUME NEW t \in Tuples
    PROVE  SelectLB(t) \in LBs
BY EngineAssumption DEF SelectLB, LBs

LEMMA SelectFPType ==
    ASSUME NEW t \in Tuples, NEW l \in LBs
    PROVE  SelectFP(l, t) \in FPs
<1>1. Hash[t] % FPsPerLB \in 0 .. FPsPerLB - 1
  BY EngineAssumption
<1> QED BY <1>1, IndexInGrid, EngineAssumption DEF SelectFP, LBs, FPs

LEMMA GridTypes == NumLBs \in Nat \ {0} /\ FPsPerLB \in Nat \ {0}
BY EngineAssumption

LEMMA FirstThreads == 0 \in LBs /\ 0 \in FPs
BY IndexInGrid, GridTypes DEF LBs, FPs

LEMMA CaptureType == Init => capture \in [Packets -> Tuples]
BY EngineAssumption DEF Init, Packets

----------------------------------------------------------------------------
(* Type correctness. A thread has a job in its hands exactly while it is   *)
(* about to push it.                                                       *)

HandsBusy ==
    /\ readerPc = "push" => next \in Packets
    /\ \A l \in LBs : lbPc[l] = "push" <=> lbJob[l] \in Packets
    /\ \A f \in FPs : fpPc[f] = "push" <=> fpJob[f] \in Packets

TypeInv == TypeOK /\ HandsBusy

LEMMA PushedType ==
    ASSUME NEW q \in Seq(Packets), NEW p \in Packets, NEW open \in BOOLEAN
    PROVE  Pushed(q, open, p) \in Seq(Packets)
BY DEF Pushed

LEMMA FrontType ==
    ASSUME NEW q \in Seq(Packets), q # <<>>
    PROVE  Head(q) \in Packets /\ Tail(q) \in Seq(Packets)
OBVIOUS

LEMMA CountType ==
    ASSUME NEW s \in [total : Nat, forwarded : Nat, dropped : Nat]
    PROVE  /\ [s EXCEPT !.total = @ + 1] \in [total : Nat, forwarded : Nat, dropped : Nat]
           /\ [s EXCEPT !.forwarded = @ + 1] \in [total : Nat, forwarded : Nat, dropped : Nat]
           /\ [s EXCEPT !.dropped = @ + 1] \in [total : Nat, forwarded : Nat, dropped : Nat]
OBVIOUS

LEMMA InitTypeInv == Init => TypeInv
BY FirstThreads, EngineAssumption
   DEF Init, TypeInv, TypeOK, HandsBusy, Packets, Places, NoJob

(* Every step preserves TypeInv. *)
LEMMA StepTypeInv == TypeInv /\ [Next]_vars => TypeInv'
<1> SUFFICES ASSUME TypeInv, [Next]_vars PROVE TypeInv'
  OBVIOUS
<1> USE DEF TypeInv, HandsBusy, TypeOK
<1>1. CASE Reader
  <2>1. CASE ReaderRead
    <3>1. stats' \in [total : Nat, forwarded : Nat, dropped : Nat]
      BY <2>1, CountType DEF ReaderRead
    <3>2. at' \in [Packets -> Places]
      BY <2>1 DEF ReaderRead, Places
    <3> QED BY <2>1, <3>1, <3>2 DEF ReaderRead, lbVars, fpVars, outVars, mainVars
  <2>2. CASE ReaderPush
    <3> DEFINE l == SelectLB(capture[next])
    <3>1. next \in Packets /\ l \in LBs
      BY <2>2, SelectLBType DEF ReaderPush
    <3>2. Pushed(lbQueue[l], lbRunning[l], next) \in Seq(Packets)
      BY <3>1, PushedType
    <3>3. lbQueue' \in [LBs -> Seq(Packets)]
      BY <2>2, <3>1, <3>2 DEF ReaderPush
    <3>4. next' \in 1 .. MaxPackets + 1
      BY <2>2, <3>1, EngineAssumption DEF ReaderPush, Packets
    <3> HIDE DEF l
    <3>5. at' \in [Packets -> Places]
      BY <2>2, <3>1 DEF ReaderPush, Places
    <3> QED BY <2>2, <3>3, <3>4, <3>5 DEF ReaderPush, fpVars, outVars, mainVars
  <2>3. CASE ReaderEnd
    BY <2>3 DEF ReaderEnd, lbVars, fpVars, outVars, mainVars
  <2> QED BY <1>1, <2>1, <2>2, <2>3 DEF Reader
<1>2. ASSUME NEW l \in LBs, LB(l) PROVE TypeInv'
  <2>1. CASE LBCheck(l)
    BY <2>1 DEF LBCheck, readerVars, fpVars, outVars, mainVars
  <2>2. CASE LBTimeout(l)
    BY <2>2 DEF LBTimeout, readerVars, fpVars, outVars, mainVars
  <2>3. CASE LBPop(l)
    <3>1. Head(lbQueue[l]) \in Packets /\ Tail(lbQueue[l]) \in Seq(Packets)
      BY <2>3, FrontType DEF LBPop
    <3> QED BY <2>3, <3>1 DEF LBPop, readerVars, fpVars, outVars, mainVars, Places
  <2>4. CASE LBPush(l)
    <3> DEFINE f == SelectFP(l, capture[lbJob[l]])
    <3>1. lbJob[l] \in Packets /\ f \in FPs
      BY <2>4, SelectFPType DEF LBPush
    <3>2. Pushed(fpQueue[f], fpRunning[f], lbJob[l]) \in Seq(Packets)
      BY <3>1, PushedType
    <3>3. fpQueue' \in [FPs -> Seq(Packets)]
      BY <2>4, <3>1, <3>2 DEF LBPush
    <3> HIDE DEF f
    <3>4. at' \in [Packets -> Places]
      BY <2>4, <3>1 DEF LBPush, Places
    <3> QED BY <2>4, <3>3, <3>4
            DEF LBPush, readerVars, outVars, mainVars, NoJob, Packets
  <2> QED BY <1>2, <2>1, <2>2, <2>3, <2>4 DEF LB
<1>3. ASSUME NEW f \in FPs, FP(f) PROVE TypeInv'
  <2>1. CASE FPCheck(f)
    BY <2>1 DEF FPCheck, readerVars, lbVars, outVars, mainVars
  <2>2. CASE FPTimeout(f)
    BY <2>2 DEF FPTimeout, readerVars, lbVars, outVars, mainVars
  <2>3. CASE FPDrop(f)
    <3>1. Head(fpQueue[f]) \in Packets /\ Tail(fpQueue[f]) \in Seq(Packets)
      BY <2>3, FrontType DEF FPDrop
    <3>2. stats' \in [total : Nat, forwarded : Nat, dropped : Nat]
      BY <2>3, CountType DEF FPDrop
    <3>3. at' \in [Packets -> Places]
      BY <2>3, <3>1 DEF FPDrop, Places
    <3> QED BY <2>3, <3>1, <3>2, <3>3 DEF FPDrop, readerVars, lbVars, outVars, mainVars
  <2>4. CASE FPForward(f)
    <3>1. Head(fpQueue[f]) \in Packets /\ Tail(fpQueue[f]) \in Seq(Packets)
      BY <2>4, FrontType DEF FPForward
    <3>2. stats' \in [total : Nat, forwarded : Nat, dropped : Nat]
      BY <2>4, CountType DEF FPForward
    <3>3. at' \in [Packets -> Places]
      BY <2>4, <3>1 DEF FPForward, Places
    <3> QED BY <2>4, <3>1, <3>2, <3>3 DEF FPForward, readerVars, lbVars, outVars, mainVars
  <2>5. CASE FPPush(f)
    <3>1. fpJob[f] \in Packets
      BY <2>5 DEF FPPush
    <3>2. outQueue' \in Seq(Packets)
      BY <2>5, <3>1, PushedType DEF FPPush, OutOpen
    <3>3. at' \in [Packets -> Places]
      BY <2>5, <3>1 DEF FPPush, Places
    <3> QED BY <2>5, <3>2, <3>3
            DEF FPPush, readerVars, lbVars, mainVars, NoJob, Packets
  <2> QED BY <1>3, <2>1, <2>2, <2>3, <2>4, <2>5 DEF FP
<1>4. CASE Writer
  <2>1. CASE WriterCheck
    BY <2>1 DEF WriterCheck, readerVars, lbVars, fpVars, mainVars
  <2>2. CASE WriterTimeout
    BY <2>2 DEF WriterTimeout, readerVars, lbVars, fpVars, mainVars
  <2>3. CASE WriterWrite
    <3>1. Head(outQueue) \in Packets /\ Tail(outQueue) \in Seq(Packets)
      BY <2>3, FrontType DEF WriterWrite
    <3> QED BY <2>3, <3>1 DEF WriterWrite, readerVars, lbVars, fpVars, mainVars, Places
  <2> QED BY <1>4, <2>1, <2>2, <2>3 DEF Writer
<1>5. CASE Main
  <2> USE <1>5, FirstThreads DEF readerVars, lbVars, fpVars, outVars, LBs, FPs
  <2>1. CASE MainStop
    BY <2>1 DEF MainStop
  <2>2. CASE StopLB
    BY <2>2 DEF StopLB
  <2>3. CASE JoinLB
    BY <2>3 DEF JoinLB
  <2>4. CASE StopFP
    BY <2>4 DEF StopFP
  <2>5. CASE JoinFP
    BY <2>5 DEF JoinFP
  <2>6. CASE JoinOut
    BY <2>6 DEF JoinOut
  <2> QED BY <2>1, <2>2, <2>3, <2>4, <2>5, <2>6 DEF Main
<1>6. CASE UNCHANGED vars
  BY <1>6 DEF vars, readerVars, lbVars, fpVars, outVars, mainVars
<1> QED BY <1>1, <1>2, <1>3, <1>4, <1>5, <1>6 DEF Next

(* Type correctness of every reachable state. *)
THEOREM TypeCorrect == Spec => []TypeOK
<1>1. TypeInv => TypeOK
  BY DEF TypeInv
<1> QED BY <1>1, InitTypeInv, StepTypeInv, PTL DEF Spec

----------------------------------------------------------------------------
(* stop() clears a thread's flag only after it has joined every thread     *)
(* that feeds this one.                                                    *)

StopOrder ==
    /\ readerPc # "exit" => mainPc = "wait"
    /\ mainPc = "wait" => \A l \in LBs : lbRunning[l]
    /\ mainPc \in {"wait", "stop_lb", "join_lb"} => \A f \in FPs : fpRunning[f]
    /\ mainPc \in {"stop_lb", "join_lb"} =>
          \A l \in LBs : l < stopping => lbPc[l] = "exit"
    /\ mainPc \notin {"wait", "stop_lb", "join_lb"} => \A l \in LBs : lbPc[l] = "exit"
    /\ mainPc \in {"stop_fp", "join_fp"} =>
          \A f \in FPs : f < stopping => fpPc[f] = "exit"
    /\ mainPc \in {"join_out", "done"} => \A f \in FPs : fpPc[f] = "exit"

LEMMA InitStopOrder == Init => StopOrder
BY DEF Init, StopOrder

LEMMA StepStopOrder == TypeInv /\ StopOrder /\ [Next]_vars => StopOrder'
<1> SUFFICES ASSUME TypeInv, StopOrder, [Next]_vars PROVE StopOrder'
  OBVIOUS
<1> USE DEF StopOrder, TypeInv, TypeOK
<1>1. CASE Reader
  BY <1>1 DEF Reader, ReaderRead, ReaderPush, ReaderEnd, lbVars, fpVars, mainVars
<1>2. ASSUME NEW l \in LBs, LB(l) PROVE StopOrder'
  BY <1>2 DEF LB, LBCheck, LBTimeout, LBPop, LBPush, readerVars, fpVars, mainVars
<1>3. ASSUME NEW f \in FPs, FP(f) PROVE StopOrder'
  BY <1>3 DEF FP, FPCheck, FPTimeout, FPDrop, FPForward, FPPush,
              readerVars, lbVars, mainVars
<1>4. CASE Writer
  BY <1>4 DEF Writer, WriterCheck, WriterTimeout, WriterWrite,
              readerVars, lbVars, fpVars, mainVars
<1>5. CASE Main
  <2> USE <1>5 DEF readerVars, lbVars, fpVars, LBs, FPs
  <2>1. CASE MainStop
    BY <2>1 DEF MainStop
  <2>2. CASE StopLB
    BY <2>2 DEF StopLB
  <2>3. CASE JoinLB
    <3>1. \A k \in LBs : k < stopping + 1 => lbPc[k] = "exit"
      BY <2>3 DEF JoinLB
    <3>2. CASE stopping + 1 \in LBs
      BY <2>3, <3>1, <3>2 DEF JoinLB
    <3>3. CASE stopping + 1 \notin LBs
      <4>1. \A k \in LBs : lbPc[k] = "exit"
        BY <2>3, <3>1, <3>3, EngineAssumption DEF JoinLB
      <4> QED BY <2>3, <3>3, <4>1 DEF JoinLB
    <3> QED BY <3>2, <3>3
  <2>4. CASE StopFP
    BY <2>4 DEF StopFP
  <2>5. CASE JoinFP
    <3>1. \A k \in FPs : k < stopping + 1 => fpPc[k] = "exit"
      BY <2>5 DEF JoinFP
    <3>2. CASE stopping + 1 \in FPs
      BY <2>5, <3>1, <3>2 DEF JoinFP
    <3>3. CASE stopping + 1 \notin FPs
      <4>1. \A k \in FPs : fpPc[k] = "exit"
        BY <2>5, <3>1, <3>3, EngineAssumption DEF JoinFP
      <4> QED BY <2>5, <3>3, <4>1 DEF JoinFP
    <3> QED BY <3>2, <3>3
  <2>6. CASE JoinOut
    BY <2>6 DEF JoinOut
  <2> QED BY <2>1, <2>2, <2>3, <2>4, <2>5, <2>6 DEF Main
<1>6. CASE UNCHANGED vars
  BY <1>6 DEF vars, readerVars, lbVars, fpVars, mainVars
<1> QED BY <1>1, <1>2, <1>3, <1>4, <1>5, <1>6 DEF Next

(* Nobody pushes to a queue that is shut down. *)
LEMMA QueuesOpen ==
    ASSUME TypeInv, StopOrder
    PROVE  /\ readerPc = "push" => \A l \in LBs : lbRunning[l]
           /\ \A l \in LBs : lbPc[l] = "push" => \A f \in FPs : fpRunning[f]
           /\ \A f \in FPs : fpPc[f] = "push" => OutOpen
BY DEF TypeInv, TypeOK, StopOrder, OutOpen

----------------------------------------------------------------------------
(* Lemmas about sequences of packets. *)

LEMMA HoldsAppend ==
    ASSUME NEW q \in Seq(Packets), NEW x \in Packets, NEW p \in Packets
    PROVE  Holds(Append(q, x), p) <=> Holds(q, p) \/ p = x
<1>1. ASSUME Holds(Append(q, x), p) PROVE Holds(q, p) \/ p = x
  BY <1>1 DEF Holds
<1>2. ASSUME Holds(q, p) PROVE Holds(Append(q, x), p)
  BY <1>2 DEF Holds
<1>3. ASSUME p = x PROVE Holds(Append(q, x), p)
  <2>1. Len(q) + 1 \in 1 .. Len(Append(q, x)) /\ Append(q, x)[Len(q) + 1] = x
    OBVIOUS
  <2> QED BY <1>3, <2>1 DEF Holds
<1> QED BY <1>1, <1>2, <1>3

LEMMA HoldsFront ==
    ASSUME NEW q \in Seq(Packets), q # <<>>
    PROVE  Holds(q, Head(q))
BY DEF Holds

LEMMA HoldsTail ==
    ASSUME capture \in [Packets -> Tuples],
           NEW q \in Seq(Packets), q # <<>>, FlowSorted(q), NEW p \in Packets
    PROVE  Holds(Tail(q), p) <=> Holds(q, p) /\ p # Head(q)
<1>1. ASSUME Holds(Tail(q), p) PROVE Holds(q, p) /\ p # Head(q)
  <2>1. PICK i \in 1 .. Len(Tail(q)) : Tail(q)[i] = p
    BY <1>1 DEF Holds
  <2>2. i + 1 \in 1 .. Len(q) /\ q[i + 1] = p /\ 1 \in 1 .. Len(q) /\ 1 < i + 1
    BY <2>1
  <2>3. q[1] = p => q[1] < q[i + 1]
    BY <2>2 DEF FlowSorted, SameFlow
  <2>4. q[1] # p
    BY <2>2, <2>3 DEF Packets
  <2> QED BY <2>2, <2>4 DEF Holds
<1>2. ASSUME Holds(q, p), p # Head(q) PROVE Holds(Tail(q), p)
  <2>1. PICK i \in 1 .. Len(q) : q[i] = p
    BY <1>2 DEF Holds
  <2>2. i # 1
    BY <2>1, <1>2
  <2>3. i - 1 \in 1 .. Len(Tail(q)) /\ Tail(q)[i - 1] = p
    BY <2>1, <2>2
  <2> QED BY <2>3 DEF Holds
<1> QED BY <1>1, <1>2

LEMMA SortedAppend ==
    ASSUME NEW q \in Seq(Packets), FlowSorted(q), NEW x \in Packets,
           \A y \in Packets : Holds(q, y) /\ SameFlow(y, x) => y < x
    PROVE  FlowSorted(Append(q, x))
<1> SUFFICES ASSUME NEW i \in 1 .. Len(Append(q, x)), NEW j \in 1 .. Len(Append(q, x)),
                    i < j, SameFlow(Append(q, x)[i], Append(q, x)[j])
             PROVE  Append(q, x)[i] < Append(q, x)[j]
  BY DEF FlowSorted
<1>1. i \in 1 .. Len(q) /\ Append(q, x)[i] = q[i] /\ q[i] \in Packets
  OBVIOUS
<1>2. CASE j \in 1 .. Len(q)
  BY <1>1, <1>2 DEF FlowSorted
<1>3. CASE j = Len(q) + 1
  BY <1>1, <1>3 DEF Holds
<1> QED BY <1>2, <1>3

LEMMA SortedTail ==
    ASSUME NEW q \in Seq(Packets), q # <<>>, FlowSorted(q)
    PROVE  FlowSorted(Tail(q))
BY DEF FlowSorted

LEMMA FrontIsFirst ==
    ASSUME NEW q \in Seq(Packets), q # <<>>, FlowSorted(q),
           NEW p \in Packets, Holds(q, p), SameFlow(p, Head(q))
    PROVE  ~ (p < Head(q))
<1>1. PICK i \in 1 .. Len(q) : q[i] = p
  BY DEF Holds
<1>2. Head(q) = q[1] /\ 1 \in 1 .. Len(q) /\ Head(q) \in Packets
  OBVIOUS
<1> QED BY <1>1, <1>2 DEF FlowSorted, SameFlow, Packets

----------------------------------------------------------------------------
(* The inductive invariant. Ahead is its heart: of two packets of one flow *)
(* the earlier one is at least as far down the pipeline as the later one.  *)
(* A packet that was dropped never stands in the way of a later one        *)
(* (Stage); as the later one it left the FP after the earlier one (Passed).*)

Stage(place) ==
    CASE place = "capture"   -> 0
      [] place = "reader"    -> 1
      [] place = "lb_queue"  -> 2
      [] place = "lb"        -> 3
      [] place = "fp_queue"  -> 4
      [] place = "fp"        -> 5
      [] place = "out_queue" -> 6
      [] place = "output"    -> 7
      [] OTHER               -> 8

Passed(place) == IF place = "dropped" THEN 6 ELSE Stage(place)

Ahead ==
    \A p, q \in Packets :
        p < q /\ SameFlow(p, q) => Stage(at[p]) >= Passed(at[q])

QueuesSorted ==
    /\ \A l \in LBs : FlowSorted(lbQueue[l])
    /\ \A f \in FPs : FlowSorted(fpQueue[f])
    /\ FlowSorted(outQueue)
    /\ FlowSorted(output)

DataInv == EachPacketInOnePlace /\ NothingDiscarded /\ QueuesSorted /\ Ahead

IInv == TypeInv /\ StopOrder /\ DataInv

LEMMA InitDataInv == Init => DataInv
<1> SUFFICES ASSUME Init PROVE DataInv
  OBVIOUS
<1>1. capture \in [Packets -> Tuples] /\ \A p \in Packets : LBOf(p) \in LBs /\ FPOf(p) \in FPs
  BY CaptureType, SelectLBType, SelectFPType DEF LBOf, FPOf
<1>2. EachPacketInOnePlace
  BY <1>1 DEF Init, EachPacketInOnePlace, ReaderAgrees, LBsAgree, FPsAgree,
              OutAgrees, Holds, Packets, NoJob
<1>3. NothingDiscarded
  BY DEF Init, NothingDiscarded
<1>4. QueuesSorted
  BY DEF Init, QueuesSorted, FlowSorted
<1>5. Ahead
  BY DEF Init, Ahead, Stage, Passed
<1> QED BY <1>2, <1>3, <1>4, <1>5 DEF DataInv

(* A step that moves no packet. *)
LEMMA NothingMoves ==
    ASSUME DataInv, readerPc' = "push" <=> readerPc = "push",
           UNCHANGED <<capture, next, lbQueue, lbJob, fpQueue, fpJob, outQueue, output, at>>
    PROVE  DataInv'
<1>1. EachPacketInOnePlace'
  BY DEF DataInv, EachPacketInOnePlace, ReaderAgrees, LBsAgree, FPsAgree, OutAgrees,
         Holds, LBOf, FPOf
<1>2. NothingDiscarded' /\ QueuesSorted' /\ Ahead'
  BY DEF DataInv, NothingDiscarded, QueuesSorted, FlowSorted, Ahead, SameFlow
<1> QED BY <1>1, <1>2 DEF DataInv

(* A packet may move on when the earlier packets of its flow are further.  *)
LEMMA AheadMove ==
    ASSUME at \in [Packets -> Places], Ahead, capture' = capture,
           NEW x \in Packets, NEW to \in Places, at' = [at EXCEPT ![x] = to],
           Stage(to) >= Stage(at[x]),
           \A p \in Packets : p < x /\ capture[p] = capture[x] => Stage(at[p]) >= Passed(to)
    PROVE  Ahead'
<1> SUFFICES ASSUME NEW p \in Packets, NEW q \in Packets, p < q, SameFlow(p, q)
             PROVE  Stage(at'[p]) >= Passed(at'[q])
  BY DEF Ahead, SameFlow
<1>1. \A pl \in Places : Stage(pl) \in Nat /\ Passed(pl) \in Nat
  BY DEF Places, Stage, Passed
<1>2. Stage(at[p]) >= Passed(at[q])
  BY DEF Ahead
<1>3. CASE p = x
  <2>1. at'[p] = to /\ at'[q] = at[q]
    BY <1>3 DEF Packets
  <2> QED BY <1>1, <1>2, <1>3, <2>1
<1>4. CASE q = x
  <2>1. at'[q] = to /\ at'[p] = at[p]
    BY <1>4 DEF Packets
  <2> QED BY <1>4, <2>1 DEF SameFlow
<1>5. CASE p # x /\ q # x
  BY <1>2, <1>5
<1> QED BY <1>3, <1>4, <1>5

(* QueuesSorted after a step, queue by queue. *)
LEMMA SortedFrame ==
    ASSUME capture' = capture,
           \A l \in LBs : FlowSorted(lbQueue'[l]),
           \A f \in FPs : FlowSorted(fpQueue'[f]),
           FlowSorted(outQueue'), FlowSorted(output')
    PROVE  QueuesSorted'
<1>1. ASSUME NEW l \in LBs PROVE FlowSorted(lbQueue[l])'
  <2>1. FlowSorted(lbQueue'[l])
    OBVIOUS
  <2> QED BY <2>1 DEF FlowSorted, SameFlow
<1>2. ASSUME NEW f \in FPs PROVE FlowSorted(fpQueue[f])'
  <2>1. FlowSorted(fpQueue'[f])
    OBVIOUS
  <2> QED BY <2>1 DEF FlowSorted, SameFlow
<1>3. FlowSorted(outQueue)' /\ FlowSorted(output)'
  BY DEF FlowSorted, SameFlow
<1> QED BY <1>1, <1>2, <1>3 DEF QueuesSorted

LEMMA PacketRoute ==
    ASSUME TypeInv, NEW p \in Packets
    PROVE  capture[p] \in Tuples /\ LBOf(p) \in LBs /\ FPOf(p) \in FPs
BY SelectLBType, SelectFPType DEF TypeInv, TypeOK, LBOf, FPOf

(* One lemma per step that moves a packet. *)
LEMMA StepReaderRead == IInv /\ ReaderRead => DataInv'
<1> SUFFICES ASSUME IInv, ReaderRead PROVE DataInv'
  OBVIOUS
<1> USE DEF IInv, DataInv, TypeInv, TypeOK
<1>1. next \in Packets /\ next \in Nat /\ at[next] = "capture"
  BY DEF ReaderRead, EachPacketInOnePlace, ReaderAgrees, Packets
<1>2. \A p \in Packets : p < next => at[p] # "capture"
  BY DEF EachPacketInOnePlace, ReaderAgrees, Packets
<1>3. Ahead'
  <2>1. \A p \in Packets : p < next => Stage(at[p]) >= 1
    BY <1>2 DEF Stage, Places
  <2>2. at' = [at EXCEPT ![next] = "reader"] /\ capture' = capture
    BY DEF ReaderRead
  <2>3. "reader" \in Places /\ Stage("reader") >= Stage(at[next]) /\ Passed("reader") = 1
    BY <1>1 DEF Places, Stage, Passed
  <2>4. \A p \in Packets : p < next /\ capture[p] = capture[next] =>
                             Stage(at[p]) >= Passed("reader")
    BY <2>1, <2>3
  <2>5. at \in [Packets -> Places] /\ Ahead
    OBVIOUS
  <2> HIDE DEF IInv, DataInv, TypeInv, TypeOK
  <2> QED BY <1>1, <2>2, <2>3, <2>4, <2>5, AheadMove
<1>4. EachPacketInOnePlace'
  <2> SUFFICES ASSUME NEW p \in Packets
               PROVE  (ReaderAgrees(p) /\ LBsAgree(p) /\ FPsAgree(p) /\ OutAgrees(p))'
    BY DEF EachPacketInOnePlace
  <2>1. ReaderAgrees(p) /\ LBsAgree(p) /\ FPsAgree(p) /\ OutAgrees(p)
    BY DEF EachPacketInOnePlace
  <2>2. ReaderAgrees(p)'
    BY <1>1, <2>1 DEF ReaderRead, ReaderAgrees, Packets
  <2>3. (LBsAgree(p) /\ FPsAgree(p) /\ OutAgrees(p))'
    BY <1>1, <2>1 DEF ReaderRead, LBsAgree, FPsAgree, OutAgrees, LBOf, FPOf,
                      lbVars, fpVars, outVars, Holds
  <2> QED BY <2>2, <2>3
<1>5. NothingDiscarded'
  BY <1>1 DEF ReaderRead, NothingDiscarded
<1>6. QueuesSorted'
  BY SortedFrame DEF ReaderRead, QueuesSorted, lbVars, fpVars, outVars
<1> QED BY <1>3, <1>4, <1>5, <1>6

LEMMA StepReaderPush == IInv /\ ReaderPush => DataInv'
<1> SUFFICES ASSUME IInv, ReaderPush PROVE DataInv'
  OBVIOUS
<1> USE DEF IInv, DataInv, TypeInv, TypeOK
<1> DEFINE l == LBOf(next)
<1>1. next \in Packets /\ at[next] = "reader" /\ l \in LBs
  BY PacketRoute DEF ReaderPush, HandsBusy, EachPacketInOnePlace, ReaderAgrees
<1>2. /\ lbQueue' = [lbQueue EXCEPT ![l] = Append(@, next)]
      /\ at' = [at EXCEPT ![next] = "lb_queue"]
  BY <1>1, QueuesOpen DEF ReaderPush, Pushed, LBOf
<1>3. \A p \in Packets : p < next => at[p] \notin {"capture", "reader"}
  BY DEF EachPacketInOnePlace, ReaderAgrees, Packets
<1>4. \A p \in Packets : p > next => at[p] = "capture"
  BY DEF EachPacketInOnePlace, ReaderAgrees
<1> HIDE DEF l
<1>5. Ahead'
  <2>1. \A p \in Packets : p < next => Stage(at[p]) >= 2
    BY <1>3 DEF Stage, Places
  <2>2. capture' = capture
    BY DEF ReaderPush
  <2>3. /\ "lb_queue" \in Places /\ Stage("lb_queue") >= Stage(at[next])
        /\ Passed("lb_queue") = 2
    BY <1>1 DEF Places, Stage, Passed
  <2>4. \A p \in Packets : p < next /\ capture[p] = capture[next] =>
                             Stage(at[p]) >= Passed("lb_queue")
    BY <2>1, <2>3
  <2>5. at \in [Packets -> Places] /\ Ahead
    OBVIOUS
  <2> HIDE DEF IInv, DataInv, TypeInv, TypeOK
  <2> QED BY <1>1, <1>2, <2>2, <2>3, <2>4, <2>5, AheadMove
<1>6. EachPacketInOnePlace'
  <2> SUFFICES ASSUME NEW p \in Packets
               PROVE  (ReaderAgrees(p) /\ LBsAgree(p) /\ FPsAgree(p) /\ OutAgrees(p))'
    BY DEF EachPacketInOnePlace
  <2>1. ReaderAgrees(p) /\ LBsAgree(p) /\ FPsAgree(p) /\ OutAgrees(p)
    BY DEF EachPacketInOnePlace
  <2>2. ReaderAgrees(p)'
    BY <1>1, <1>2, <2>1 DEF ReaderPush, ReaderAgrees, Packets
  <2>3. LBsAgree(p)'
    <3> SUFFICES ASSUME NEW k \in LBs
                 PROVE  /\ Holds(lbQueue'[k], p) <=> k = LBOf(p) /\ at'[p] = "lb_queue"
                        /\ lbJob'[k] = p <=> k = LBOf(p) /\ at'[p] = "lb"
      BY DEF LBsAgree, ReaderPush, LBOf, Holds
    <3>1. Holds(lbQueue'[k], p) <=> Holds(lbQueue[k], p) \/ (k = l /\ p = next)
      BY <1>1, <1>2, HoldsAppend
    <3>2. /\ Holds(lbQueue[k], p) <=> k = LBOf(p) /\ at[p] = "lb_queue"
          /\ lbJob[k] = p <=> k = LBOf(p) /\ at[p] = "lb"
      BY <2>1 DEF LBsAgree
    <3>3. lbJob' = lbJob
      BY DEF ReaderPush
    <3>4. at'[p] = IF p = next THEN "lb_queue" ELSE at[p]
      BY <1>1, <1>2
    <3> QED BY <1>1, <3>1, <3>2, <3>3, <3>4 DEF l
  <2>4. (FPsAgree(p) /\ OutAgrees(p))'
    BY <1>1, <1>2, <2>1 DEF ReaderPush, FPsAgree, OutAgrees, LBOf, FPOf,
                            fpVars, outVars, Holds
  <2> QED BY <2>2, <2>3, <2>4
<1>7. NothingDiscarded'
  BY <1>1, <1>2 DEF NothingDiscarded
<1>8. QueuesSorted'
  <2>1. ASSUME NEW y \in Packets, Holds(lbQueue[l], y) PROVE y < next
    <3>1. LBsAgree(y)
      BY DEF EachPacketInOnePlace
    <3>2. at[y] = "lb_queue"
      BY <1>1, <2>1, <3>1 DEF LBsAgree
    <3> QED BY <1>1, <1>4, <3>2 DEF Packets
  <2>2. FlowSorted(Append(lbQueue[l], next))
    BY <1>1, <2>1, SortedAppend DEF QueuesSorted
  <2>3. \A k \in LBs : FlowSorted(lbQueue'[k])
    BY <1>1, <1>2, <2>2 DEF QueuesSorted
  <2> QED BY <2>3, SortedFrame DEF QueuesSorted, ReaderPush, fpVars, outVars
<1> QED BY <1>5, <1>6, <1>7, <1>8

LEMMA StepLBPop == \A l \in LBs : IInv /\ LBPop(l) => DataInv'
<1> SUFFICES ASSUME NEW l \in LBs, IInv, LBPop(l) PROVE DataInv'
  OBVIOUS
<1> USE DEF IInv, DataInv, TypeInv, TypeOK
<1> DEFINE x == Head(lbQueue[l])
<1>1. x \in Packets /\ Holds(lbQueue[l], x) /\ FlowSorted(lbQueue[l])
  BY FrontType, HoldsFront DEF LBPop, QueuesSorted
<1>2. at[x] = "lb_queue" /\ l = LBOf(x)
  <2>1. LBsAgree(x)
    BY <1>1 DEF EachPacketInOnePlace
  <2> QED BY <1>1, <2>1 DEF LBsAgree
<1>3. /\ lbQueue' = [lbQueue EXCEPT ![l] = Tail(@)]
      /\ lbJob' = [lbJob EXCEPT ![l] = x]
      /\ at' = [at EXCEPT ![x] = "lb"]
  BY DEF LBPop
<1>4. \A p \in Packets : lbJob[l] # p
  BY DEF LBPop, HandsBusy
<1> HIDE DEF x
<1>5. Ahead'
  <2>1. ASSUME NEW p \in Packets, p < x, SameFlow(p, x)
        PROVE  Stage(at[p]) >= 3
    <3>1. Stage(at[p]) >= 2
      BY <1>1, <1>2, <2>1 DEF Ahead, Stage, Passed
    <3>2. at[p] # "lb_queue"
      <4>1. LBOf(p) = l
        BY <1>2, <2>1 DEF LBOf, SameFlow
      <4>2. ~ Holds(lbQueue[l], p)
        BY <1>1, <2>1, FrontIsFirst DEF LBPop, x
      <4>3. LBsAgree(p)
        BY DEF EachPacketInOnePlace
      <4> QED BY <4>1, <4>2, <4>3 DEF LBsAgree
    <3> QED BY <3>1, <3>2 DEF Stage, Places
  <2>2. capture' = capture
    BY DEF LBPop
  <2>3. "lb" \in Places /\ Stage("lb") >= Stage(at[x]) /\ Passed("lb") = 3
    BY <1>2 DEF Places, Stage, Passed
  <2>4. \A p \in Packets : p < x /\ capture[p] = capture[x] =>
                             Stage(at[p]) >= Passed("lb")
    BY <2>1, <2>3 DEF SameFlow
  <2>5. at \in [Packets -> Places] /\ Ahead
    OBVIOUS
  <2> HIDE DEF IInv, DataInv, TypeInv, TypeOK
  <2> QED BY <1>1, <1>3, <2>2, <2>3, <2>4, <2>5, AheadMove
<1>6. EachPacketInOnePlace'
  <2> SUFFICES ASSUME NEW p \in Packets
               PROVE  (ReaderAgrees(p) /\ LBsAgree(p) /\ FPsAgree(p) /\ OutAgrees(p))'
    BY DEF EachPacketInOnePlace
  <2>1. ReaderAgrees(p) /\ LBsAgree(p) /\ FPsAgree(p) /\ OutAgrees(p)
    BY DEF EachPacketInOnePlace
  <2>2. LBsAgree(p)'
    <3> SUFFICES ASSUME NEW k \in LBs
                 PROVE  /\ Holds(lbQueue'[k], p) <=> k = LBOf(p) /\ at'[p] = "lb_queue"
                        /\ lbJob'[k] = p <=> k = LBOf(p) /\ at'[p] = "lb"
      BY DEF LBsAgree, LBPop, LBOf, Holds
    <3>1. Holds(lbQueue'[k], p) <=> Holds(lbQueue[k], p) /\ ~ (k = l /\ p = x)
      BY <1>1, <1>3, HoldsTail DEF LBPop, x
    <3>2. /\ Holds(lbQueue[k], p) <=> k = LBOf(p) /\ at[p] = "lb_queue"
          /\ lbJob[k] = p <=> k = LBOf(p) /\ at[p] = "lb"
      BY <2>1 DEF LBsAgree
    <3>3. lbJob'[k] = IF k = l THEN x ELSE lbJob[k]
      BY <1>3
    <3>4. at'[p] = IF p = x THEN "lb" ELSE at[p]
      BY <1>1, <1>3
    <3> QED BY <1>2, <1>4, <3>1, <3>2, <3>3, <3>4
  <2>3. (ReaderAgrees(p) /\ FPsAgree(p) /\ OutAgrees(p))'
    BY <1>1, <1>2, <1>3, <2>1 DEF LBPop, ReaderAgrees, FPsAgree, OutAgrees, LBOf, FPOf,
                                  readerVars, fpVars, outVars, Holds
  <2> QED BY <2>2, <2>3
<1>7. NothingDiscarded'
  BY <1>1, <1>3 DEF NothingDiscarded
<1>8. QueuesSorted'
  <2>1. \A k \in LBs : FlowSorted(lbQueue'[k])
    BY <1>1, <1>3, SortedTail DEF QueuesSorted, LBPop
  <2> QED BY <2>1, SortedFrame DEF QueuesSorted, LBPop, fpVars, outVars
<1> QED BY <1>5, <1>6, <1>7, <1>8

LEMMA StepLBPush == \A l \in LBs : IInv /\ LBPush(l) => DataInv'
<1> SUFFICES ASSUME NEW l \in LBs, IInv, LBPush(l) PROVE DataInv'
  OBVIOUS
<1> USE DEF IInv, DataInv, TypeInv, TypeOK
<1> DEFINE x == lbJob[l]
<1> DEFINE f == FPOf(x)
<1>1. x \in Packets
  BY DEF LBPush, HandsBusy
<1>2. at[x] = "lb" /\ l = LBOf(x) /\ f \in FPs
  <2>1. LBsAgree(x)
    BY <1>1 DEF EachPacketInOnePlace
  <2> QED BY <1>1, <2>1, PacketRoute DEF LBsAgree
<1>3. /\ fpQueue' = [fpQueue EXCEPT ![f] = Append(@, x)]
      /\ lbJob' = [lbJob EXCEPT ![l] = NoJob]
      /\ at' = [at EXCEPT ![x] = "fp_queue"]
  BY <1>2, QueuesOpen DEF LBPush, Pushed, FPOf
<1>4. \A p \in Packets : LBOf(p) = l /\ at[p] = "lb" => p = x
  <2> SUFFICES ASSUME NEW p \in Packets, LBOf(p) = l, at[p] = "lb" PROVE p = x
    OBVIOUS
  <2>1. LBsAgree(p)
    BY DEF EachPacketInOnePlace
  <2> QED BY <2>1 DEF LBsAgree
<1> HIDE DEF x, f
<1>5. Ahead'
  <2>1. ASSUME NEW p \in Packets, p < x, capture[p] = capture[x]
        PROVE  Stage(at[p]) >= 4
    <3>1. Stage(at[p]) >= 3
      BY <1>1, <1>2, <2>1 DEF Ahead, SameFlow, Stage, Passed
    <3>2. at[p] # "lb"
      BY <1>1, <1>2, <1>4, <2>1 DEF LBOf, Packets
    <3> QED BY <3>1, <3>2 DEF Stage, Places
  <2>2. capture' = capture
    BY DEF LBPush
  <2>3. /\ "fp_queue" \in Places /\ Stage("fp_queue") >= Stage(at[x])
        /\ Passed("fp_queue") = 4
    BY <1>2 DEF Places, Stage, Passed
  <2>4. \A p \in Packets : p < x /\ capture[p] = capture[x] =>
                             Stage(at[p]) >= Passed("fp_queue")
    BY <2>1, <2>3
  <2>5. at \in [Packets -> Places] /\ Ahead
    OBVIOUS
  <2> HIDE DEF IInv, DataInv, TypeInv, TypeOK
  <2> QED BY <1>1, <1>3, <2>2, <2>3, <2>4, <2>5, AheadMove
<1>6. EachPacketInOnePlace'
  <2> SUFFICES ASSUME NEW p \in Packets
               PROVE  (ReaderAgrees(p) /\ LBsAgree(p) /\ FPsAgree(p) /\ OutAgrees(p))'
    BY DEF EachPacketInOnePlace
  <2>1. ReaderAgrees(p) /\ LBsAgree(p) /\ FPsAgree(p) /\ OutAgrees(p)
    BY DEF EachPacketInOnePlace
  <2>2. at'[p] = IF p = x THEN "fp_queue" ELSE at[p]
    BY <1>1, <1>3
  <2>3. LBsAgree(p)'
    <3> SUFFICES ASSUME NEW k \in LBs
                 PROVE  /\ Holds(lbQueue[k], p) <=> k = LBOf(p) /\ at'[p] = "lb_queue"
                        /\ lbJob'[k] = p <=> k = LBOf(p) /\ at'[p] = "lb"
      BY DEF LBsAgree, LBPush, LBOf, Holds
    <3>1. lbJob'[k] = IF k = l THEN NoJob ELSE lbJob[k]
      BY <1>3
    <3>2. p # NoJob
      BY DEF NoJob, Packets
    <3> QED BY <1>2, <1>4, <2>1, <2>2, <3>1, <3>2 DEF LBsAgree
  <2>4. FPsAgree(p)'
    <3> SUFFICES ASSUME NEW k \in FPs
                 PROVE  /\ Holds(fpQueue'[k], p) <=> k = FPOf(p) /\ at'[p] = "fp_queue"
                        /\ fpJob[k] = p <=> k = FPOf(p) /\ at'[p] = "fp"
      BY DEF FPsAgree, LBPush, LBOf, FPOf, Holds
    <3>1. Holds(fpQueue'[k], p) <=> Holds(fpQueue[k], p) \/ (k = f /\ p = x)
      BY <1>1, <1>2, <1>3, HoldsAppend
    <3> QED BY <1>2, <2>1, <2>2, <3>1 DEF FPsAgree, f
  <2>5. (ReaderAgrees(p) /\ OutAgrees(p))'
    BY <1>2, <2>1, <2>2 DEF LBPush, ReaderAgrees, OutAgrees, readerVars, outVars, Holds
  <2> QED BY <2>3, <2>4, <2>5
<1>7. NothingDiscarded'
  BY <1>1, <1>3 DEF NothingDiscarded
<1>8. QueuesSorted'
  <2>1. ASSUME NEW y \in Packets, Holds(fpQueue[f], y), SameFlow(y, x) PROVE y < x
    <3>1. FPsAgree(y)
      BY DEF EachPacketInOnePlace
    <3>2. at[y] = "fp_queue"
      BY <1>2, <2>1, <3>1 DEF FPsAgree
    <3>3. x < y => Stage(at[x]) >= Passed(at[y])
      BY <1>1, <2>1 DEF Ahead, SameFlow
    <3>4. Stage(at[x]) = 3 /\ Passed(at[y]) = 4
      BY <1>2, <3>2 DEF Stage, Passed
    <3> QED BY <1>1, <1>2, <3>2, <3>3, <3>4 DEF Packets
  <2>2. FlowSorted(Append(fpQueue[f], x))
    BY <1>1, <1>2, <2>1, SortedAppend DEF QueuesSorted
  <2>3. \A k \in FPs : FlowSorted(fpQueue'[k])
    BY <1>2, <1>3, <2>2 DEF QueuesSorted
  <2> QED BY <2>3, SortedFrame DEF QueuesSorted, LBPush, outVars
<1> QED BY <1>5, <1>6, <1>7, <1>8

(* What an FP finds at the front of its queue. *)
LEMMA FPFront ==
    ASSUME IInv, NEW f \in FPs, fpPc[f] = "pop", fpQueue[f] # <<>>
    PROVE  LET x == Head(fpQueue[f])
           IN  /\ x \in Packets /\ at[x] = "fp_queue" /\ f = FPOf(x)
               /\ \A p \in Packets : p < x /\ capture[p] = capture[x] =>
                                       Stage(at[p]) >= 6
               /\ \A p \in Packets, k \in FPs :
                      Holds(IF k = f THEN Tail(fpQueue[f]) ELSE fpQueue[k], p) <=>
                          Holds(fpQueue[k], p) /\ p # x
               /\ \A k \in FPs :
                      FlowSorted(IF k = f THEN Tail(fpQueue[f]) ELSE fpQueue[k])
<1> USE DEF IInv, DataInv, TypeInv, TypeOK
<1> DEFINE x == Head(fpQueue[f])
<1>1. x \in Packets /\ Holds(fpQueue[f], x) /\ FlowSorted(fpQueue[f])
  BY FrontType, HoldsFront DEF QueuesSorted
<1>2. at[x] = "fp_queue" /\ f = FPOf(x)
  <2>1. FPsAgree(x)
    BY <1>1 DEF EachPacketInOnePlace
  <2> QED BY <1>1, <2>1 DEF FPsAgree
<1> HIDE DEF x
<1>3. ASSUME NEW p \in Packets, p < x, capture[p] = capture[x]
      PROVE  Stage(at[p]) >= 6
  <2>1. FPsAgree(p) /\ FPOf(p) = f
    BY <1>2, <1>3 DEF EachPacketInOnePlace, FPOf, LBOf
  <2>2. Stage(at[p]) >= 4
    BY <1>1, <1>2, <1>3 DEF Ahead, SameFlow, Stage, Passed
  <2>3. at[p] # "fp_queue"
    <3>1. ~ Holds(fpQueue[f], p)
      BY <1>1, <1>3, FrontIsFirst DEF x, SameFlow
    <3> QED BY <2>1, <3>1 DEF FPsAgree
  <2>4. at[p] # "fp"
    <3>1. fpJob[f] # p
      BY DEF HandsBusy
    <3> QED BY <2>1, <3>1 DEF FPsAgree
  <2> QED BY <2>2, <2>3, <2>4 DEF Stage, Places
<1>4. ASSUME NEW p \in Packets, NEW k \in FPs
      PROVE  Holds(IF k = f THEN Tail(fpQueue[f]) ELSE fpQueue[k], p) <=>
                 Holds(fpQueue[k], p) /\ p # x
  <2>1. CASE k = f
    BY <1>1, <2>1, HoldsTail DEF x
  <2>2. CASE k # f
    <3>1. FPsAgree(x) /\ FPOf(x) # k
      BY <1>1, <1>2, <2>2 DEF EachPacketInOnePlace
    <3>2. ~ Holds(fpQueue[k], x)
      BY <3>1 DEF FPsAgree
    <3> QED BY <2>2, <3>2
  <2> QED BY <2>1, <2>2
<1>5. \A k \in FPs : FlowSorted(IF k = f THEN Tail(fpQueue[f]) ELSE fpQueue[k])
  BY <1>1, SortedTail DEF QueuesSorted
<1> QED BY <1>1, <1>2, <1>3, <1>4, <1>5 DEF x

LEMMA StepFPDrop == \A f \in FPs : IInv /\ FPDrop(f) => DataInv'
<1> SUFFICES ASSUME NEW f \in FPs, IInv, FPDrop(f) PROVE DataInv'
  OBVIOUS
<1> DEFINE x == Head(fpQueue[f])
<1>1. /\ x \in Packets /\ at[x] = "fp_queue" /\ f = FPOf(x)
      /\ \A p \in Packets : p < x /\ capture[p] = capture[x] => Stage(at[p]) >= 6
  BY FPFront DEF FPDrop
<1>3. \A p \in Packets, k \in FPs :
          Holds(IF k = f THEN Tail(fpQueue[f]) ELSE fpQueue[k], p) <=>
              Holds(fpQueue[k], p) /\ p # x
  BY FPFront DEF FPDrop
<1>4. \A k \in FPs : FlowSorted(IF k = f THEN Tail(fpQueue[f]) ELSE fpQueue[k])
  BY FPFront DEF FPDrop
<1> HIDE DEF x
<1> USE DEF IInv, DataInv, TypeInv, TypeOK
<1>2. /\ \A k \in FPs : fpQueue'[k] = IF k = f THEN Tail(fpQueue[f]) ELSE fpQueue[k]
      /\ at' = [at EXCEPT ![x] = "dropped"]
      /\ fpJob' = fpJob
  BY DEF FPDrop, x
<1>5. Ahead'
  <2>1. capture' = capture
    BY DEF FPDrop
  <2>2. /\ "dropped" \in Places /\ Stage("dropped") >= Stage(at[x])
        /\ Passed("dropped") = 6
    BY <1>1 DEF Places, Stage, Passed
  <2>3. \A p \in Packets : p < x /\ capture[p] = capture[x] =>
                             Stage(at[p]) >= Passed("dropped")
    BY <1>1, <2>2
  <2>4. at \in [Packets -> Places] /\ Ahead
    OBVIOUS
  <2> HIDE DEF IInv, DataInv, TypeInv, TypeOK
  <2> QED BY <1>1, <1>2, <2>1, <2>2, <2>3, <2>4, AheadMove
<1>6. EachPacketInOnePlace'
  <2> SUFFICES ASSUME NEW p \in Packets
               PROVE  (ReaderAgrees(p) /\ LBsAgree(p) /\ FPsAgree(p) /\ OutAgrees(p))'
    BY DEF EachPacketInOnePlace
  <2>1. ReaderAgrees(p) /\ LBsAgree(p) /\ FPsAgree(p) /\ OutAgrees(p)
    BY DEF EachPacketInOnePlace
  <2>2. at'[p] = IF p = x THEN "dropped" ELSE at[p]
    BY <1>1, <1>2
  <2>3. FPsAgree(p)'
    <3> SUFFICES ASSUME NEW k \in FPs
                 PROVE  /\ Holds(fpQueue'[k], p) <=> k = FPOf(p) /\ at'[p] = "fp_queue"
                        /\ fpJob'[k] = p <=> k = FPOf(p) /\ at'[p] = "fp"
      BY DEF FPsAgree, FPDrop, LBOf, FPOf, Holds
    <3>1. Holds(fpQueue'[k], p) <=> Holds(fpQueue[k], p) /\ p # x
      BY <1>2, <1>3
    <3> QED BY <1>1, <1>2, <2>1, <2>2, <3>1 DEF FPsAgree
  <2>4. (ReaderAgrees(p) /\ LBsAgree(p) /\ OutAgrees(p))'
    BY <1>1, <2>1, <2>2 DEF FPDrop, ReaderAgrees, LBsAgree, OutAgrees, LBOf,
                            readerVars, lbVars, outVars, Holds
  <2> QED BY <2>3, <2>4
<1>7. NothingDiscarded'
  BY <1>1, <1>2 DEF NothingDiscarded
<1>8. QueuesSorted'
  <2>1. \A k \in FPs : FlowSorted(fpQueue'[k])
    BY <1>2, <1>4
  <2> QED BY <2>1, SortedFrame DEF QueuesSorted, FPDrop, lbVars, outVars
<1> QED BY <1>5, <1>6, <1>7, <1>8

LEMMA StepFPForward == \A f \in FPs : IInv /\ FPForward(f) => DataInv'
<1> SUFFICES ASSUME NEW f \in FPs, IInv, FPForward(f) PROVE DataInv'
  OBVIOUS
<1> DEFINE x == Head(fpQueue[f])
<1>1. /\ x \in Packets /\ at[x] = "fp_queue" /\ f = FPOf(x)
      /\ \A p \in Packets : p < x /\ capture[p] = capture[x] => Stage(at[p]) >= 6
  BY FPFront DEF FPForward
<1>3. \A p \in Packets, k \in FPs :
          Holds(IF k = f THEN Tail(fpQueue[f]) ELSE fpQueue[k], p) <=>
              Holds(fpQueue[k], p) /\ p # x
  BY FPFront DEF FPForward
<1>4. \A k \in FPs : FlowSorted(IF k = f THEN Tail(fpQueue[f]) ELSE fpQueue[k])
  BY FPFront DEF FPForward
<1> HIDE DEF x
<1> USE DEF IInv, DataInv, TypeInv, TypeOK
<1>2. /\ \A k \in FPs : fpQueue'[k] = IF k = f THEN Tail(fpQueue[f]) ELSE fpQueue[k]
      /\ at' = [at EXCEPT ![x] = "fp"]
      /\ fpJob' = [fpJob EXCEPT ![f] = x]
  BY DEF FPForward, x
<1>5. Ahead'
  <2>1. capture' = capture
    BY DEF FPForward
  <2>2. /\ "fp" \in Places /\ Stage("fp") >= Stage(at[x])
        /\ Passed("fp") = 5
    BY <1>1 DEF Places, Stage, Passed
  <2>3. \A p \in Packets : p < x /\ capture[p] = capture[x] =>
                             Stage(at[p]) >= Passed("fp")
    BY <1>1, <2>2 DEF Stage
  <2>4. at \in [Packets -> Places] /\ Ahead
    OBVIOUS
  <2> HIDE DEF IInv, DataInv, TypeInv, TypeOK
  <2> QED BY <1>1, <1>2, <2>1, <2>2, <2>3, <2>4, AheadMove
<1>6. EachPacketInOnePlace'
  <2> SUFFICES ASSUME NEW p \in Packets
               PROVE  (ReaderAgrees(p) /\ LBsAgree(p) /\ FPsAgree(p) /\ OutAgrees(p))'
    BY DEF EachPacketInOnePlace
  <2>1. ReaderAgrees(p) /\ LBsAgree(p) /\ FPsAgree(p) /\ OutAgrees(p)
    BY DEF EachPacketInOnePlace
  <2>2. at'[p] = IF p = x THEN "fp" ELSE at[p]
    BY <1>1, <1>2
  <2>3. FPsAgree(p)'
    <3> SUFFICES ASSUME NEW k \in FPs
                 PROVE  /\ Holds(fpQueue'[k], p) <=> k = FPOf(p) /\ at'[p] = "fp_queue"
                        /\ fpJob'[k] = p <=> k = FPOf(p) /\ at'[p] = "fp"
      BY DEF FPsAgree, FPForward, LBOf, FPOf, Holds
    <3>1. Holds(fpQueue'[k], p) <=> Holds(fpQueue[k], p) /\ p # x
      BY <1>2, <1>3
    <3>2. fpJob'[k] = IF k = f THEN x ELSE fpJob[k]
      BY <1>2
    <3>3. fpJob[f] # p
      BY DEF FPForward, HandsBusy
    <3> QED BY <1>1, <2>1, <2>2, <3>1, <3>2, <3>3 DEF FPsAgree
  <2>4. (ReaderAgrees(p) /\ LBsAgree(p) /\ OutAgrees(p))'
    BY <1>1, <2>1, <2>2 DEF FPForward, ReaderAgrees, LBsAgree, OutAgrees, LBOf,
                            readerVars, lbVars, outVars, Holds
  <2> QED BY <2>3, <2>4
<1>7. NothingDiscarded'
  BY <1>1, <1>2 DEF NothingDiscarded
<1>8. QueuesSorted'
  <2>1. \A k \in FPs : FlowSorted(fpQueue'[k])
    BY <1>2, <1>4
  <2> QED BY <2>1, SortedFrame DEF QueuesSorted, FPForward, lbVars, outVars
<1> QED BY <1>5, <1>6, <1>7, <1>8

LEMMA StepFPPush == \A f \in FPs : IInv /\ FPPush(f) => DataInv'
<1> SUFFICES ASSUME NEW f \in FPs, IInv, FPPush(f) PROVE DataInv'
  OBVIOUS
<1> USE DEF IInv, DataInv, TypeInv, TypeOK
<1> DEFINE x == fpJob[f]
<1>1. x \in Packets
  BY DEF FPPush, HandsBusy
<1>2. at[x] = "fp" /\ f = FPOf(x)
  <2>1. FPsAgree(x)
    BY <1>1 DEF EachPacketInOnePlace
  <2> QED BY <2>1 DEF FPsAgree
<1>3. /\ outQueue' = Append(outQueue, x)
      /\ fpJob' = [fpJob EXCEPT ![f] = NoJob]
      /\ at' = [at EXCEPT ![x] = "out_queue"]
  BY QueuesOpen DEF FPPush, Pushed
<1>4. \A p \in Packets : FPOf(p) = f /\ at[p] = "fp" => p = x
  <2> SUFFICES ASSUME NEW p \in Packets, FPOf(p) = f, at[p] = "fp" PROVE p = x
    OBVIOUS
  <2>1. FPsAgree(p)
    BY DEF EachPacketInOnePlace
  <2> QED BY <2>1 DEF FPsAgree
<1> HIDE DEF x
<1>5. Ahead'
  <2>1. ASSUME NEW p \in Packets, p < x, capture[p] = capture[x]
        PROVE  Stage(at[p]) >= 6
    <3>1. Stage(at[p]) >= 5
      BY <1>1, <1>2, <2>1 DEF Ahead, SameFlow, Stage, Passed
    <3>2. at[p] # "fp"
      BY <1>1, <1>2, <1>4, <2>1 DEF LBOf, FPOf, Packets
    <3> QED BY <3>1, <3>2 DEF Stage, Places
  <2>2. capture' = capture
    BY DEF FPPush
  <2>3. /\ "out_queue" \in Places /\ Stage("out_queue") >= Stage(at[x])
        /\ Passed("out_queue") = 6
    BY <1>2 DEF Places, Stage, Passed
  <2>4. \A p \in Packets : p < x /\ capture[p] = capture[x] =>
                             Stage(at[p]) >= Passed("out_queue")
    BY <2>1, <2>3
  <2>5. at \in [Packets -> Places] /\ Ahead
    OBVIOUS
  <2> HIDE DEF IInv, DataInv, TypeInv, TypeOK
  <2> QED BY <1>1, <1>3, <2>2, <2>3, <2>4, <2>5, AheadMove
<1>6. EachPacketInOnePlace'
  <2> SUFFICES ASSUME NEW p \in Packets
               PROVE  (ReaderAgrees(p) /\ LBsAgree(p) /\ FPsAgree(p) /\ OutAgrees(p))'
    BY DEF EachPacketInOnePlace
  <2>1. ReaderAgrees(p) /\ LBsAgree(p) /\ FPsAgree(p) /\ OutAgrees(p)
    BY DEF EachPacketInOnePlace
  <2>2. at'[p] = IF p = x THEN "out_queue" ELSE at[p]
    BY <1>1, <1>3
  <2>3. FPsAgree(p)'
    <3> SUFFICES ASSUME NEW k \in FPs
                 PROVE  /\ Holds(fpQueue[k], p) <=> k = FPOf(p) /\ at'[p] = "fp_queue"
                        /\ fpJob'[k] = p <=> k = FPOf(p) /\ at'[p] = "fp"
      BY DEF FPsAgree, FPPush, LBOf, FPOf, Holds
    <3>1. fpJob'[k] = IF k = f THEN NoJob ELSE fpJob[k]
      BY <1>3
    <3>2. p # NoJob
      BY DEF NoJob, Packets
    <3> QED BY <1>2, <1>4, <2>1, <2>2, <3>1, <3>2 DEF FPsAgree
  <2>4. OutAgrees(p)'
    <3>1. Holds(outQueue', p) <=> Holds(outQueue, p) \/ p = x
      BY <1>1, <1>3, HoldsAppend
    <3>2. output' = output
      BY DEF FPPush
    <3> QED BY <1>2, <2>1, <2>2, <3>1, <3>2 DEF OutAgrees, Holds
  <2>5. (ReaderAgrees(p) /\ LBsAgree(p))'
    BY <1>2, <2>1, <2>2 DEF FPPush, ReaderAgrees, LBsAgree, LBOf, readerVars, lbVars, Holds
  <2> QED BY <2>3, <2>4, <2>5
<1>7. NothingDiscarded'
  BY <1>1, <1>3 DEF NothingDiscarded
<1>8. QueuesSorted'
  <2>1. ASSUME NEW y \in Packets, Holds(outQueue, y), SameFlow(y, x) PROVE y < x
    <3>1. at[y] = "out_queue"
      BY <2>1 DEF EachPacketInOnePlace, OutAgrees
    <3>2. x < y => Stage(at[x]) >= Passed(at[y])
      BY <1>1, <2>1 DEF Ahead, SameFlow
    <3>3. Stage(at[x]) = 5 /\ Passed(at[y]) = 6
      BY <1>2, <3>1 DEF Stage, Passed
    <3> QED BY <1>1, <1>2, <3>1, <3>2, <3>3 DEF Packets
  <2>2. FlowSorted(outQueue')
    BY <1>1, <1>3, <2>1, SortedAppend DEF QueuesSorted
  <2> QED BY <2>2, SortedFrame DEF QueuesSorted, FPPush, lbVars
<1> QED BY <1>5, <1>6, <1>7, <1>8

(* What the writer finds at the front of the output queue. *)
LEMMA OutFront ==
    ASSUME IInv, outQueue # <<>>
    PROVE  LET x == Head(outQueue)
           IN  /\ x \in Packets /\ at[x] = "out_queue"
               /\ \A p \in Packets : p < x /\ capture[p] = capture[x] =>
                                       Stage(at[p]) >= 7
<1> USE DEF IInv, DataInv, TypeInv, TypeOK
<1> DEFINE x == Head(outQueue)
<1>1. x \in Packets /\ Holds(outQueue, x) /\ FlowSorted(outQueue)
  BY FrontType, HoldsFront DEF QueuesSorted
<1>2. at[x] = "out_queue"
  BY <1>1 DEF EachPacketInOnePlace, OutAgrees
<1> HIDE DEF x
<1>3. ASSUME NEW p \in Packets, p < x, capture[p] = capture[x]
      PROVE  Stage(at[p]) >= 7
  <2>1. Stage(at[p]) >= 6
    BY <1>1, <1>2, <1>3 DEF Ahead, SameFlow, Stage, Passed
  <2>2. at[p] # "out_queue"
    <3>1. ~ Holds(outQueue, p)
      BY <1>1, <1>3, FrontIsFirst DEF x, SameFlow
    <3> QED BY <3>1 DEF EachPacketInOnePlace, OutAgrees
  <2> QED BY <2>1, <2>2 DEF Stage, Places
<1> QED BY <1>1, <1>2, <1>3 DEF x

LEMMA StepWriterWrite == IInv /\ WriterWrite => DataInv'
<1> SUFFICES ASSUME IInv, WriterWrite PROVE DataInv'
  OBVIOUS
<1> DEFINE x == Head(outQueue)
<1>1. /\ x \in Packets /\ at[x] = "out_queue"
      /\ \A p \in Packets : p < x /\ capture[p] = capture[x] => Stage(at[p]) >= 7
  BY OutFront DEF WriterWrite
<1> HIDE DEF x
<1> USE DEF IInv, DataInv, TypeInv, TypeOK
<1>2. /\ outQueue' = Tail(outQueue)
      /\ output' = Append(output, x)
      /\ at' = [at EXCEPT ![x] = "output"]
      /\ outQueue # <<>> /\ outQueue \in Seq(Packets) /\ FlowSorted(outQueue)
  BY DEF WriterWrite, x, QueuesSorted
<1>5. Ahead'
  <2>1. capture' = capture
    BY DEF WriterWrite
  <2>2. /\ "output" \in Places /\ Stage("output") >= Stage(at[x])
        /\ Passed("output") = 7
    BY <1>1 DEF Places, Stage, Passed
  <2>3. \A p \in Packets : p < x /\ capture[p] = capture[x] =>
                             Stage(at[p]) >= Passed("output")
    BY <1>1, <2>2
  <2>4. at \in [Packets -> Places] /\ Ahead
    OBVIOUS
  <2> HIDE DEF IInv, DataInv, TypeInv, TypeOK
  <2> QED BY <1>1, <1>2, <2>1, <2>2, <2>3, <2>4, AheadMove
<1>6. EachPacketInOnePlace'
  <2> SUFFICES ASSUME NEW p \in Packets
               PROVE  (ReaderAgrees(p) /\ LBsAgree(p) /\ FPsAgree(p) /\ OutAgrees(p))'
    BY DEF EachPacketInOnePlace
  <2>1. ReaderAgrees(p) /\ LBsAgree(p) /\ FPsAgree(p) /\ OutAgrees(p)
    BY DEF EachPacketInOnePlace
  <2>2. at'[p] = IF p = x THEN "output" ELSE at[p]
    BY <1>1, <1>2
  <2>3. OutAgrees(p)'
    <3>1. Holds(outQueue', p) <=> Holds(outQueue, p) /\ p # x
      BY <1>1, <1>2, HoldsTail DEF x
    <3>2. Holds(output', p) <=> Holds(output, p) \/ p = x
      BY <1>1, <1>2, HoldsAppend
    <3>3. /\ Holds(outQueue, p) <=> at[p] = "out_queue"
          /\ Holds(output, p) <=> at[p] = "output"
      BY <2>1 DEF OutAgrees
    <3>4. /\ Holds(outQueue', p) <=> at'[p] = "out_queue"
          /\ Holds(output', p) <=> at'[p] = "output"
      BY <2>2, <3>1, <3>2, <3>3
    <3> QED BY <3>4 DEF OutAgrees, Holds
  <2>4. (ReaderAgrees(p) /\ LBsAgree(p) /\ FPsAgree(p))'
    BY <1>1, <2>1, <2>2 DEF WriterWrite, ReaderAgrees, LBsAgree, FPsAgree, LBOf, FPOf,
                            readerVars, lbVars, fpVars, Holds
  <2> QED BY <2>3, <2>4
<1>7. NothingDiscarded'
  BY <1>1, <1>2 DEF NothingDiscarded
<1>8. QueuesSorted'
  <2>1. ASSUME NEW y \in Packets, Holds(output, y), SameFlow(y, x) PROVE y < x
    <3>1. at[y] = "output"
      BY <2>1 DEF EachPacketInOnePlace, OutAgrees
    <3>2. x < y => Stage(at[x]) >= Passed(at[y])
      BY <1>1, <2>1 DEF Ahead, SameFlow
    <3>3. Stage(at[x]) = 6 /\ Passed(at[y]) = 7
      BY <1>1, <3>1 DEF Stage, Passed
    <3> QED BY <1>1, <3>1, <3>2, <3>3 DEF Packets
  <2>2. FlowSorted(output')
    BY <1>1, <1>2, <2>1, SortedAppend DEF QueuesSorted
  <2>3. FlowSorted(outQueue')
    BY <1>2, SortedTail
  <2> QED BY <2>2, <2>3, SortedFrame DEF QueuesSorted, WriterWrite, lbVars, fpVars
<1> QED BY <1>5, <1>6, <1>7, <1>8

----------------------------------------------------------------------------
(* The invariant, and what follows from it. *)

LEMMA StepIInv == IInv /\ [Next]_vars => IInv'
<1> SUFFICES ASSUME IInv, [Next]_vars PROVE IInv'
  OBVIOUS
<1>1. TypeInv' /\ StopOrder'
  BY StepTypeInv, StepStopOrder DEF IInv
<1>2. DataInv'
  <2>1. CASE Reader
    <3>1. CASE ReaderEnd
      BY <3>1, NothingMoves DEF IInv, ReaderEnd, lbVars, fpVars, outVars
    <3> QED BY <2>1, <3>1, StepReaderRead, StepReaderPush DEF Reader
  <2>2. ASSUME NEW l \in LBs, LB(l) PROVE DataInv'
    <3>1. CASE LBCheck(l) \/ LBTimeout(l)
      BY <3>1, NothingMoves DEF IInv, LBCheck, LBTimeout, readerVars, fpVars, outVars
    <3> QED BY <2>2, <3>1, StepLBPop, StepLBPush DEF LB
  <2>3. ASSUME NEW f \in FPs, FP(f) PROVE DataInv'
    <3>1. CASE FPCheck(f) \/ FPTimeout(f)
      BY <3>1, NothingMoves DEF IInv, FPCheck, FPTimeout, readerVars, lbVars, outVars
    <3> QED BY <2>3, <3>1, StepFPDrop, StepFPForward, StepFPPush DEF FP
  <2>4. CASE Writer
    <3>1. CASE WriterCheck \/ WriterTimeout
      BY <3>1, NothingMoves DEF IInv, WriterCheck, WriterTimeout, readerVars, lbVars, fpVars
    <3> QED BY <2>4, <3>1, StepWriterWrite DEF Writer
  <2>5. CASE Main
    BY <2>5, NothingMoves DEF IInv, Main, MainStop, StopLB, JoinLB, StopFP, JoinFP, JoinOut,
                              readerVars, lbVars, fpVars, outVars
  <2>6. CASE UNCHANGED vars
    BY <2>6, NothingMoves DEF IInv, vars, readerVars, lbVars, fpVars, outVars
  <2> QED BY <2>1, <2>2, <2>3, <2>4, <2>5, <2>6 DEF Next
<1> QED BY <1>1, <1>2 DEF IInv

(* The inductive invariant holds in every reachable state.                 *)
THEOREM Invariance == Spec => []IInv
<1>1. Init => IInv
  BY InitTypeInv, InitStopOrder, InitDataInv DEF IInv
<1> QED BY <1>1, StepIInv, PTL DEF Spec

(* Packets of a flow reach the output file in capture order, each once.    *)
THEOREM FlowOrderHolds == Spec => []FlowOrder
<1>1. IInv => FlowOrder
  BY DEF IInv, DataInv, QueuesSorted, FlowOrder
<1> QED BY <1>1, Invariance, PTL

(* What a run leaves out of the file of a flow is never followed by        *)
(* another packet of this flow: stop() cuts a flow, it makes no hole.      *)
THEOREM NoGap == Spec => []NoGapInFlow
<1>1. IInv => NoGapInFlow
  <2> SUFFICES ASSUME IInv, NEW p \in Packets, NEW q \in Packets,
                      p < q, SameFlow(p, q), at[q] = "output"
               PROVE  at[p] \in {"output", "dropped"}
    BY DEF NoGapInFlow
  <2>1. Stage(at[p]) >= Passed(at[q])
    BY DEF IInv, DataInv, Ahead
  <2>2. Stage(at[p]) >= 7
    BY <2>1 DEF Stage, Passed
  <2>3. at[p] \in Places /\ at[p] # "discarded"
    BY DEF IInv, DataInv, TypeInv, TypeOK, NothingDiscarded
  <2> QED BY <2>2, <2>3 DEF Stage, Places
<1> QED BY <1>1, Invariance, PTL

(* No packet is lost or copied between two threads, and none is in another *)
(* queue than those its hash selects.                                      *)
THEOREM OnePlace == Spec => []EachPacketInOnePlace
<1>1. IInv => EachPacketInOnePlace
  BY DEF IInv, DataInv
<1> QED BY <1>1, Invariance, PTL

(* No push ever meets a queue that is shut down, so none drops its packet. *)
THEOREM NoDiscard == Spec => []NothingDiscarded
<1>1. IInv => NothingDiscarded
  BY DEF IInv, DataInv
<1> QED BY <1>1, Invariance, PTL

----------------------------------------------------------------------------
(* The engine implements FlowFilter.                                       *)

LEMMA InitFilter == Init => Filter!Init
BY CaptureType DEF Init, Filter!Init, Filter!Packets, Packets, Verdict

LEMMA JudgeStep ==
    ASSUME IInv, NEW f \in FPs, FPDrop(f) \/ FPForward(f)
    PROVE  \E p \in Filter!Packets, v \in {"FORWARD", "DROP"} : Filter!Judge(p, v)
<1> DEFINE x == Head(fpQueue[f])
<1> DEFINE to == IF FPDrop(f) THEN "dropped" ELSE "fp"
<1>1. /\ x \in Packets /\ at[x] = "fp_queue"
      /\ \A p \in Packets : p < x /\ capture[p] = capture[x] => Stage(at[p]) >= 6
  BY FPFront DEF FPDrop, FPForward
<1>2. at' = [at EXCEPT ![x] = to] /\ UNCHANGED <<capture, output>>
  BY DEF FPDrop, FPForward, outVars
<1>3. to \in {"dropped", "fp"} /\ Verdict(to) \in {"FORWARD", "DROP"}
  BY DEF Verdict
<1> HIDE DEF x, to
<1>4. at \in [Packets -> Places]
  BY DEF IInv, TypeInv, TypeOK
<1>5. \A p \in Packets : p < x /\ capture[p] = capture[x] => Verdict(at[p]) # "none"
  BY <1>1, <1>4 DEF Stage, Verdict, Places
<1>6. Verdict(at[x]) = "none"
  BY <1>1 DEF Verdict
<1>7. \A p \in Packets : at'[p] = IF p = x THEN to ELSE at[p]
  BY <1>1, <1>2, <1>4
<1>8. [p \in Packets |-> Verdict(at'[p])] =
          [[p \in Packets |-> Verdict(at[p])] EXCEPT ![x] = Verdict(to)]
  BY <1>1, <1>7
<1>9. Filter!Judge(x, Verdict(to))
  BY <1>1, <1>2, <1>5, <1>6, <1>8
     DEF Filter!Judge, Filter!SameFlowBefore, Filter!Packets, Packets
<1> QED BY <1>1, <1>3, <1>9 DEF Filter!Packets, Packets

LEMMA WriteStep ==
    ASSUME IInv, WriterWrite
    PROVE  \E p \in Filter!Packets : Filter!Write(p)
<1> DEFINE x == Head(outQueue)
<1>1. /\ x \in Packets /\ at[x] = "out_queue"
      /\ \A p \in Packets : p < x /\ capture[p] = capture[x] => Stage(at[p]) >= 7
  BY OutFront DEF WriterWrite
<1>2. /\ at' = [at EXCEPT ![x] = "output"] /\ output' = Append(output, x)
      /\ capture' = capture
  BY DEF WriterWrite
<1> HIDE DEF x
<1>3. /\ at \in [Packets -> Places]
      /\ \A p \in Packets : Holds(output, p) <=> at[p] = "output"
  BY DEF IInv, TypeInv, TypeOK, DataInv, EachPacketInOnePlace, OutAgrees
<1>4. \A p \in Packets : Filter!Written(p) <=> at[p] = "output"
  BY <1>3 DEF Filter!Written, Holds
<1>5. [p \in Packets |-> Verdict(at'[p])] = [p \in Packets |-> Verdict(at[p])]
  BY <1>1, <1>2, <1>3 DEF Verdict
<1>6. Verdict(at[x]) = "FORWARD"
  BY <1>1 DEF Verdict
<1>7. \A p \in Packets : p < x /\ capture[p] = capture[x] =>
                             (Verdict(at[p]) = "FORWARD" => at[p] = "output")
  <2>1. \A p \in Packets : at[p] # "discarded"
    BY DEF IInv, DataInv, NothingDiscarded
  <2> QED BY <1>1, <1>3, <2>1 DEF Stage, Verdict, Places
<1>8. ~ Filter!Written(x)
  BY <1>1, <1>4
<1>9. \A q \in Filter!SameFlowBefore(x) :
          [p \in Packets |-> Verdict(at[p])][q] = "FORWARD" => Filter!Written(q)
  BY <1>4, <1>7 DEF Filter!SameFlowBefore, Filter!Packets, Packets
<1>10. Filter!Write(x)
  BY <1>1, <1>2, <1>5, <1>6, <1>8, <1>9 DEF Filter!Write
<1> QED BY <1>1, <1>10 DEF Filter!Packets, Packets

(* A step that leaves the file and every verdict alone.                    *)
LEMMA SameVerdicts ==
    ASSUME UNCHANGED <<capture, output>>,
           \A p \in Packets : Verdict(at'[p]) = Verdict(at[p])
    PROVE  UNCHANGED Filter!vars
<1>1. [p \in Packets |-> Verdict(at'[p])] = [p \in Packets |-> Verdict(at[p])]
  OBVIOUS
<1> QED BY <1>1 DEF Filter!vars

(* The steps of the threads that judge no packet.                          *)
Carries ==
    \/ Reader
    \/ \E l \in LBs : LB(l)
    \/ \E f \in FPs : FPCheck(f) \/ FPTimeout(f) \/ FPPush(f)
    \/ Writer
    \/ Main

LEMMA CarryVerdicts ==
    ASSUME IInv, Carries
    PROVE  \A p \in Packets : Verdict(at'[p]) = Verdict(at[p])
<1>1. at \in [Packets -> Places]
  BY DEF IInv, TypeInv, TypeOK
<1> DEFINE Moves(x, to) == /\ x \in Packets /\ at' = [at EXCEPT ![x] = to]
                           /\ Verdict(at[x]) = Verdict(to)
<1> DEFINE Same == \A p \in Packets : Verdict(at'[p]) = Verdict(at[p])
<1>2. ASSUME NEW x, NEW to, Moves(x, to) PROVE Same
  <2>1. \A p \in Packets : at'[p] = IF p = x THEN to ELSE at[p]
    BY <1>1, <1>2
  <2> QED BY <1>2, <2>1
<1>3. CASE Reader
  <2> USE DEF IInv, DataInv, TypeInv, TypeOK
  <2>1. CASE ReaderRead
    <3>1. next \in Packets /\ at[next] = "capture"
      BY <2>1 DEF ReaderRead, EachPacketInOnePlace, ReaderAgrees
    <3>2. Moves(next, "reader")
      BY <2>1, <3>1 DEF ReaderRead, Verdict
    <3> QED BY <1>2, <3>2
  <2>2. CASE ReaderPush
    <3>1. next \in Packets /\ at[next] = "reader"
      BY <2>2 DEF ReaderPush, HandsBusy, EachPacketInOnePlace, ReaderAgrees
    <3>2. SelectLB(capture[next]) \in LBs
      BY <3>1, SelectLBType
    <3>3. Moves(next, "lb_queue")
      BY <2>2, <3>1, <3>2, QueuesOpen DEF ReaderPush, Verdict
    <3> QED BY <1>2, <3>3
  <2>3. CASE ReaderEnd
    BY <2>3 DEF ReaderEnd
  <2> QED BY <1>3, <2>1, <2>2, <2>3 DEF Reader
<1>4. ASSUME NEW l \in LBs, LB(l) PROVE Same
  <2> USE DEF IInv, DataInv, TypeInv, TypeOK
  <2>1. CASE LBCheck(l) \/ LBTimeout(l)
    BY <2>1 DEF LBCheck, LBTimeout
  <2>2. CASE LBPop(l)
    <3> DEFINE x == Head(lbQueue[l])
    <3>1. x \in Packets /\ Holds(lbQueue[l], x)
      BY <2>2, FrontType, HoldsFront DEF LBPop
    <3>2. LBsAgree(x)
      BY <3>1 DEF EachPacketInOnePlace
    <3>3. at[x] = "lb_queue"
      BY <3>1, <3>2 DEF LBsAgree
    <3>4. Moves(x, "lb")
      BY <2>2, <3>1, <3>3 DEF LBPop, Verdict
    <3> QED BY <1>2, <3>4
  <2>3. CASE LBPush(l)
    <3> DEFINE x == lbJob[l]
    <3>1. x \in Packets
      BY <2>3 DEF LBPush, HandsBusy
    <3>2. LBsAgree(x) /\ SelectFP(l, capture[x]) \in FPs
      BY <3>1, SelectFPType DEF EachPacketInOnePlace
    <3>3. at[x] = "lb"
      BY <3>2 DEF LBsAgree
    <3>4. Moves(x, "fp_queue")
      BY <2>3, <3>1, <3>2, <3>3, QueuesOpen DEF LBPush, Verdict
    <3> QED BY <1>2, <3>4
  <2> QED BY <1>4, <2>1, <2>2, <2>3 DEF LB
<1>5. ASSUME NEW f \in FPs, FPCheck(f) \/ FPTimeout(f) \/ FPPush(f) PROVE Same
  <2> USE DEF IInv, DataInv, TypeInv, TypeOK
  <2>1. CASE FPCheck(f) \/ FPTimeout(f)
    BY <2>1 DEF FPCheck, FPTimeout
  <2>2. CASE FPPush(f)
    <3> DEFINE x == fpJob[f]
    <3>1. x \in Packets
      BY <2>2 DEF FPPush, HandsBusy
    <3>2. FPsAgree(x)
      BY <3>1 DEF EachPacketInOnePlace
    <3>3. at[x] = "fp"
      BY <3>2 DEF FPsAgree
    <3>4. Moves(x, "out_queue")
      BY <2>2, <3>1, <3>3, QueuesOpen DEF FPPush, Verdict
    <3> QED BY <1>2, <3>4
  <2> QED BY <1>5, <2>1, <2>2
<1>6. CASE Writer
  <2>1. CASE WriterCheck \/ WriterTimeout
    BY <2>1 DEF WriterCheck, WriterTimeout
  <2>2. CASE WriterWrite
    <3> DEFINE x == Head(outQueue)
    <3>1. x \in Packets /\ at[x] = "out_queue"
      BY <2>2, OutFront DEF WriterWrite
    <3>2. Moves(x, "output")
      BY <2>2, <3>1 DEF WriterWrite, Verdict
    <3> QED BY <1>2, <3>2
  <2> QED BY <1>6, <2>1, <2>2 DEF Writer
<1>7. CASE Main
  BY <1>7 DEF Main, MainStop, StopLB, JoinLB, StopFP, JoinFP, JoinOut
<1> QED BY <1>3, <1>4, <1>5, <1>6, <1>7 DEF Carries

LEMMA StepFilter == IInv /\ [Next]_vars => [Filter!Next]_(Filter!vars)
<1> SUFFICES ASSUME IInv, [Next]_vars PROVE Filter!Next \/ UNCHANGED Filter!vars
  OBVIOUS
<1>1. CASE \E f \in FPs : FPDrop(f) \/ FPForward(f)
  BY <1>1, JudgeStep DEF Filter!Next
<1>2. CASE WriterWrite
  BY <1>2, WriteStep DEF Filter!Next
<1>3. CASE Carries /\ ~ WriterWrite
  <2>1. UNCHANGED <<capture, output>>
    BY <1>3 DEF Carries, Reader, ReaderRead, ReaderPush, ReaderEnd, LB, LBCheck,
       LBTimeout, LBPop, LBPush, FPCheck, FPTimeout, FPPush, Writer, WriterCheck,
       WriterTimeout, Main, MainStop, StopLB, JoinLB, StopFP, JoinFP, JoinOut, outVars
  <2> QED BY <1>3, <2>1, CarryVerdicts, SameVerdicts
<1>4. CASE UNCHANGED vars
  BY <1>4, SameVerdicts DEF vars, outVars
<1> QED BY <1>1, <1>2, <1>3, <1>4 DEF Next, Carries, FP

(* Every run of the engine is a run of the filter: threads, queues, hashing*)
(* and an abrupt stop never show in the order of judgements or of the file.*)
THEOREM Refinement == Spec => FilterSpec
<1> QED BY InitFilter, StepFilter, Invariance, PTL DEF Spec, FilterSpec, Filter!Spec

----------------------------------------------------------------------------
(* Both levels of hashing use the same hash: with as many LBs as FPs per   *)
(* LB (2 and 2 by default) LB l only ever feeds its FP number l, and the   *)
(* queue of every other FP stays empty.                                    *)
IdleFPs ==
    NumLBs = FPsPerLB =>
        \A l \in LBs, i \in LBs : i # l => fpQueue[(l * FPsPerLB) + i] = <<>>

LEMMA GridUnique ==
    ASSUME NEW F \in Nat \ {0}, NEW l \in Nat, NEW i \in 0 .. F - 1,
           NEW m \in Nat, NEW j \in 0 .. F - 1, (l * F) + i = (m * F) + j
    PROVE  i = j /\ l = m
<1>1. (l - m) * F = j - i
  OBVIOUS
<1>2. l - m >= 1 => (l - m) * F >= F
  <2>1. (l - m) * F = F + ((l - m - 1) * F)
    OBVIOUS
  <2>2. l - m >= 1 => (l - m - 1) * F >= 0
    OBVIOUS
  <2> QED BY <2>1, <2>2
<1>3. m - l >= 1 => (l - m) * F <= 0 - F
  <2>1. (l - m) * F = 0 - F - ((m - l - 1) * F)
    OBVIOUS
  <2>2. m - l >= 1 => (m - l - 1) * F >= 0
    OBVIOUS
  <2> QED BY <2>1, <2>2
<1>4. l = m
  BY <1>1, <1>2, <1>3
<1> QED BY <1>1, <1>4

(* The FPs off the diagonal of the grid stay idle for ever.                *)
THEOREM HashReuse == Spec => []IdleFPs
<1>1. IInv => IdleFPs
  <2> SUFFICES ASSUME IInv, NumLBs = FPsPerLB, NEW l \in LBs, NEW i \in LBs, i # l
               PROVE  fpQueue[(l * FPsPerLB) + i] = <<>>
    BY DEF IdleFPs
  <2> DEFINE f == (l * FPsPerLB) + i
  <2>1. f \in FPs
    BY IndexInGrid, EngineAssumption DEF LBs, FPs
  <2> HIDE DEF f
  <2>2. fpQueue[f] \in Seq(Packets)
    BY <2>1 DEF IInv, TypeInv, TypeOK
  <2>3. ASSUME fpQueue[f] # <<>> PROVE FALSE
    <3> DEFINE p == Head(fpQueue[f])
    <3>1. p \in Packets /\ Holds(fpQueue[f], p)
      BY <2>2, <2>3, FrontType, HoldsFront
    <3>2. FPsAgree(p)
      BY <3>1 DEF IInv, DataInv, EachPacketInOnePlace
    <3>3. f = FPOf(p)
      BY <2>1, <3>1, <3>2 DEF FPsAgree
    <3> DEFINE h == Hash[capture[p]]
    <3>4. h \in Nat /\ h % FPsPerLB \in 0 .. FPsPerLB - 1
      <4>1. h \in Nat
        BY <3>1, PacketRoute, EngineAssumption DEF IInv
      <4> HIDE DEF h
      <4> QED BY <4>1, EngineAssumption
    <3>5. f = ((h % FPsPerLB) * FPsPerLB) + (h % FPsPerLB)
      BY <3>3 DEF FPOf, LBOf, SelectFP, SelectLB
    <3> HIDE DEF h
    <3>6. i = h % FPsPerLB /\ l = h % FPsPerLB
      BY <3>4, <3>5, GridUnique, GridTypes DEF f, LBs
    <3> QED BY <3>6
  <2> QED BY <2>3 DEF f
<1> QED BY <1>1, Invariance, PTL
-----------------------------------------------------------------------------
(***************************************************************************)
(* THE REPORT. Its counters are related to the packets between the threads, *)
(* whose number changes by one when a packet moves.                        *)
(***************************************************************************)

AtIn(places) == {p \in Packets : at[p] \in places}

(* Read and not yet judged; forwarded and not yet pushed.                  *)
Unjudged == AtIn({"reader", "lb_queue", "lb", "fp_queue"})
InHand == AtIn({"fp"})

CountInv ==
    /\ stats.total = stats.forwarded + stats.dropped + Cardinality(Unjudged)
    /\ stats.forwarded = Len(output) + Len(outQueue) + Cardinality(InHand)

LEMMA FewPackets ==
    ASSUME NEW S \in SUBSET Packets
    PROVE  IsFiniteSet(S) /\ Cardinality(S) \in Nat
<1>1. MaxPackets \in Nat /\ 1 \in Int /\ MaxPackets \in Int
  BY EngineAssumption
<1>2. IsFiniteSet(Packets)
  BY <1>1, FS_Interval DEF Packets
<1>3. IsFiniteSet(S)
  BY <1>2, FS_Subset
<1>4. QED
  BY <1>3, FS_CardinalityType

LEMMA OneMore ==
    ASSUME NEW S \in SUBSET Packets, NEW x \in Packets
    PROVE  /\ x \notin S => Cardinality(S \cup {x}) = Cardinality(S) + 1
           /\ x \in S => Cardinality(S \ {x}) = Cardinality(S) - 1
BY FewPackets, FS_AddElement, FS_RemoveElement

(* How many are in some places, after x has moved.                         *)
Weight(place, places) == IF place \in places THEN 1 ELSE 0

LEMMA MoveCount ==
    ASSUME at \in [Packets -> Places], NEW x \in Packets, NEW to \in Places,
           at' = [at EXCEPT ![x] = to], NEW places \in SUBSET Places
    PROVE  /\ Cardinality(AtIn(places)') + Weight(at[x], places)
                  = Cardinality(AtIn(places)) + Weight(to, places)
           /\ Cardinality(AtIn(places)) \in Nat /\ Cardinality(AtIn(places)') \in Nat
<1>1. \A p \in Packets : at'[p] = IF p = x THEN to ELSE at[p]
  OBVIOUS
<1>2. PICK S \in SUBSET Packets : S = AtIn(places)
  BY DEF AtIn
<1>3. PICK T \in SUBSET Packets : T = AtIn(places)'
  BY DEF AtIn
<1>4. \A p \in Packets : (p \in S <=> at[p] \in places) /\ (p \in T <=> at'[p] \in places)
  BY <1>2, <1>3 DEF AtIn
<1>5. Cardinality(S) \in Nat /\ Cardinality(T) \in Nat
  BY FewPackets
<1>6. Cardinality(T) + Weight(at[x], places) = Cardinality(S) + Weight(to, places)
  <2>1. CASE at[x] \in places /\ to \in places
    <3>1. T = S
      BY <1>1, <1>4, <2>1
    <3>2. QED
      BY <2>1, <3>1 DEF Weight
  <2>2. CASE at[x] \notin places /\ to \notin places
    <3>1. T = S
      BY <1>1, <1>4, <2>2
    <3>2. QED
      BY <2>2, <3>1 DEF Weight
  <2>3. CASE at[x] \notin places /\ to \in places
    <3>1. T = S \cup {x} /\ x \notin S
      BY <1>1, <1>4, <2>3
    <3>2. Cardinality(T) = Cardinality(S) + 1
      BY <3>1, OneMore
    <3>3. QED
      BY <1>5, <2>3, <3>2 DEF Weight
  <2>4. CASE at[x] \in places /\ to \notin places
    <3>1. T = S \ {x} /\ x \in S
      BY <1>1, <1>4, <2>4
    <3>2. Cardinality(T) = Cardinality(S) - 1
      BY <3>1, OneMore
    <3>3. QED
      BY <1>5, <2>4, <3>2 DEF Weight
  <2>5. QED
    BY <2>1, <2>2, <2>3, <2>4
<1>7. QED
  BY <1>2, <1>3, <1>5, <1>6

Unjudging == {"reader", "lb_queue", "lb", "fp_queue"}

(* What one move does to both numbers.                                     *)
LEMMA Move ==
    ASSUME IInv, NEW x \in Packets, NEW to \in Places, at' = [at EXCEPT ![x] = to]
    PROVE  /\ Cardinality(Unjudged') + Weight(at[x], Unjudging)
                  = Cardinality(Unjudged) + Weight(to, Unjudging)
           /\ Cardinality(InHand') + Weight(at[x], {"fp"})
                  = Cardinality(InHand) + Weight(to, {"fp"})
           /\ Cardinality(Unjudged) \in Nat /\ Cardinality(InHand) \in Nat
           /\ Cardinality(Unjudged') \in Nat /\ Cardinality(InHand') \in Nat
<1>1. at \in [Packets -> Places]
  BY DEF IInv, TypeInv, TypeOK
<1>2. Unjudging \in SUBSET Places /\ {"fp"} \in SUBSET Places
  BY DEF Places, Unjudging
<1>3. Unjudged = AtIn(Unjudging) /\ InHand = AtIn({"fp"})
  BY DEF Unjudged, Unjudging, InHand
<1>4. Unjudged' = AtIn(Unjudging)' /\ InHand' = AtIn({"fp"})'
  BY DEF Unjudged, Unjudging, InHand
<1>5. /\ Cardinality(AtIn(Unjudging)') + Weight(at[x], Unjudging)
             = Cardinality(AtIn(Unjudging)) + Weight(to, Unjudging)
      /\ Cardinality(AtIn(Unjudging)) \in Nat /\ Cardinality(AtIn(Unjudging)') \in Nat
  BY <1>1, <1>2, MoveCount
<1>6. /\ Cardinality(AtIn({"fp"})') + Weight(at[x], {"fp"})
             = Cardinality(AtIn({"fp"})) + Weight(to, {"fp"})
      /\ Cardinality(AtIn({"fp"})) \in Nat /\ Cardinality(AtIn({"fp"})') \in Nat
  BY <1>1, <1>2, MoveCount
<1>7. QED
  BY <1>3, <1>4, <1>5, <1>6

(* x goes on to `to`, and the counters of total, forwarded and dropped     *)
(* packets and the lengths of file and output queue grow by t, f, d, o, q. *)
Goes(x, to, t, f, d, o, q) ==
    /\ x \in Packets /\ to \in Places /\ at' = [at EXCEPT ![x] = to]
    /\ t \in Nat /\ f \in Nat /\ d \in Nat /\ o \in Nat /\ q \in Int
    /\ stats'.total = stats.total + t /\ stats'.forwarded = stats.forwarded + f
    /\ stats'.dropped = stats.dropped + d
    /\ Len(output') = Len(output) + o /\ Len(outQueue') = Len(outQueue) + q
    /\ t + Weight(at[x], Unjudging) = f + d + Weight(to, Unjudging)
    /\ f + Weight(at[x], {"fp"}) = o + q + Weight(to, {"fp"})

LEMMA SumsMove ==
    ASSUME NEW a \in Int, NEW b \in Int, NEW c \in Int, NEW u \in Int, NEW v \in Int,
           NEW t \in Int, NEW f \in Int, NEW d \in Int, NEW x \in Int, NEW y \in Int,
           a = b + c + u, t + x = f + d + y, v + x = u + y
    PROVE  a + t = (b + f) + (c + d) + v
OBVIOUS

(* Both equations stay when the counters change as the places do.          *)
LEMMA Recount ==
    ASSUME IInv, CountInv, NEW x, NEW to, NEW t, NEW f, NEW d, NEW o, NEW q,
           Goes(x, to, t, f, d, o, q)
    PROVE  CountInv'
<1> DEFINE ux == Weight(at[x], Unjudging)
           uto == Weight(to, Unjudging)
           hx == Weight(at[x], {"fp"})
           hto == Weight(to, {"fp"})
           U == Cardinality(Unjudged)
           H == Cardinality(InHand)
<1>1. /\ stats.total \in Nat /\ stats.forwarded \in Nat /\ stats.dropped \in Nat
      /\ Len(output) \in Nat /\ Len(outQueue) \in Nat
  BY DEF IInv, TypeInv, TypeOK
<1>2. ux \in Nat /\ uto \in Nat /\ hx \in Nat /\ hto \in Nat
  BY DEF Weight
<1>3. /\ U' + ux = U + uto /\ H' + hx = H + hto
      /\ U \in Nat /\ H \in Nat /\ U' \in Nat /\ H' \in Nat
  BY Move DEF Goes
<1>4. /\ stats.total = stats.forwarded + stats.dropped + U
      /\ stats.forwarded = Len(output) + Len(outQueue) + H
  BY DEF CountInv
<1>5. /\ t \in Nat /\ f \in Nat /\ d \in Nat /\ o \in Nat /\ q \in Int
      /\ t + ux = f + d + uto /\ f + hx = o + q + hto
  BY DEF Goes
<1>6. /\ stats'.total = stats.total + t /\ stats'.forwarded = stats.forwarded + f
      /\ stats'.dropped = stats.dropped + d
      /\ Len(output') = Len(output) + o /\ Len(outQueue') = Len(outQueue) + q
  BY DEF Goes
<1> HIDE DEF ux, uto, hx, hto, U, H
<1>7. stats.total + t = (stats.forwarded + f) + (stats.dropped + d) + U'
  <2>1. PICK a \in Int, b \in Int, c \in Int, u \in Int, v \in Int, y \in Int, z \in Int :
            /\ a = stats.total /\ b = stats.forwarded /\ c = stats.dropped
            /\ u = U /\ v = U' /\ y = ux /\ z = uto
    BY <1>1, <1>2, <1>3
  <2>2. t \in Int /\ f \in Int /\ d \in Int
    BY <1>5
  <2>3. a = b + c + u /\ t + y = f + d + z /\ v + y = u + z
    BY <2>1, <1>3, <1>4, <1>5
  <2>4. a + t = (b + f) + (c + d) + v
    BY <2>2, <2>3, SumsMove
  <2>5. QED
    BY <2>1, <2>4
<1>8. stats.forwarded + f = (Len(output) + o) + (Len(outQueue) + q) + H'
  <2>1. PICK a \in Int, b \in Int, c \in Int, u \in Int, v \in Int, y \in Int, z \in Int :
            /\ a = stats.forwarded /\ b = Len(output) /\ c = Len(outQueue)
            /\ u = H /\ v = H' /\ y = hx /\ z = hto
    BY <1>1, <1>2, <1>3
  <2>2. f \in Int /\ o \in Int /\ q \in Int
    BY <1>5
  <2>3. a = b + c + u /\ f + y = o + q + z /\ v + y = u + z
    BY <2>1, <1>3, <1>4, <1>5
  <2>4. a + f = (b + o) + (c + q) + v
    BY <2>2, <2>3, SumsMove
  <2>5. QED
    BY <2>1, <2>4
<1>9. QED
  BY <1>6, <1>7, <1>8 DEF CountInv, U, H

LEMMA Counters ==
    IInv => /\ stats \in [total : Nat, forwarded : Nat, dropped : Nat]
            /\ Len(output) \in Nat /\ Len(outQueue) \in Nat
BY DEF IInv, TypeInv, TypeOK

(* A step that neither counts nor moves a packet.                          *)
LEMMA CountQuiet ==
    ASSUME CountInv, UNCHANGED <<stats, at, output, outQueue>>
    PROVE  CountInv'
BY DEF CountInv, Unjudged, InHand, AtIn

LEMMA CountReader == IInv /\ CountInv /\ Reader => CountInv'
<1> SUFFICES ASSUME IInv, CountInv, Reader PROVE CountInv'
  OBVIOUS
<1>1. CASE ReaderRead
  <2>1. next \in Packets /\ at[next] = "capture"
    BY <1>1 DEF ReaderRead, IInv, DataInv, EachPacketInOnePlace, ReaderAgrees
  <2>2. /\ at' = [at EXCEPT ![next] = "reader"] /\ "reader" \in Places
        /\ stats' = [stats EXCEPT !.total = @ + 1] /\ UNCHANGED <<output, outQueue>>
    BY <1>1 DEF ReaderRead, outVars, Places
  <2>3. Goes(next, "reader", 1, 0, 0, 0, 0)
    BY <2>1, <2>2, Counters DEF Goes, Weight, Unjudging
  <2>4. QED
    BY <2>3, Recount
<1>2. CASE ReaderPush
  <2>1. next \in Packets /\ at[next] = "reader" /\ SelectLB(capture[next]) \in LBs
    BY <1>2, SelectLBType DEF ReaderPush, IInv, TypeInv, TypeOK, HandsBusy, DataInv,
       EachPacketInOnePlace, ReaderAgrees
  <2>2. /\ at' = [at EXCEPT ![next] = "lb_queue"] /\ "lb_queue" \in Places
        /\ UNCHANGED <<stats, output, outQueue>>
    BY <1>2, <2>1, QueuesOpen DEF ReaderPush, outVars, Places, IInv
  <2>3. Goes(next, "lb_queue", 0, 0, 0, 0, 0)
    BY <2>1, <2>2, Counters DEF Goes, Weight, Unjudging
  <2>4. QED
    BY <2>3, Recount
<1>3. CASE ReaderEnd
  BY <1>3, CountQuiet DEF ReaderEnd, outVars
<1>4. QED
  BY <1>1, <1>2, <1>3 DEF Reader

LEMMA CountLB == \A l \in LBs : IInv /\ CountInv /\ LB(l) => CountInv'
<1> SUFFICES ASSUME NEW l \in LBs, IInv, CountInv, LB(l) PROVE CountInv'
  OBVIOUS
<1>1. CASE LBCheck(l) \/ LBTimeout(l)
  BY <1>1, CountQuiet DEF LBCheck, LBTimeout, outVars
<1>2. CASE LBPop(l)
  <2> DEFINE x == Head(lbQueue[l])
  <2>1. x \in Packets /\ Holds(lbQueue[l], x)
    BY <1>2, FrontType, HoldsFront DEF LBPop, IInv, TypeInv, TypeOK
  <2>2. at[x] = "lb_queue"
    BY <2>1 DEF IInv, DataInv, EachPacketInOnePlace, LBsAgree
  <2>3. /\ at' = [at EXCEPT ![x] = "lb"] /\ "lb" \in Places
        /\ UNCHANGED <<stats, output, outQueue>>
    BY <1>2 DEF LBPop, outVars, Places
  <2> HIDE DEF x
  <2>4. Goes(x, "lb", 0, 0, 0, 0, 0)
    BY <2>1, <2>2, <2>3, Counters DEF Goes, Weight, Unjudging
  <2>5. QED
    BY <2>4, Recount
<1>3. CASE LBPush(l)
  <2> DEFINE x == lbJob[l]
  <2>1. x \in Packets
    BY <1>3 DEF LBPush, IInv, TypeInv, HandsBusy
  <2>2. at[x] = "lb" /\ SelectFP(l, capture[x]) \in FPs
    BY <2>1, SelectFPType DEF IInv, TypeInv, TypeOK, DataInv, EachPacketInOnePlace, LBsAgree
  <2>3. /\ at' = [at EXCEPT ![x] = "fp_queue"] /\ "fp_queue" \in Places
        /\ UNCHANGED <<stats, output, outQueue>>
    BY <1>3, <2>1, <2>2, QueuesOpen DEF LBPush, outVars, Places, IInv
  <2> HIDE DEF x
  <2>4. Goes(x, "fp_queue", 0, 0, 0, 0, 0)
    BY <2>1, <2>2, <2>3, Counters DEF Goes, Weight, Unjudging
  <2>5. QED
    BY <2>4, Recount
<1>4. QED
  BY <1>1, <1>2, <1>3 DEF LB

LEMMA CountFP == \A f \in FPs : IInv /\ CountInv /\ FP(f) => CountInv'
<1> SUFFICES ASSUME NEW f \in FPs, IInv, CountInv, FP(f) PROVE CountInv'
  OBVIOUS
<1>1. CASE FPCheck(f) \/ FPTimeout(f)
  BY <1>1, CountQuiet DEF FPCheck, FPTimeout, outVars
<1>2. CASE FPDrop(f) \/ FPForward(f)
  <2> DEFINE x == Head(fpQueue[f])
  <2>1. x \in Packets /\ at[x] = "fp_queue"
    BY <1>2, FPFront DEF FPDrop, FPForward
  <2>2. UNCHANGED <<output, outQueue>>
    BY <1>2 DEF FPDrop, FPForward, outVars
  <2>3. CASE FPDrop(f)
    <3>1. /\ at' = [at EXCEPT ![x] = "dropped"] /\ "dropped" \in Places
          /\ stats' = [stats EXCEPT !.dropped = @ + 1]
      BY <2>3 DEF FPDrop, Places
    <3> HIDE DEF x
    <3>2. Goes(x, "dropped", 0, 0, 1, 0, 0)
      BY <2>1, <2>2, <3>1, Counters DEF Goes, Weight, Unjudging
    <3>3. QED
      BY <3>2, Recount
  <2>4. CASE FPForward(f)
    <3>1. /\ at' = [at EXCEPT ![x] = "fp"] /\ "fp" \in Places
          /\ stats' = [stats EXCEPT !.forwarded = @ + 1]
      BY <2>4 DEF FPForward, Places
    <3> HIDE DEF x
    <3>2. Goes(x, "fp", 0, 1, 0, 0, 0)
      BY <2>1, <2>2, <3>1, Counters DEF Goes, Weight, Unjudging
    <3>3. QED
      BY <3>2, Recount
  <2>5. QED
    BY <1>2, <2>3, <2>4
<1>3. CASE FPPush(f)
  <2> DEFINE x == fpJob[f]
  <2>1. x \in Packets /\ OutOpen
    BY <1>3, QueuesOpen DEF FPPush, IInv, TypeInv, HandsBusy
  <2>2. at[x] = "fp"
    BY <2>1 DEF IInv, DataInv, EachPacketInOnePlace, FPsAgree
  <2>3. /\ at' = [at EXCEPT ![x] = "out_queue"] /\ "out_queue" \in Places
        /\ UNCHANGED <<stats, output>> /\ outQueue' = Append(outQueue, x)
    BY <1>3, <2>1 DEF FPPush, Pushed, Places
  <2>4. Len(outQueue') = Len(outQueue) + 1
    BY <2>1, <2>3 DEF IInv, TypeInv, TypeOK
  <2> HIDE DEF x
  <2>5. Goes(x, "out_queue", 0, 0, 0, 0, 1)
    BY <2>1, <2>2, <2>3, <2>4, Counters DEF Goes, Weight, Unjudging
  <2>6. QED
    BY <2>5, Recount
<1>4. QED
  BY <1>1, <1>2, <1>3 DEF FP

LEMMA CountWriter == IInv /\ CountInv /\ Writer => CountInv'
<1> SUFFICES ASSUME IInv, CountInv, Writer PROVE CountInv'
  OBVIOUS
<1>1. CASE WriterCheck \/ WriterTimeout
  BY <1>1, CountQuiet DEF WriterCheck, WriterTimeout
<1>2. CASE WriterWrite
  <2> DEFINE x == Head(outQueue)
  <2>1. x \in Packets /\ at[x] = "out_queue"
    BY <1>2, OutFront DEF WriterWrite
  <2>2. /\ at' = [at EXCEPT ![x] = "output"] /\ "output" \in Places
        /\ UNCHANGED stats /\ outQueue' = Tail(outQueue) /\ output' = Append(output, x)
    BY <1>2 DEF WriterWrite, Places
  <2>3. /\ outQueue \in Seq(Packets) /\ outQueue # <<>> /\ output \in Seq(Packets)
    BY <1>2 DEF WriterWrite, IInv, TypeInv, TypeOK
  <2>4. /\ Len(outQueue') = Len(outQueue) - 1 /\ Len(output') = Len(output) + 1
        /\ Len(outQueue) \in Nat /\ Len(output) \in Nat
    BY <2>1, <2>2, <2>3
  <2> HIDE DEF x
  <2>5. Len(outQueue') = Len(outQueue) + (0 - 1) /\ 0 - 1 \in Int
    BY <2>4
  <2>6. Goes(x, "output", 0, 0, 0, 1, 0 - 1)
    BY <2>1, <2>2, <2>4, <2>5, Counters DEF Goes, Weight, Unjudging
  <2>7. QED
    BY <2>6, Recount
<1>3. QED
  BY <1>1, <1>2 DEF Writer

LEMMA InitCount == Init => CountInv
<1> SUFFICES ASSUME Init PROVE CountInv
  OBVIOUS
<1>1. Unjudged = {} /\ InHand = {}
  BY DEF Init, Unjudged, InHand, AtIn
<1>2. QED
  BY <1>1, FS_EmptySet DEF Init, CountInv

LEMMA StepCount == IInv /\ CountInv /\ [Next]_vars => CountInv'
<1> SUFFICES ASSUME IInv, CountInv, [Next]_vars PROVE CountInv'
  OBVIOUS
<1>1. CASE Main
  BY <1>1, CountQuiet
     DEF Main, MainStop, StopLB, JoinLB, StopFP, JoinFP, JoinOut, outVars
<1>2. CASE UNCHANGED vars
  BY <1>2, CountQuiet DEF vars, outVars
<1>3. QED
  BY <1>1, <1>2, CountReader, CountLB, CountFP, CountWriter DEF Next

(* When everybody has been joined nobody has a packet in hand.             *)
LEMMA HandsEmpty ==
    ASSUME IInv, mainPc = "done"
    PROVE  /\ Unjudged = {p \in Packets : at[p] \in {"lb_queue", "fp_queue"}}
           /\ InHand = {}
<1>1. /\ readerPc = "exit" /\ \A l \in LBs : lbPc[l] = "exit"
      /\ \A f \in FPs : fpPc[f] = "exit"
  BY DEF IInv, StopOrder
<1>2. ASSUME NEW p \in Packets PROVE at[p] \notin {"reader", "lb", "fp"}
  <2>1. LBOf(p) \in LBs /\ FPOf(p) \in FPs
    BY PacketRoute DEF IInv
  <2>2. ReaderAgrees(p) /\ LBsAgree(p) /\ FPsAgree(p)
    BY DEF IInv, DataInv, EachPacketInOnePlace
  <2>3. lbJob[LBOf(p)] # p /\ fpJob[FPOf(p)] # p
    BY <1>1, <2>1 DEF IInv, TypeInv, HandsBusy
  <2>4. QED
    BY <1>1, <2>1, <2>2, <2>3 DEF ReaderAgrees, LBsAgree, FPsAgree
<1>3. QED
  BY <1>2 DEF Unjudged, InHand, AtIn

(* The final report: what total exceeds the judged packets by is what      *)
(* stop() left in the queues of LBs and FPs, and the forwarded packets are *)
(* those in the file and those left in the output queue.                   *)
THEOREM ReportAdds == Spec => []ReportAddsUp
<1>1. IInv /\ CountInv => ReportAddsUp
  <2> SUFFICES ASSUME IInv, CountInv, mainPc = "done" PROVE ReportAddsUp
    BY DEF ReportAddsUp
  <2>1. Cardinality(InHand) = 0
    BY HandsEmpty, FS_EmptySet
  <2>2. stats.forwarded = Len(output) + Len(outQueue)
    <3>1. /\ Len(output) \in Nat /\ Len(outQueue) \in Nat
          /\ stats.forwarded = Len(output) + Len(outQueue) + Cardinality(InHand)
      BY DEF IInv, TypeInv, TypeOK, CountInv
    <3>2. QED
      BY <2>1, <3>1
  <2>3. stats.total = stats.forwarded + stats.dropped
          + Cardinality({p \in Packets : at[p] \in {"lb_queue", "fp_queue"}})
    <3>1. Unjudged = {p \in Packets : at[p] \in {"lb_queue", "fp_queue"}}
      BY HandsEmpty
    <3>2. stats.total = stats.forwarded + stats.dropped + Cardinality(Unjudged)
      BY DEF CountInv
    <3> HIDE DEF Unjudged
    <3>3. QED
      BY <3>1, <3>2
  <2>4. QED
    BY <2>2, <2>3 DEF ReportAddsUp
<1>2. IInv /\ CountInv /\ [Next]_vars => IInv' /\ CountInv'
  BY StepIInv, StepCount
<1>3. Init => IInv /\ CountInv
  BY InitTypeInv, InitStopOrder, InitDataInv, InitCount DEF IInv
<1>4. QED
  BY <1>1, <1>2, <1>3, PTL DEF Spec
-----------------------------------------------------------------------------
(***************************************************************************)
(* MTENGINE. Its steps are those of DPIEngine, except the two with which   *)
(* process() goes from thread to thread: what was proved of DPIEngine's    *)
(* steps is used, not proved again.                                        *)
(***************************************************************************)

(* DPIEngine's invariants do not depend on who ends the writer, and when.  *)

OwnStep == MTStop \/ MTJoinFP

Judging == \E f \in FPs : MTForward(f) \/ MTDrop(f)

LEMMA StepKinds ==
    ASSUME [MTNext]_mtVars
    PROVE  \/ Judging /\ Next
           \/ Carries /\ UNCHANGED blocked
           \/ OwnStep
           \/ UNCHANGED mtVars
<1>1. CASE MTReader \/ (\E l \in LBs : MTLB(l)) \/ MTWriter \/ MTMain
  BY <1>1 DEF MTReader, MTLB, MTWriter, MTMain, Main, Carries, OwnStep, MTStop, MTJoinFP
<1>2. ASSUME NEW f \in FPs, MTFP(f)
      PROVE  (Judging /\ Next) \/ (Carries /\ UNCHANGED blocked)
  <2>1. CASE MTForward(f) \/ MTDrop(f)
    BY <2>1 DEF MTForward, MTDrop, Judging, Next, FP
  <2>2. CASE (FPCheck(f) \/ FPTimeout(f) \/ FPPush(f)) /\ UNCHANGED blocked
    BY <2>2 DEF Carries
  <2>3. QED
    BY <1>2, <2>1, <2>2 DEF MTFP
<1>3. QED
  BY <1>1, <1>2 DEF MTNext

LEMMA StepShared ==
    ASSUME [MTNext]_mtVars
    PROVE  [Next]_vars \/ OwnStep
BY StepKinds DEF Carries, Next, FP, mtVars

LEMMA OwnStepIInv ==
    ASSUME IInv, CountInv, OwnStep
    PROVE  IInv' /\ CountInv'
<1>1. TypeInv'
  <2> USE FirstThreads DEF IInv, TypeInv, TypeOK, HandsBusy, readerVars, lbVars, fpVars,
     outVars
  <2>1. CASE MTStop
    BY <2>1 DEF MTStop
  <2>2. CASE MTJoinFP
    <3>1. CASE stopping + 1 \in FPs
      BY <2>2, <3>1 DEF MTJoinFP
    <3>2. CASE stopping + 1 \notin FPs
      <4>1. mainPc' = "join_out" /\ stopping' = 0 /\ running' = FALSE
        BY <2>2, <3>2 DEF MTJoinFP
      <4>2. UNCHANGED <<capture, readerVars, lbVars, fpVars, outVars, lbRunning, fpRunning,
                        stats, at>>
        BY <2>2 DEF MTJoinFP
      <4>3. QED
        BY <4>1, <4>2
    <3>3. QED
      BY <3>1, <3>2
  <2>3. QED
    BY <2>1, <2>2 DEF OwnStep
<1>2. StopOrder'
  <2> USE DEF IInv, TypeInv, TypeOK, StopOrder, readerVars, lbVars, fpVars
  <2>1. CASE MTStop
    BY <2>1 DEF MTStop, LBs
  <2>2. CASE MTJoinFP
    <3>1. \A k \in FPs : k < stopping + 1 => fpPc[k] = "exit"
      BY <2>2 DEF MTJoinFP, FPs
    <3>2. CASE stopping + 1 \in FPs
      BY <2>2, <3>1, <3>2 DEF MTJoinFP
    <3>3. CASE stopping + 1 \notin FPs
      <4>1. \A k \in FPs : fpPc[k] = "exit"
        BY <2>2, <3>1, <3>3, EngineAssumption DEF MTJoinFP, FPs
      <4>2. QED
        BY <2>2, <3>3, <4>1 DEF MTJoinFP
    <3>4. QED
      BY <3>2, <3>3
  <2>3. QED
    BY <2>1, <2>2 DEF OwnStep
<1>3. DataInv'
  BY NothingMoves DEF IInv, OwnStep, MTStop, MTJoinFP, readerVars, lbVars, fpVars, outVars
<1>4. CountInv'
  BY CountQuiet DEF OwnStep, MTStop, MTJoinFP, outVars
<1>5. QED
  BY <1>1, <1>2, <1>3, <1>4 DEF IInv

LEMMA MTStepIInv == IInv /\ CountInv /\ [MTNext]_mtVars => IInv' /\ CountInv'
BY StepShared, StepIInv, StepCount, OwnStepIInv

LEMMA MTInitIInv == MTInit => IInv /\ CountInv
BY InitTypeInv, InitStopOrder, InitDataInv, InitCount DEF MTInit, IInv

(* dpi_mt's own type correctness and that of what it shares.               *)
THEOREM MTInvariance == MTSpec => [](IInv /\ CountInv)
BY MTInitIInv, MTStepIInv, PTL DEF MTSpec

----------------------------------------------------------------------------
(* The end: output_running is cleared when the last FP has been joined, so *)
(* that the writer, which ends on an empty queue only, misses nothing.     *)

EndInv ==
    /\ running <=> mainPc \notin {"join_out", "done"}
    /\ outPc = "exit" => ~ running /\ outQueue = <<>>
    /\ mainPc = "done" => outPc = "exit"

LEMMA StepEndInv == IInv /\ EndInv /\ [MTNext]_mtVars => EndInv'
<1> SUFFICES ASSUME IInv, EndInv, [MTNext]_mtVars PROVE EndInv'
  OBVIOUS
<1> USE DEF EndInv, MTNext
<1>1. CASE MTReader
  BY <1>1 DEF MTReader, Reader, ReaderRead, ReaderPush, ReaderEnd, outVars, mainVars
<1>2. ASSUME NEW l \in LBs, MTLB(l) PROVE EndInv'
  BY <1>2 DEF MTLB, LB, LBCheck, LBTimeout, LBPop, LBPush, outVars, mainVars
<1>3. ASSUME NEW f \in FPs, MTFP(f) PROVE EndInv'
  <2>1. CASE FPPush(f)
    <3>1. mainPc \notin {"join_out", "done"}
      BY <2>1, QueuesOpen DEF FPPush, IInv, OutOpen
    <3>2. QED
      BY <2>1, <3>1 DEF FPPush, mainVars
  <2>2. CASE ~ FPPush(f)
    BY <1>3, <2>2 DEF MTFP, MTForward, MTDrop, FPForward, FPDrop, FPCheck, FPTimeout,
       outVars, mainVars
  <2>3. QED
    BY <2>1, <2>2
<1>4. CASE MTWriter
  BY <1>4 DEF MTWriter, Writer, WriterCheck, WriterTimeout, WriterWrite, WriterGoesOn,
     mainVars, IInv, TypeInv, TypeOK
<1>5. CASE MTMain
  BY <1>5 DEF MTMain, MTStop, MTJoinFP, StopLB, JoinLB, StopFP, JoinOut, outVars
<1>6. CASE UNCHANGED mtVars
  BY <1>6 DEF mtVars, vars, outVars, mainVars
<1>7. QED
  BY <1>1, <1>2, <1>3, <1>4, <1>5, <1>6

(* When process() returns, every packet counted as forwarded is in the     *)
(* file: what DPIEngine's stop() abandons here reaches the disk.           *)
THEOREM AllWrittenHolds == MTSpec => []AllWritten
<1>1. IInv /\ CountInv /\ EndInv => AllWritten
  <2> SUFFICES ASSUME IInv, CountInv, EndInv, mainPc = "done"
               PROVE  Len(output) = stats.forwarded /\ outQueue = <<>>
    BY DEF AllWritten
  <2>1. Cardinality(InHand) = 0
    BY HandsEmpty, FS_EmptySet
  <2>2. outQueue = <<>>
    BY DEF EndInv
  <2>3. Len(output) \in Nat /\ Len(outQueue) = 0
    BY <2>2 DEF IInv, TypeInv, TypeOK
  <2>4. stats.forwarded = Len(output) + Len(outQueue) + Cardinality(InHand)
    BY DEF CountInv
  <2>5. QED
    BY <2>1, <2>2, <2>3, <2>4
<1>2. MTInit => EndInv
  BY DEF MTInit, Init, EndInv
<1>3. QED
  BY <1>1, <1>2, StepEndInv, MTInvariance, PTL DEF MTSpec

----------------------------------------------------------------------------
(* A blocked flow. What was dropped marked its flow at the flow's FP, and  *)
(* there only that FP looks.                                               *)

Marked == /\ blocked \in [FPs -> SUBSET Tuples]
          /\ \A p \in Packets : at[p] = "dropped" => capture[p] \in blocked[FPOf(p)]

Decided(p) == Verdict(at[p])

StaysBlocked ==
    \A p, q \in Packets :
        p < q /\ SameFlow(p, q) /\ Decided(p) = "DROP" => Decided(q) # "FORWARD"

BlockInv == Marked /\ StaysBlocked

LEMMA DropMeans ==
    ASSUME IInv, NEW p \in Packets
    PROVE  at[p] = "dropped" <=> Decided(p) = "DROP"
BY DEF Decided, Verdict

LEMMA CaptureFixed ==
    ASSUME [MTNext]_mtVars
    PROVE  capture' = capture
<1>1. CASE Judging
  BY <1>1 DEF Judging, MTForward, MTDrop, FPForward, FPDrop
<1>2. CASE Carries
  BY <1>2 DEF Carries, Reader, ReaderRead, ReaderPush, ReaderEnd, LB, LBCheck, LBTimeout,
     LBPop, LBPush, FPCheck, FPTimeout, FPPush, Writer, WriterCheck, WriterTimeout,
     WriterWrite, Main, MainStop, StopLB, JoinLB, StopFP, JoinFP, JoinOut
<1>3. QED
  BY <1>1, <1>2, StepKinds DEF OwnStep, MTStop, MTJoinFP, mtVars, vars

(* The FP judges the first packet of its queue.                            *)
LEMMA StepJudge == IInv /\ BlockInv /\ Judging => BlockInv'
<1> SUFFICES ASSUME IInv, BlockInv, NEW f \in FPs, MTForward(f) \/ MTDrop(f)
             PROVE  BlockInv'
  BY DEF Judging
<1> DEFINE x == Head(fpQueue[f])
           to == IF MTForward(f) THEN "fp" ELSE "dropped"
<1>1. x \in Packets /\ at[x] = "fp_queue" /\ f = FPOf(x)
  BY FPFront DEF MTForward, MTDrop, FPForward, FPDrop
<1>2. capture' = capture
  BY DEF MTForward, MTDrop, FPForward, FPDrop
<1>3. at' = [at EXCEPT ![x] = to]
  <2>1. ~ (FPForward(f) /\ FPDrop(f))
    BY <1>1 DEF FPForward, FPDrop, IInv, TypeInv, TypeOK
  <2>2. QED
    BY <2>1 DEF MTForward, MTDrop, FPForward, FPDrop
<1>4. MTForward(f) => capture[x] \notin blocked[f] /\ blocked' = blocked
  BY DEF MTForward, Front
<1>5. ~ MTForward(f) => blocked' = [blocked EXCEPT ![f] = @ \cup {capture[x]}]
  BY DEF MTDrop, Front
<1>6. at \in [Packets -> Places] /\ capture[x] \in Tuples
  BY <1>1 DEF IInv, TypeInv, TypeOK
<1> HIDE DEF x
<1>7. \A p \in Packets : at'[p] = IF p = x THEN to ELSE at[p]
  BY <1>1, <1>3, <1>6
<1>8. \A p \in Packets : FPOf(p) \in FPs /\ FPOf(p)' = FPOf(p)
  BY <1>2, PacketRoute DEF IInv, FPOf, LBOf, SelectFP, SelectLB
<1>9. Marked'
  <2>1. blocked' \in [FPs -> SUBSET Tuples]
    BY <1>4, <1>5, <1>6 DEF BlockInv, Marked
  <2>2. ASSUME NEW p \in Packets, at'[p] = "dropped"
        PROVE  capture[p] \in blocked'[FPOf(p)]
    <3>1. CASE p = x
      BY <1>1, <1>5, <1>7, <2>2, <3>1 DEF BlockInv, Marked
    <3>2. CASE p # x
      BY <1>4, <1>5, <1>7, <1>8, <2>2, <3>2 DEF BlockInv, Marked
    <3>3. QED
      BY <3>1, <3>2
  <2>3. QED
    BY <1>2, <1>8, <2>1, <2>2 DEF Marked
<1>10. StaysBlocked'
  <2>1. SUFFICES ASSUME NEW p \in Packets, NEW q \in Packets, p < q, capture[p] = capture[q],
                        Verdict(at'[p]) = "DROP", Verdict(at'[q]) = "FORWARD"
                 PROVE  FALSE
    BY <1>2 DEF StaysBlocked, SameFlow, Decided
  <2>2. CASE p = x
    <3>1. q # x /\ Verdict(at[q]) = "FORWARD"
      BY <1>7, <2>1, <2>2 DEF Packets
    <3>2. at[q] \in Places /\ at[q] # "discarded"
      BY <1>6 DEF IInv, DataInv, NothingDiscarded
    <3>3. Stage(at[p]) >= Passed(at[q])
      BY <2>1 DEF IInv, DataInv, Ahead, SameFlow
    <3>4. QED
      BY <1>1, <2>2, <3>1, <3>2, <3>3 DEF Verdict, Stage, Passed, Places
  <2>3. CASE p # x /\ q = x
    <3>1. at[p] = "dropped"
      BY <1>7, <2>1, <2>3, DropMeans DEF Decided
    <3>2. to = "fp"
      BY <1>1, <1>7, <2>1, <2>3 DEF Verdict
    <3>3. MTForward(f)
      BY <3>2
    <3>4. FPOf(p) = FPOf(x)
      BY <2>1, <2>3 DEF FPOf, LBOf
    <3>5. QED
      BY <1>1, <1>4, <2>1, <2>3, <3>1, <3>3, <3>4 DEF BlockInv, Marked
  <2>4. CASE p # x /\ q # x
    BY <1>7, <2>1, <2>4 DEF BlockInv, StaysBlocked, SameFlow, Decided
  <2>5. QED
    BY <2>2, <2>3, <2>4
<1>11. QED
  BY <1>9, <1>10 DEF BlockInv

LEMMA StepBlockInv == IInv /\ BlockInv /\ [MTNext]_mtVars => BlockInv'
<1> SUFFICES ASSUME IInv, BlockInv, [MTNext]_mtVars PROVE BlockInv'
  OBVIOUS
<1>1. CASE Judging
  BY <1>1, StepJudge
<1>2. CASE ~ Judging
  <2>1. /\ capture' = capture /\ blocked' = blocked
        /\ \A p \in Packets : Verdict(at'[p]) = Verdict(at[p])
    BY <1>2, StepKinds, CaptureFixed, CarryVerdicts
       DEF OwnStep, MTStop, MTJoinFP, mtVars, vars
  <2>2. \A p \in Packets : at[p] = "dropped" <=> Verdict(at[p]) = "DROP"
    BY DropMeans DEF Decided
  <2>3. \A p \in Packets : at'[p] = "dropped" => Verdict(at'[p]) = "DROP"
    BY DEF Verdict
  <2>4. \A p \in Packets : FPOf(p)' = FPOf(p)
    BY <2>1 DEF FPOf, LBOf, SelectFP, SelectLB
  <2>5. Marked'
    BY <2>1, <2>2, <2>3, <2>4 DEF BlockInv, Marked
  <2>6. StaysBlocked'
    BY <2>1 DEF BlockInv, StaysBlocked, SameFlow, Decided
  <2>7. QED
    BY <2>5, <2>6 DEF BlockInv
<1>3. QED
  BY <1>1, <1>2

(* A flow once blocked stays blocked, in the order of the capture file:    *)
(* not because of a lock, but because one FP judges the flow, in order.    *)
THEOREM BlockedForGoodHolds == MTSpec => []BlockedForGood
<1>1. IInv /\ BlockInv => BlockedForGood
  BY DEF BlockInv, StaysBlocked, BlockedForGood, Decided, Verdict
<1>2. MTInit => BlockInv
  <2> SUFFICES ASSUME MTInit PROVE BlockInv
    OBVIOUS
  <2>1. \A p \in Packets : at[p] = "capture"
    BY DEF MTInit, Init
  <2>2. QED
    BY <2>1 DEF MTInit, BlockInv, Marked, StaysBlocked, Decided, Verdict
<1>3. QED
  BY <1>1, <1>2, StepBlockInv, MTInvariance, PTL DEF MTSpec

----------------------------------------------------------------------------
(* dpi_mt too is a filter of FlowFilter: another way to block and another  *)
(* way to end, the same promise.                                           *)
THEOREM MTRefinement == MTSpec => FilterSpec
<1>1. IInv /\ [MTNext]_mtVars => [Filter!Next]_(Filter!vars)
  <2> SUFFICES ASSUME IInv, [MTNext]_mtVars PROVE [Filter!Next]_(Filter!vars)
    OBVIOUS
  <2>1. CASE OwnStep
    BY <2>1, SameVerdicts DEF OwnStep, MTStop, MTJoinFP, outVars
  <2>2. QED
    BY <2>1, StepShared, StepFilter
<1>2. MTInit => Filter!Init
  BY InitFilter DEF MTInit
<1>3. QED
  BY <1>1, <1>2, MTInvariance, PTL DEF MTSpec, FilterSpec, Filter!Spec
=============================================================================
