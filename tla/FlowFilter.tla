---------------------------- MODULE FlowFilter ----------------------------
(***************************************************************************)
(* What every packet engine of the repository promises about the capture   *)
(* file it filters, with no thread, queue or rule in sight:                *)
(*   - each packet is judged at most once, after all earlier packets of    *)
(*     its flow (its five-tuple), because the judgement depends on the     *)
(*     state those packets left in the connection tracker;                 *)
(*   - the output file receives forwarded packets only, each at most once, *)
(*     and no packet of a flow before the earlier forwarded ones: what an  *)
(*     engine leaves out of the file is the end of a flow, never a gap.    *)
(* Packets of different flows may be judged and written in any order.      *)
(***************************************************************************)
EXTENDS Naturals, Sequences

CONSTANTS Tuples,      \* the five-tuples that occur
          MaxPackets   \* packets of the capture file (bound)

VARIABLES capture,     \* the input file: the five-tuple of each packet
          verdict,     \* what was decided for each packet
          output       \* the output file: packet numbers in file order

vars == <<capture, verdict, output>>

Packets == 1 .. MaxPackets

Verdicts == {"none", "FORWARD", "DROP"}

SameFlowBefore(p) == {q \in Packets : q < p /\ capture[q] = capture[p]}

Written(p) == \E i \in 1 .. Len(output) : output[i] = p
---------------------------------------------------------------------------
Init ==
    /\ capture \in [Packets -> Tuples]
    /\ verdict = [p \in Packets |-> "none"]
    /\ output = <<>>

Judge(p, v) ==
    /\ verdict[p] = "none"
    /\ \A q \in SameFlowBefore(p) : verdict[q] # "none"
    /\ verdict' = [verdict EXCEPT ![p] = v]
    /\ UNCHANGED <<capture, output>>

Write(p) ==
    /\ verdict[p] = "FORWARD"
    /\ ~ Written(p)
    /\ \A q \in SameFlowBefore(p) : verdict[q] = "FORWARD" => Written(q)
    /\ output' = Append(output, p)
    /\ UNCHANGED <<capture, verdict>>

Next ==
    \/ \E p \in Packets, v \in {"FORWARD", "DROP"} : Judge(p, v)
    \/ \E p \in Packets : Write(p)

Spec == Init /\ [][Next]_vars
===========================================================================
