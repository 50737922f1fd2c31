---------------------------- MODULE MCDPIEngine ----------------------------
(* Small instances of DPIEngine for TLC. *)
EXTENDS DPIEngine, TLC

CONSTANTS t0, t1, t2

(* Three flows: with two FPs, t0 and t2 share one of them.                 *)
ThreeHashes == (t0 :> 0) @@ (t1 :> 1) @@ (t2 :> 2)

TwoHashes == (t0 :> 0) @@ (t1 :> 1)

(* Every capture of three packets, t2 only after t0 (the two have the same *)
(* way, so the others differ in the names alone), and one of a single flow *)
(* that is long enough to fill the way to the writer: one packet in each   *)
(* of the LB's queue, the LB, the FP's queue, the FP and the output queue, *)
(* and one for the reader to wait with.                                    *)
Short == {c \in [Packets -> Tuples] :
              /\ \A p \in Packets : p > 3 => c[p] = t0
              /\ \A p \in 1 .. 3 : c[p] = t2 => \E q \in 1 .. p : c[q] = t0}
Long == [p \in Packets |-> t0]

ShortAndLong == [c \in Short |-> IF c = Long THEN MaxPackets ELSE 3]
=============================================================================
