----------------------------- MODULE MCMTEngine -----------------------------
(* Small instances of MTEngine for TLC. *)
EXTENDS MTEngine, TLC

CONSTANTS t0, t1

TwoHashes == (t0 :> 0) @@ (t1 :> 1)

AllCaptures == [Packets -> Tuples]
AllRecords == [c \in AllCaptures |-> MaxPackets]
=============================================================================
