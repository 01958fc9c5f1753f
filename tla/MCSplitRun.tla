----------------------------- MODULE MCSplitRun -----------------------------
(* Small instances of SplitRun for TLC. *)
EXTENDS SplitRunProps, TLC

CONSTANTS w1, w2

TwoChunks == [s \in Sessions |-> 2]
TwoThenOne == [s \in Sessions |-> IF s = 1 THEN 2 ELSE 1]

WorkerSymmetry == Permutations(Workers)
=============================================================================
