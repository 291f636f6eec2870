--------------------------- MODULE MCLocalRecords ---------------------------
(* Instances of LocalRecords for TLC. *)
EXTENDS LocalRecords, TLC

MCSymmetry == Permutations(Threads) \cup Permutations(Nodes)
=============================================================================
