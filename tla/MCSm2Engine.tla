---------------------------- MODULE MCSm2Engine ----------------------------
(* Instances of Sm2Engine for TLC. *)
EXTENDS Sm2Engine, TLC

MCSymmetry == Permutations(Ctxs) \cup Permutations(Queues)
=============================================================================
