---------------------------- MODULE MCBwRecords -----------------------------
(* Instances of BwRecords for TLC. *)
EXTENDS BwRecords, TLC

MCSymmetry == Permutations(Procs)

\* No property but the types says anything of what follows a failing semop.
NoneFailed == slips = 0
=============================================================================
