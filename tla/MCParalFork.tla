---------------------------- MODULE MCParalFork ----------------------------
(* Instances of ParalFork for TLC. *)
EXTENDS ParalFork, TLC

CONSTANTS N,        \* the configured `parallel' value, the same for all keys
          Survives  \* the program points at which no process is killed

MCLimit == [k \in Keys |-> N]
MCCrashAt == PCs \ ({"off"} \cup Survives)
MCSymmetry == Permutations(Procs) \cup Permutations(Ctxs)
=============================================================================
