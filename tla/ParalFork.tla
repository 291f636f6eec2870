----------------------------- MODULE ParalFork -----------------------------
(***************************************************************************)
(* The parallel strategy in programs that fork.  The library's atfork      *)
(* handler (kuaf_init_after_fork) sets up the bandwidth strategy again and *)
(* leaves the parallel strategy as the child inherits it: attached to the  *)
(* segment, with the parent's semaphore list and copies of its contexts.   *)
(* The kernel hands down no SEM_UNDO adjustments.                          *)
(***************************************************************************)
EXTENDS ParalSem

CONSTANT MaxForks    \* bound: forks in one behaviour
VARIABLE forks       \* forks so far

ASSUME ForkAssumption == MaxForks \in Nat

forkvars == <<vars, forks>>
InitFork == Init /\ forks = 0

\* Unused process slot q becomes a child of p.
Fork(p, q) ==
  /\ pc[p] = "run" /\ pc[q] = "off"
  /\ forks < MaxForks /\ forks' = forks + 1
  /\ Goto(q, "run")
  /\ lockref' = [lockref EXCEPT ![q] = lockref[p]]
  /\ att' = [att EXCEPT ![q] = att[p]]
  /\ map' = [map EXCEPT ![q] = map[p]]
  /\ ctx' = [ctx EXCEPT ![q] = ctx[p]]
  /\ UNCHANGED <<lock, undo, slips, idzero, shm, sem, taken>>

NextFork ==
  \/ Next /\ UNCHANGED forks
  \/ \E p, q \in Procs : Fork(p, q)

SpecFork == InitFork /\ [][NextFork]_forkvars
FairSpecFork == SpecFork /\ Fairness
=============================================================================
