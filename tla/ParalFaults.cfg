SPECIFICATION Spec
CONSTANTS
  Procs = {p1, p2}
  Ctxs = {c1}
  Keys = {k1, k2}
  N = 2
  Limit <- MCLimit
  Survives = {}
  CrashAt <- MCCrashAt
  Failing = {"lock", "shmget", "shmat", "semget", "semop"}
  MaxSlips = 1
  LockFirst = TRUE
SYMMETRY MCSymmetry
INVARIANTS TypeOK Conservation
CHECK_DEADLOCK FALSE
