SPECIFICATION Spec
CONSTANTS
  Procs = {p1, p2, p3}
  Ctxs = {c1, c2}
  Keys = {k1}
  N = 2
  Limit <- MCLimit
  Survives = {"setval"}
  CrashAt <- MCCrashAt
  Failing = {"lock", "semop"}
  MaxSlips = 1
  LockFirst = FALSE
SYMMETRY MCSymmetry
INVARIANTS HardwareWithinLimit HardOwesUnit SectionsExclude
PROPERTIES PoolSpec
