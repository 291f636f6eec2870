SPECIFICATION FairSpecFork
CONSTANTS
  Procs = {p1, p2, p3}
  Ctxs = {}
  Keys = {k1}
  MaxForks = 1
  N = 1
  Limit <- MCLimit
  Survives = {"setval"}
  CrashAt <- MCCrashAt
  Failing = {"semop"}
  MaxSlips = 1
  LockFirst = FALSE
PROPERTIES RemovedWhenLast SectionsEnd
