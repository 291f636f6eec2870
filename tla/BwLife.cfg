SPECIFICATION FairSpec
CONSTANTS
  Procs = {p1, p2}
  Children = {p2}
  Devs = {d1, d2}
  Segs <- MCSegs
  Sems <- MCSems
  None = None
  Free = Free
  Unset = Unset
  Failing = {"shmget", "shmat", "thread", "semop"}
  Debug = TRUE
CONSTRAINT Bounded
INVARIANTS TypeOK OneSegment TableCurrent DevicesExclude
PROPERTIES WaitsEnd
CHECK_DEADLOCK FALSE
