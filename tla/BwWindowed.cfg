SPECIFICATION FairSpec
CONSTANTS
  Procs = {p1, p2}
  MAX_RECORDS = 4
  Interval = 1
  MaxTime = 2
  MaxSlips = 1
  Overlap = FALSE
CONSTRAINT NoneFailed
INVARIANTS TypeOK WellFormed WalkOnList
PROPERTIES WindowSpec UpdateEnds
