SPECIFICATION Spec
CONSTANTS
  Procs = {p1, p2}
  MAX_RECORDS = 4
  Interval = 2
  MaxTime = 3
  MaxSlips = 0
  Overlap = TRUE
SYMMETRY MCSymmetry
PROPERTIES UsageCollected
