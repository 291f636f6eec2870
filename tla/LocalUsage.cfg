SPECIFICATION FairSpec
CONSTANTS
  Threads = {t1, t2, t3}
  Nodes = {n1, n2, n3}
  MaxSent = 2
INVARIANTS TypeOK UsageAccounted ReachableLive OneRecord
PROPERTIES AllUploaded
CHECK_DEADLOCK FALSE
