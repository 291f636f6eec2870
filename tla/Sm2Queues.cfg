SPECIFICATION Spec
CONSTANTS
  Ctxs = {c1, c2}
  Queues = {q1, q2}
  Digests = {"sm3", "other"}
  Failing = {"calloc", "malloc", "session"}
SYMMETRY MCSymmetry
INVARIANTS TypeOK QueuesKept QueuesOwned OwnSession
CHECK_DEADLOCK FALSE
