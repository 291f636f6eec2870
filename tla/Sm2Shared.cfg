SPECIFICATION Spec
CONSTANTS
  Ctxs = {c1, c2}
  Queues = {q1, q2}
  Digests = {"sm3", "other"}
  Failing = {}
SYMMETRY MCSymmetry
INVARIANTS OwnKey
CHECK_DEADLOCK FALSE
