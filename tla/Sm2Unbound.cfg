SPECIFICATION Spec
CONSTANTS
  MAX_FILES = 2
  MAX_SECTIONS = 2
  MAX_KEYS = 2
  Directories <- MCDirectories
  Ctxs = {"sm2", "rsa"}
  Algs = {"SM2", "RSA"}
  Cpu = "HISI_V2"
  NumasAtLoad = {0}
  Numas = {1}
  Draws = {100}
  Bandwidths = {7, 8}
  BwReady = TRUE
  ParalReady = TRUE
  Threads = {t1, t2}
  NoOwner = NoOwner
  EngCtxs = {e1}
  NoCtx = NoCtx
  Failing = {}
INVARIANTS Sm2Offered
CHECK_DEADLOCK FALSE
