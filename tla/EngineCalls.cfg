SPECIFICATION FairSpec
CONSTANTS
  MAX_FILES = 2
  MAX_SECTIONS = 2
  MAX_KEYS = 2
  Directories <- MCDirectories
  Ctxs = {"sm2", "rsa"}
  Algs = {"SM2", "RSA"}
  Cpu = "HISI_V2"
  NumasAtLoad = {0}
  Numas = {1, 4}
  Draws = {100}
  Bandwidths = {7, 8}
  BwReady = TRUE
  ParalReady = TRUE
  Threads = {t1, t2}
  NoOwner = NoOwner
  EngCtxs = {e1}
  NoCtx = NoCtx
  Failing = {"sm2_create", "rsa_create", "rsa_alg", "set_rsa", "get_eng_ctx", "prepare", "crypto", "padding", "keygen_param", "prienc_res", "soft"}
INVARIANTS TypeOK ContextAlive MutexHeld UnitsAccounted EngCtxsKept SuccessMeansOutput
PROPERTIES CallsEnd
CHECK_DEADLOCK FALSE
