SPECIFICATION Spec
CONSTANTS
  MAX_FILES = 2
  MAX_SECTIONS = 2
  MAX_KEYS = 3
  Directories <- MCDirectories
  Algs = {"ZLIB-DEFLATE", "ZLIB-INFLATE"}
  Cpu = "HISI_V2"
  NumasAtLoad = {0, 3}
  Numas = {0, 3, 5}
  Draws = {60, 61}
  Bandwidths = {7, 8}
  BwReady = TRUE
  ParalReady = TRUE
  Deflates = {d1, d2}
  Inflates = {i1}
  Ctxs = {d1, d2, i1}
  Failing = {"lz_init", "create", "kz_init", "process", "kz_reset", "kz_end"}
SYMMETRY MCSymmetry
INVARIANTS TypeOK UnitsTaken HardMeansPrepared LookupMatches DevicesPrepared
CHECK_DEADLOCK FALSE
