CONSTANTS
  FOLDED = FALSE
  C_LAT = 3
  M_LAT = 2
  GEN_LAT = 5
  RANK_LAT = 1
  LOAD_LAT = 5
  NONCE_MOD = 8
  WORK_MOD = 9
  Pph <- MCPph
  ZeroPph = "p0"
  Ts <- MCTs
  ZeroTs = 0
  MAX_TARGET = 1
  Attempts <- MCAttempts
  HostJob <- ThreeJobs
  MAX_STARTS = 4
  HashOf <- MCHashOf
  None = None
SPECIFICATION RunSpec
INVARIANTS
  TypeOK
  NoTokenDropped
  StreamsThroughItsMatrix
  DigestsAreRight
PROPERTY GenerationIsFresh
