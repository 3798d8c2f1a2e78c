CONSTANTS
  FOLDED = TRUE
  C_LAT = 3
  M_LAT = 1
  GEN_LAT = 5
  RANK_LAT = 1
  LOAD_LAT = 5
  NONCE_MOD = 1
  WORK_MOD = 8
  Pph <- MCPph
  ZeroPph = "p0"
  Ts <- MCTs
  ZeroTs = 0
  MAX_TARGET = 1
  Attempts <- MCAttempts
  HostJob <- OneBlock
  MAX_STARTS = 8
  HashOf <- MCHashOf
  None = None
SPECIFICATION RunSpec
INVARIANTS
  CurrentWorkIsCurrent

