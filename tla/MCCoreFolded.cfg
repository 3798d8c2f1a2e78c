CONSTANTS
  FOLDED = TRUE
  C_LAT = 4
  M_LAT = 1
  GEN_LAT = 5
  RANK_LAT = 1
  LOAD_LAT = 6
  NONCE_MOD = 4
  WORK_MOD = 10
  Pph <- MCPph
  ZeroPph = "p0"
  Ts <- MCTs
  ZeroTs = 0
  MAX_TARGET = 1
  Attempts <- MCAttempts
  HostJob <- ThreeJobs
  MAX_STARTS = 3
  HashOf <- MCHashOf
  None = None
SPECIFICATION FairSpec
INVARIANTS
  TagFifoFits
  SecondCoreReady
  TagsFollowItems
  NoncesConsecutive
PROPERTIES
  FoundIsAWin
  GenerationEnds
