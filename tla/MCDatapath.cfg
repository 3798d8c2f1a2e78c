SPECIFICATION Spec
CONSTANTS
  N = 4
  NIB = 2
  WORD = 2
  SHIFT = 4
  OUT_ROT = 3
  T_SHIFT = 2
  S3_ROT = 1
  ATTEMPTS = 4
  NoMatrix = NoMatrix
  cshake256 <- MCcshake256
  xor <- MCxor
  NUM_STAGES = 2
  PROD_W = 4
  ACC_W = 6
  Pphs <- MCPphs
  Nonces = {1, 2}
  TIMESTAMP = 0
  None = None
INVARIANTS
  VerdictIsRight
  KeepsFirstFullRank
  DigestIsReference
  SpongeIsReference
