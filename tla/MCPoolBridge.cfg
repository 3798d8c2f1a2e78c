CONSTANTS
  Targets = {t1, t2}
  Prefixes <- MCPrefixes
  NONCES = 4
  Spans = {2, 4}
  ROOM = 2
  None = None
  MAX_SESSIONS = 2
  MAX_MESSAGES = 4
  MAX_FINDS = 2
SPECIFICATION FairSpec
INVARIANTS
  TypeOK
  SentInItsSession
  CountedOnce
  WorksHaveRoom
PROPERTY FindsSettle
