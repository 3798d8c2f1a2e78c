CONSTANTS
  Bit <- MCBit
  SOF <- MCSOF
  OP = 0
  NACK = 1
  DIR = 7
  WORD_BYTES = 2
  NoByte = NoByte
  JobAddr <- MCJobAddr
  AddrByte <- MCAddrByte
  JobValues <- MCJobValues
  FOUND_DEPTH = 2
  FindWord <- MCFindWord
  CountWord <- MCCountWord
  StartData <- MCStartData
  MAX_FAULTS = 1
  None = None
SPECIFICATION FairLinkSpec
INVARIANTS
  LinkTypeOK
  AnswersOwnRequest
  DeliveredWholeAndOnce
  CacheIsTrue
  StartsTheJobLoaded
  SoonInStep
PROPERTY TransactionsEnd
