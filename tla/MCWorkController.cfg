CONSTANTS
  FOUND_DEPTH = 4
  JobAddr <- MCJobAddr
  Word <- MCWord
  ZeroWord = 0
  StartWord <- MCStartWord
  Find = {f1, f2}
  NoFind = NoFind
SPECIFICATION PacedSpec
INVARIANTS
  TypeOK
  PointersAgree
PROPERTY ImplementsFoundQueue
