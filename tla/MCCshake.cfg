CONSTANTS
  NUM_ROUNDS = 6
  STAGES = 2
  Msg = {m1, m2}
  None = None
SPECIFICATION BothSpec
INVARIANTS
  TypeOK
  FoldInStep
PROPERTIES
  ImplementsLine
  UnfoldedImplementsLine
