CONSTANTS
  NumCells <- GapCells
  Interesting <- GapInteresting
  Deterministic = TRUE
  SaveTemp = FALSE
  MaxCalls = 100
  Ast <- GapAst
  Semis = {}
SPECIFICATION Spec
INVARIANTS
  RevertRestores
CHECK_DEADLOCK FALSE
