CONSTANTS
  NumCells <- IfCells
  Interesting <- AnyText
  Deterministic = FALSE
  SaveTemp = FALSE
  MaxCalls = 100
  Stmts <- IfStmts
  Semis <- IfSemis
SPECIFICATION Spec
INVARIANTS
  RevertRestores
CHECK_DEADLOCK FALSE
