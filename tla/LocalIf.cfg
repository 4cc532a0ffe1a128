CONSTANTS
  NumCells <- IfCells
  Interesting <- AnyText
  Deterministic = TRUE
  SaveTemp = FALSE
  MaxCalls = 100
  Stmts <- IfStmts
  Semis <- IfSemis
SPECIFICATION FairSpec
INVARIANTS
  TypeOK
  RevertRestores
  QueuedAreWholeOrGone
  QueuedOnce
  BlockOneMinimal
PROPERTIES
  Terminates
  RefinesReducer
CHECK_DEADLOCK FALSE
