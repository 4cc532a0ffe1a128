CONSTANTS
  NumCells <- LoopCells
  Interesting <- AnyText
  Deterministic = FALSE
  SaveTemp = FALSE
  MaxCalls = 100
  Stmts <- LoopStmts
  Semis <- LoopSemis
SPECIFICATION FairSpec
INVARIANTS
  NothingAcceptedIsLost
PROPERTIES
  Terminates
CHECK_DEADLOCK FALSE
