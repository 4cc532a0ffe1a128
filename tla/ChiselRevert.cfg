CONSTANTS
  NumCells = 13
  Interesting <- WhileInteresting
  Deterministic = TRUE
  SaveTemp = FALSE
  MaxCalls = 100
  Ast <- WhileAst
  Semis <- WhileSemis
  Stmts <- WhileStmts
  SkipGlobal = TRUE
  SkipLocal = FALSE
SPECIFICATION FairSpec
PROPERTIES
  WhileReverted
CHECK_DEADLOCK FALSE
