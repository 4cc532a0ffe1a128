CONSTANTS
  NumCells = 19
  Interesting <- BothInteresting
  Deterministic = TRUE
  SaveTemp = TRUE
  MaxCalls = 100
  Ast <- BothAst
  Semis <- BothSemis
  Stmts <- BothStmts
  SkipGlobal = FALSE
  SkipLocal = FALSE
SPECIFICATION FairSpec
INVARIANTS
  TypeOK
  SavedCopiesFaithful
  KillRecoverable
  PassesOwned
PROPERTIES
  Terminates
CHECK_DEADLOCK FALSE
