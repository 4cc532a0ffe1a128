CONSTANTS
  NumCells = 15
  Interesting <- ChainInteresting
  Deterministic = FALSE
  SaveTemp = FALSE
  MaxCalls = 100
  Ast <- ChainAst
  Semis <- ChainSemis
  Stmts <- ChainStmts
  SkipGlobal = FALSE
SPECIFICATION LoopSpec
INVARIANTS
  EndsAccepted
  IterationsShrink
  NothingUnreferencedIsLeft
CHECK_DEADLOCK FALSE
