CONSTANTS
  NumCells <- NestedCells
  Interesting <- AnyText
  Deterministic = FALSE
  SaveTemp = TRUE
  MaxCalls = 100
  Ast <- NestedAst
  Semis <- NestedSemis
SPECIFICATION FairSpec
INVARIANTS
  NothingAcceptedIsLost
  SavedCopiesFaithful
PROPERTIES
  CopiesNeverOverwritten
  RefinesReducer
CHECK_DEADLOCK FALSE
