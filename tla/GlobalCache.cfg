CONSTANTS
  NumCells <- FlatCells
  Interesting <- AnyText
  Deterministic = TRUE
  SaveTemp = FALSE
  MaxCalls = 100
  Ast <- FlatAst
  Semis <- FlatSemis
SPECIFICATION Spec
PROPERTIES
  NeverAskedTwice
CHECK_DEADLOCK FALSE
