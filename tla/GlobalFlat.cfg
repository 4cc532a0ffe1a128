CONSTANTS
  NumCells <- FlatCells
  Interesting <- AnyText
  Deterministic = FALSE
  SaveTemp = FALSE
  MaxCalls = 100
  Ast <- FlatAst
  Semis <- FlatSemis
SPECIFICATION FairSpec
INVARIANTS
  CallsBounded
  TypeOK
  SubsetsSafe
  RevertRestores
  RemainingIntact
  RemovedStaysRemoved
  OneMinimal
PROPERTIES
  Terminates
CHECK_DEADLOCK FALSE
