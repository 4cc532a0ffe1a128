CONSTANTS
  Files <- ExistingFiles
  UnsignedSize = 4
SPECIFICATION Spec
INVARIANTS
  RemovalsLeaveTheRest
  InsertionsWrap
  BufferIsVisible
  OptionsIndependentOfOrder
  LookupFinds
  ElementInitializers
  TypesResolved
  StatementsKnown
CHECK_DEADLOCK FALSE
