CONSTANTS
  MaxLen = 6
  MaxElement = 2
  MaxParts = 8
SPECIFICATION Spec
INVARIANTS
  SplitAgrees
  SplitPartitions
  DifferenceAgrees
CHECK_DEADLOCK FALSE
