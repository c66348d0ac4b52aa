SPECIFICATION HeapSpec
CONSTANTS
  PageSize = 2
  WordLimit = 16
  HeapBase = 2
  HeapTop = 10
  StackLen = 4
  Lengths = {1, 3, 5}
  MaxEntries = 5
INVARIANTS
  AdjacentFreeMerged
CHECK_DEADLOCK FALSE
