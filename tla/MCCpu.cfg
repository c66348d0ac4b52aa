SPECIFICATION Spec
CONSTANTS
  Half = 4
  Packed <- MCPacked
  Size = 4
  Elements = {0, 1}
  Slots = 4
  Numbers = {0, 1}
  NaN = NaN
  Outer = 3
  Top = 8
  Places = {1, 2}
  MaxNest = 3
  MaxParams = 1
  MaxLocals = 1
INVARIANTS
  WideArithmetic
  WideShift
  BranchesDecide
  DecimalResult
  StringIdioms
  ReturnsResume
PROPERTY
  FpuIsStack
CHECK_DEADLOCK FALSE
