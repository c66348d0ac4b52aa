SPECIFICATION Spec
CONSTANTS
  RmSlots = 2
  MaxActs = 4
  MaxExec = 1
  DpmiChildren = TRUE
  SharedStacks = FALSE
  StrayCalls = FALSE
INVARIANT IretKept
