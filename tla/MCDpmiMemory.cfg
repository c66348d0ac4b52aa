SPECIFICATION Spec
CONSTANTS
  PageSize = 2
  WordLimit = 16
  HeapBase = 2
  HeapTop = 10
  StackLen = 4
  Lengths = {0, 3, 8, 15}
  MaxEntries = 5
  Count = 4
  MaxField = 3
  Page = 2
  Paragraph = 2
  ClientSegs = {2}
  PspAt = 1
  PspLimit = 1
  SegLimit = 2
  HostKinds = {"low", "cb"}
  HostWants <- MCHostWants
  Bases = {0, 1}
  Limits = {1, 4}
  Runs = {0, 2}
  Paras = {0, 3}
INVARIANTS
  TypesOK
  HeapTiled
  GrantsCoverRequests
  FigureCanBeHad
  HostStackApart
  NothingLeaks
  DescriptorsDescribe
  HostSelectorsKept
  NullUntilExhausted
PROPERTIES
  GrantsNeverOverlap
  GrantedOnce
CHECK_DEADLOCK FALSE
