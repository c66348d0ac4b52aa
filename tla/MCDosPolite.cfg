SPECIFICATION PoliteSpec
CONSTANTS
  ArenaMcb = 10
  HeapEnd = 23
  DosSeg = 15
  DosParas = 1
  BootEnvParas = 1
  FirstPsp = 17
  ScratchParas = 1
  CaseMapPara = 13
  Segments <- MCSegments
  Requests <- MCRequests
  EnvSizes <- MCEnvSizes
  MaxDepth = 2
INVARIANTS
  AncestorsKeepMemory
  EnvOutsideProgram
  
CHECK_DEADLOCK FALSE
