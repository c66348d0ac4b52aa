SPECIFICATION Spec
CONSTANTS
  ArenaMcb = 10
  HeapEnd = 16
  DosSeg = 13
  DosParas = 1
  BootEnvParas = 1
  FirstPsp = 15
  ScratchParas = 100
  CaseMapPara = 11
  Segments <- MCSegments
  Requests <- MCRequests
  EnvSizes <- MCEnvSizes
  MaxDepth = 1
INVARIANTS
  TypeOK
  ArenaTiled
  FreeBlocksMerged
  TruthfulRefusal
PROPERTIES
  CeilingAgrees
CHECK_DEADLOCK FALSE
