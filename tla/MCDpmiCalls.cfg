SPECIFICATION FairSpec
CONSTANTS
  RmSlots = 2
  MaxActs = 4
  MaxExec = 2
  DpmiChildren = FALSE
  SharedStacks = FALSE
  StrayCalls = FALSE
INVARIANTS
  TypeOK
  ResumesCaller
  IretKept
  SlotsMatchCalls
  HooksOnAgain
PROPERTIES
  CallComesBack
  HostStepsEnd
