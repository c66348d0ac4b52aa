SPECIFICATION FilesSpec
CONSTANTS
  Names = {"a"}
  Files = {"f"}
  Streams = {1, 2}
  MaxHandle = 1
  FirstFree = 1
  MaxLen = 1
  Wrap = 16
  Offsets = {0, 1, 15}
  LongIs32 = FALSE
  None = None
  Free = Free
  Console = Console
INVARIANT SeekAnswersPosition
CHECK_DEADLOCK FALSE
