SPECIFICATION Spec
CONSTANTS
  Names = {a, b}
  Files = {f, g}
  Streams = {1, 2}
  MaxHandle = 2
  FirstFree = 1
  MaxLen = 1
  Wrap = 16
  Offsets = {0, 1, 15}
  LongIs32 = TRUE
  None = None
  Free = Free
  Console = Console
  Entries = {"x", "y"}
  Nothing = Nothing
  Psps = {16, 32}
  MaxPrograms = 3
INVARIANTS
  TypesOK
  PoliteNeverDangles
PROPERTIES
  PoliteSeesDos
  SearchBelongsToProcess
SYMMETRY Alike
CHECK_DEADLOCK FALSE
