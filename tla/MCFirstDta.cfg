SPECIFICATION SearchSpec
CONSTANTS
  Nothing = Nothing
  Entries = {"x", "y"}
  Psps = {16, 32}
  MaxPrograms = 2
INVARIANT InterruptTableKept
CHECK_DEADLOCK FALSE
