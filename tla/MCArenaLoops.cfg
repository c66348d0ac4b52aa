SPECIFICATION Spec
CONSTANTS
  ArenaMcb = 2
  HeapEnd = 8
  Owners <- MCOwners
  Letters = {"A", "B"}
  Patterns <- MCPatterns
  EntryNames <- MCEntryNames
INVARIANTS
  LoopsAgree
  VerdictIsGlob
PROPERTY
  MatchReturns
