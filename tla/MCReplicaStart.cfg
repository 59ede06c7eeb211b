SPECIFICATION Spec
CONSTANTS
  N = 3
  MaxUses = 2
  Keys <- MCKeys
  Texts <- MCTexts
  Identities = {"d", "f"}
  MaxRows = 3
  MaxBatch = 2
INVARIANTS DependenciesFirst FailsForReason Mirrors ReadsBack StopsOnlyOnNoop
CHECK_DEADLOCK FALSE
