CONSTANTS
  Base = 5
  MaxMessagePayload = 3
  MaxAllowed = 2
  Values <- MCValues
  Texts <- MCTexts
  MaxPuts = 2
SPECIFICATION Spec
INVARIANTS
  ReadsWhatWasWritten
  FailsOnlyAtTheCut
  AllocatesWithinLimit
  NeverLonger
CHECK_DEADLOCK FALSE
