\* Messages, plans, edits, locked files, lost saves and crashes over three rounds.
SPECIFICATION Spec
CONSTANTS
  Texts <- TwoTexts
  Answers <- OneAnswer
  MaxSteps = 2
  MayLock = TRUE
  MaxSaid = 2
  MaxRounds = 3
  MaxEdits = 1
  MaxTroubles = 1
INVARIANTS
  TypeOK
  LedgerIsExact
  PlanIsTold
PROPERTIES
  LedgerGrows
  PlanStepsAreSound
CHECK_DEADLOCK FALSE
