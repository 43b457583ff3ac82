\* Stops, crashes, refusals and compression over the rounds of one task.
SPECIFICATION Spec
CONSTANTS
  Ids <- TwoIds
  MayReuse = FALSE
  MayCrash = TRUE
  MaxSteps = 2
  KeepRecents <- Keeps
  MaxCalls = 2
  MaxInvokes = 3
INVARIANTS
  TypeOK
  RequestsAreSound
  DispatchedOnce
  BudgetHolds
  StepsSettle
PROPERTIES
  VerdictsAreFinal
CHECK_DEADLOCK FALSE
