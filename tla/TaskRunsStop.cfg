\* Stops against the first round: they are obeyed, and the park is announced.
SPECIFICATION FairSpec
CONSTANTS
  Clients = {c1, c2}
  Workers = {w1}
  None = None
  Ops <- StopOps
  CountEvents = TRUE
  SaveMayFail = TRUE
  MayRestart = FALSE
INVARIANTS
  NoSilentPark
PROPERTIES
  StopIsObeyed
