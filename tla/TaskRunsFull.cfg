\* Stops race continuations: who settles a live record, what stays in the maps.
SPECIFICATION Spec
CONSTANTS
  Clients = {c1, c2}
  Workers = {w1, w2}
  None = None
  Ops <- StopContinueOps
  CountEvents = FALSE
  SaveMayFail = FALSE
  MayRestart = FALSE
SYMMETRY Symmetry
INVARIANTS
  RunningHasCarrier
  DiskAgrees
  RoundDrains
