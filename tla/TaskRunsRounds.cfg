\* Every operation but stop, with failing saves and restarts.
SPECIFICATION Spec
CONSTANTS
  Clients = {c1, c2, c3}
  Workers = {w1, w2}
  None = None
  Ops <- RoundOps
  CountEvents = FALSE
  SaveMayFail = TRUE
  MayRestart = TRUE
SYMMETRY Symmetry
INVARIANTS
  TypeOK
  OneRound
  AdmittedHasCheckpoint
PROPERTIES
  ImplementsRoundSlot
