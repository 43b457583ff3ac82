\* resume's docstring: never two workers on one thread_id.
SPECIFICATION Spec
CONSTANTS
  Clients = {c1, c2}
  Workers = {w1, w2}
  None = None
  Ops <- StopContinueOps
  CountEvents = FALSE
  SaveMayFail = FALSE
  MayRestart = FALSE
SYMMETRY Symmetry
INVARIANTS
  OneGraph
