\* The components of the live browser script, each on instances of its own.
SPECIFICATION Spec
CONSTANTS
  Parts = {"framework", "static", "staging", "applying", "chat", "two targets", "lapses"}
  None = None
  x1 = x1
  x2 = x2
  t1 = t1
  t2 = t2
  m1 = m1
SYMMETRY Symmetry
INVARIANTS
  TypeOK
  LocksAreOwned
  DoneStaysDone
PROPERTIES
  StepsAreHonest
CHECK_DEADLOCK FALSE
