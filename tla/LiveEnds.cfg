\* The components of the live browser script under fair timers, answers and connections.
SPECIFICATION FairSpec
CONSTANTS
  Parts = {"one framework", "one static", "two clicks", "silent", "holders", "frozen"}
  None = None
  x1 = x1
  x2 = x2
  t1 = t1
  t2 = t2
  m1 = m1
PROPERTIES
  LiveSettles
CHECK_DEADLOCK FALSE
