\* The components of the page under fair effects, answers and requests.
SPECIFICATION FairSpec
CONSTANTS
  Parts = {"news", "lost cards", "edits", "one row", "drawers", "switches"}
  None = None
  t1 = t1
  t2 = t2
  n1 = n1
  n2 = n2
  modelA = modelA
  pathA = pathA
  pathB = pathB
  a = a
  b = b
  other = other
  nothing = nothing
PROPERTIES
  PageSettles
CHECK_DEADLOCK FALSE
