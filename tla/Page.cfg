\* The components of the page, each on instances of its own.
SPECIFICATION Spec
CONSTANTS
  Parts = {"sends", "controls", "cards", "plan", "plans", "saves", "two dirs", "one dir", "dialog", "drawers", "polls", "switches", "files"}
  None = None
  t1 = t1
  t2 = t2
  n1 = n1
  n2 = n2
  modelA = modelA
  pathA = pathA
  pathB = pathB
  a = a
  b = b
  other = other
  nothing = nothing
INVARIANTS
  TypeOK
  AnswersKeepToTheirOwn
  PageIsTrue
PROPERTIES
  WorkIsKept
CHECK_DEADLOCK FALSE
