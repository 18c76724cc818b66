SPECIFICATION Spec
CONSTANTS
  c1 = c1
  c2 = c2
  o1 = o1
  o2 = o2
  None = None
  Candidates = {c1, c2}
  Sealed = {c1}
  Operators = {o1, o2}
  Numbers = {1, 2}
  MaxRevisions = 3
  MaxFailures = 1
  Moves = {"update", "tamper", "merge", "close", "leave"}
SYMMETRY Symmetry
CONSTRAINT OneIntrusion
INVARIANTS TypeOK TableAgrees NothingLost
PROPERTY MergesGenerated
CHECK_DEADLOCK FALSE
