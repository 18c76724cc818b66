SPECIFICATION FairSpec
CONSTANTS
  c1 = c1
  c2 = c2
  o1 = o1
  o2 = o2
  None = None
  Candidates = {c1}
  Sealed = {c1}
  Operators = {o1}
  Numbers = {1, 2}
  MaxRevisions = 3
  MaxFailures = 1
  Moves = {}
PROPERTY RerunSynchronizes
CHECK_DEADLOCK FALSE
