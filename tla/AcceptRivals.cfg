SPECIFICATION Spec
CONSTANTS
  a1 = a1
  a2 = a2
  v1 = v1
  None = None
  Sessions = {s1, s2}
  Approvals = {a1, a2}
  Revs = {v1, v2, v3}
  BaseOf <- AllOnV1
  Evidenced = {a1, a2}
  Files = {json, zip}
  Releases = {1, 2}
  MayInterrupt = TRUE
  MayToggle = TRUE
  MaxFailures = 0
SYMMETRY Symmetry
CONSTRAINTS ApprovedFirst OneInterrupted
INVARIANT TypeOK
INVARIANT PublishedIntact
INVARIANT IndexBacked
PROPERTY Decides
CHECK_DEADLOCK FALSE
