SPECIFICATION FairSpec
CONSTANTS
  a1 = a1
  a2 = a2
  v1 = v1
  None = None
  Sessions = {s1}
  Approvals = {a1}
  Revs = {v1, v2, v3}
  BaseOf <- AllOnV1
  Evidenced = {a1}
  Files = {json, zip, sums}
  Releases = {1, 2}
  MayInterrupt = FALSE
  MayToggle = FALSE
  MaxFailures = 2
PROPERTY RerunCompletes
PROPERTY PublishedResumes
CHECK_DEADLOCK FALSE
