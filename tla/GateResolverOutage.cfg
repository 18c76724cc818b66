SPECIFICATION Spec
CONSTANTS
  h1 = h1
  h2 = h2
  v1 = v1
  v2 = v2
  p1 = p1
  None = None
  PRs = {p1}
  Heads = {h1}
  Branches = {main, develop}
  Targets = {main, develop}
  Revs = {v1}
  Runs = {r1, r2}
  HeadsOf <- AnyHead
  PlanOf <- MCPlanOf
  Proven <- MCProven
  Drains = TRUE
  Outages = TRUE
  Moves = {"retarget"}
  MaxAttempts = 1
SYMMETRY RunSymmetry
PROPERTY ResolverFailureBlocks
CHECK_DEADLOCK FALSE
