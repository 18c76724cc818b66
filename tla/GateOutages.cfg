SPECIFICATION Spec
CONSTANTS
  h1 = h1
  h2 = h2
  v1 = v1
  v2 = v2
  p1 = p1
  None = None
  PRs = {p1}
  Heads = {h1}
  Branches = {main, topic}
  Targets = {main}
  Revs = {v1}
  Runs = {r1, r2}
  HeadsOf <- AnyHead
  PlanOf <- MCPlanOf
  Proven <- MCProven
  Drains = TRUE
  Outages = TRUE
  Moves = {"retarget", "protect", "close", "manual", "resume"}
  MaxAttempts = 2
CONSTRAINT OneRerun
SYMMETRY RunSymmetry
INVARIANTS SuccessEarned RunsOK LockInv
PROPERTY ReplacesOwnPending
CHECK_DEADLOCK FALSE
