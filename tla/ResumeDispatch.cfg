SPECIFICATION Spec
CONSTANTS
  c1 = c1
  c2 = c2
  v1 = v1
  v2 = v2
  None = None
  PRs = {1}
  Heads = {c1, c2}
  Branches = {main}
  Cron = {main}
  Revs = {v1, v2}
  Runs = {r1, r2, r3}
  Candidates = {c1}
  PlanOf <- MCPlanOf
  PageSize = 2
  Moves = {"advance", "push", "draft", "manual", "close", "protect", "delete"}
  Outages = TRUE
  MaxAttempts = 1
SYMMETRY RunSymmetry
CONSTRAINTS OneObstacle OneManual
INVARIANT TypeOK
PROPERTY DispatchedOnce
CHECK_DEADLOCK FALSE
