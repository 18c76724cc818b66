SPECIFICATION FairSpec
CONSTANTS
  c1 = c1
  c2 = c2
  v1 = v1
  v2 = v2
  None = None
  PRs = {1}
  Heads = {c1}
  Branches = {main, develop}
  Cron = {main}
  Revs = {v1, v2}
  Runs = {r1, r2}
  Candidates = {c1}
  PlanOf <- MCPlanOf
  PageSize = 1
  Moves = {"advance", "retarget"}
  Outages = FALSE
  MaxAttempts = 2
PROPERTY EveryIdentityAttempted
CHECK_DEADLOCK FALSE
