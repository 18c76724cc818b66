SPECIFICATION FairSpec
CONSTANTS
  h1 = h1
  h2 = h2
  v1 = v1
  v2 = v2
  p1 = p1
  None = None
  PRs = {p1}
  Heads = {h1, h2}
  Branches = {main, develop}
  Targets = {main, develop}
  Revs = {v1, v2}
  Runs = {r1, r2}
  HeadsOf <- AnyHead
  PlanOf <- MCPlanOf
  Proven <- MCProven
  Drains = FALSE
  Outages = FALSE
  Moves = {"push", "advance", "retarget", "ready"}
  MaxAttempts = 1
INVARIANTS TypeOK SuccessEarned
PROPERTIES NewestRunAnswers StaleNeverPosts
CHECK_DEADLOCK FALSE
