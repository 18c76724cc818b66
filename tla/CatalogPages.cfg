CONSTANTS
  Candidates = {1, 2}
  Runs = {1, 2}
  All = All
  None = None
  Supported = {1}
  Selected = {2}
  MaxRevision = 2
  MaxAttempts = 2
  MaxStarts = 2
  MaxFailures = 2
SPECIFICATION FairSpec
INVARIANTS TypeOK TrueAtOnce
PROPERTIES PageForward PageCatchesUp
CHECK_DEADLOCK FALSE
