CONSTANTS
  Limit = 1
  Timeout = 2
  MaxFiles = 4
  Files = {"Main", "Challenge", "CandidateChallenge", "Defs"}
  Challenge = "Challenge"
  Renamed = "CandidateChallenge"
  Bridge = "Solution"
  Trusted = {"Challenge", "Defs"}
  Allowed = {"Main", "Challenge", "CandidateChallenge", "Defs", "Solution"}
  TargetSets = {{"Main"}, {"Main", "Challenge"}}
  Includes = {{"Main", "Challenge", "CandidateChallenge", "Defs"}, {"Main", "Challenge"}}
SPECIFICATION FairSpec
INVARIANTS TypeOK OwnImports ReadyExecutes PassEarned ResultWritten Alone
PROPERTIES Judges Terminates
CHECK_DEADLOCK FALSE
