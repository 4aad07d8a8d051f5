SPECIFICATION FairSpec
CONSTANTS
  Editors = {e1, e2}
  Amounts = {1, 2}
  Trials = {0, 1}
  MaxVersions = 3
  MaxFaults = 1
  Subs = {1}
  Callers = {w1, w2}
  TrialJobs = {j1, j2}
  Notice = 1
  MaxCalls = 1
  MaxTime = 1
  Boundary <- MCBoundary
  CardNotice = 1
  Surfaces = {"plans", "trials", "cards"}
INVARIANTS TypeOK VersionsKept NothingTwice CardKept
PROPERTY TrialBilled
CHECK_DEADLOCK FALSE
