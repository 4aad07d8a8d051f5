SPECIFICATION Spec
CONSTANTS
  DueJobs = {d1}
  UpcomingJobs = {}
  Requests = {r1}
  MaxInv = 1
  MaxPay = 7
  Period = 2
  RetryDelay = 1
  Lead = 1
  AllowRetries = TRUE
  MaxTime = 0
  MaxAborts = 0
  MaxRequests = 1
  Origins = {"running"}
  FirstSources = {"bank"}
  Events = {"disable","switch","mandate","cancel","retry","refund"}
INVARIANTS AttemptsBounded
CHECK_DEADLOCK FALSE
