SPECIFICATION Spec
CONSTANTS
  DueJobs = {d1}
  UpcomingJobs = {}
  Requests = {}
  MaxInv = 1
  MaxPay = 1
  Period = 3
  RetryDelay = 1
  Lead = 1
  AllowRetries = TRUE
  MaxTime = 1
  MaxAborts = 0
  MaxRequests = 0
  Origins = {"running"}
  FirstSources = {"card"}
  Events = {}
INVARIANT SuccessSettled
CHECK_DEADLOCK FALSE
