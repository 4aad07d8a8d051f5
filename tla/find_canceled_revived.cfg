SPECIFICATION FairSpec
CONSTANTS
  DueJobs = {d1}
  UpcomingJobs = {}
  Requests = {r1}
  MaxInv = 1
  MaxPay = 1
  Period = 3
  RetryDelay = 1
  Lead = 1
  AllowRetries = TRUE
  MaxTime = 1
  MaxAborts = 0
  MaxRequests = 1
  Origins = {"running"}
  FirstSources = {"card"}
  Events = {"cancel"}
PROPERTY CanceledStays
CHECK_DEADLOCK FALSE
