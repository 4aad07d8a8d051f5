SPECIFICATION FairSpec
CONSTANTS
  DueJobs = {d1}
  UpcomingJobs = {u1}
  Requests = {}
  MaxInv = 3
  MaxPay = 9
  Period = 3
  RetryDelay = 1
  Lead = 1
  AllowRetries = TRUE
  MaxTime = 4
  MaxAborts = 0
  MaxRequests = 0
  Origins = {"running"}
  FirstSources = {"card"}
  Events = {}
INVARIANTS ChargesAsPlanned ClosedInvoices
PROPERTY DueIsResolved
CHECK_DEADLOCK FALSE
