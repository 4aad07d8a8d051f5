SPECIFICATION Spec
CONSTANTS
  DueJobs = {d1}
  UpcomingJobs = {u1}
  Requests = {r1}
  MaxInv = 2
  MaxPay = 2
  Period = 1
  RetryDelay = 1
  Lead = 1
  AllowRetries = TRUE
  MaxTime = 0
  MaxAborts = 1
  MaxRequests = 1
  Origins = {"running","created"}
  FirstSources = {"card","bank"}
  Events = {"customer","failed","card","disable","switch","mandate","cancel","retry","link","refund"}
INVARIANTS TypeOK MoneyConserved CheckoutAtomic PaidBacked
PROPERTY LedgerKept
CHECK_DEADLOCK FALSE
