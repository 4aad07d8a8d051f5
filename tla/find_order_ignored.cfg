SPECIFICATION Spec
CONSTANTS
  Orders = {o1}
  Mandates = {}
  NoMandate = none
  Pollers = {p1}
  Backoff <- MCBackoff
  LastWait = 2
  MaxAge = 3
  MaxTime = 4
  StoredBy = 0
  MaxFaults = 1
INVARIANT PaidOrderEnrolled
CHECK_DEADLOCK FALSE
