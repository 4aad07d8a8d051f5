SPECIFICATION FairSpec
CONSTANTS
  Orders = {o1}
  Mandates = {m1}
  NoMandate = none
  Pollers = {p1, p2}
  Backoff <- MCBackoff
  LastWait = 2
  MaxAge = 3
  MaxTime = 4
  StoredBy = 0
  MaxFaults = 1
INVARIANTS TypeOK ActivatedOnce OutcomeBacked
PROPERTIES PollSpacing EveryMandateEnds
CHECK_DEADLOCK FALSE
