SPECIFICATION FairSpec
CONSTANTS
  Jobs = {j1}
  NoJob = NoJob
  Consumers = {c1, c2}
  Callers = {r1}
  Answers = {"ok", "fail"}
  MaxRetries = 1
  MaxFaults = 1
INVARIANTS TypeOK DeliveredReceived AttemptsLogged NotForgotten
PROPERTY EventuallyResolved
CHECK_DEADLOCK FALSE
