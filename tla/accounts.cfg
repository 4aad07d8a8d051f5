SPECIFICATION FairSpec
CONSTANTS
  Jobs = {1, 2, 3}
  NoJob = 0
  Consumers = {c1, c2}
  Senders = {w1, w2}
  MaxFaults = 1
  MaxSessions = 2
  CodeLife = 0
  TokenLife = 0
  MaxVerifies = 6
  MaxTime = 1
  Emails = {"a_b", "axb", "cd"}
  Matches <- MCMatches
  Clerks = {r1, r2}
  MaxCustomers = 3
  MaxNames = 2
  Callers = {q1, q2}
  MaxTenants = 2
  MaxCalls = 4
  Surfaces = {"mail", "portal", "customers", "merchant"}
INVARIANTS TypeOK SessionsHold MailsBounded EmailsUnique AnswersHold
PROPERTY MailDelivered
CHECK_DEADLOCK FALSE
