SPECIFICATION Spec
CONSTANTS
  Surfaces = {"dashboard", "listing", "limits", "provider"}
  Buyers = {b1, b2}
  Plans = {"monthly", "yearly"}
  PlanOf <- MCPlanOf
  Methods = {"card", "bank"}
  Period <- MCPeriod
  MaxInvoices = 2
  MaxPayments = 2
  Start = 1
  Horizon = 3
  MaxChanges = 4
  MaxMeanwhile = 1
  Day = 2
  Behind = 1
  Listed = 1
  Limit = 2
  MaxRows = 5
  MaxGone = 2
  MaxArrived = 2
  Keys = {k1, k2}
  Burst = 2
  Window = 2
  Idle = 2
  MaxTicks = 4
  MaxStarts = 1
  Requests = {r1, r2}
  Life = 3
  Margin = 1
  MaxTokens = 4
  MaxUpsets = 1
  LastTick = 3
SYMMETRY MCSymmetry
INVARIANTS TypeOK ReportAddsUp PagesComplete RequestsBounded TokenUsable
CHECK_DEADLOCK FALSE
