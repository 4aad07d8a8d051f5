SPECIFICATION Spec
CONSTANTS
  p1 = p1
  p2 = p2
  p3 = p3
  t1 = t1
  t2 = t2
  i1 = i1
  i2 = i2
  w1 = w1
  w2 = w2
  c1 = c1
  c2 = c2
  Payments = {p1, p2, p3}
  NoPayment = NoPayment
  Tenants = {t1, t2}
  TenantOf <- TwoTenants
  Checkouts = {p1, p2}
  Invoices = {i1, i2}
  InvoiceOf <- TwoInvoices
  Replicas = {w1, w2}
  Callers = {c1, c2}
  Day = 4
  JobTick = 1
  Window = 2
  Delay = 4
  StartDay = 3
  SoldBy = 3
  MaxTime = 20
  MaxFaults = 1
SYMMETRY Alike
INVARIANTS TypeOK PaidOutBounded CompletedBacked MoneyOnce PaidInTime
CHECK_DEADLOCK FALSE
