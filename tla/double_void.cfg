CONSTANTS
  r1 = r1  r2 = r2  r3 = r3  r4 = r4  r5 = r5  p1 = p1  p2 = p2
  None = None
  Products = {p1}
  Requests = {r1, r2, r3}
  Workers = 2
  OpeningStock = 2
  Carts <- OneUnit
  MaxMonth = 1
  YearOf <- OneMonth
  InvoicePrefixes = {"INV"}
  Like <- OwnSeries
  Subscriptions <- Unlimited
  TrialQuota = 1
  Workload = {"sale", "void"}
SYMMETRY Symmetry
SPECIFICATION Spec
INVARIANTS
  VoidReturnsOnce
