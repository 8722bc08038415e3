CONSTANTS
  r1 = r1  r2 = r2  r3 = r3  r4 = r4  r5 = r5  p1 = p1  p2 = p2
  None = None
  Products = {p1}
  Requests = {r1, r2, r3, r4, r5}
  Workers = 2
  OpeningStock = 4
  Carts <- OneUnit
  MaxMonth = 2
  YearOf <- OneYear
  InvoicePrefixes = {"INV"}
  Like <- OwnSeries
  Subscriptions <- OneBillOrSuspended
  TrialQuota = 1
  Workload = {"sale", "activate"}
SYMMETRY Symmetry
SPECIFICATION Spec
INVARIANTS
  UsageCountsBills
  LimitOvershootBounded
