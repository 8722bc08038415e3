CONSTANTS
  r1 = r1  r2 = r2  r3 = r3  r4 = r4  r5 = r5  p1 = p1  p2 = p2
  None = None
  Products = {p1}
  Requests = {r1, r2, r3, r4}
  Workers = 2
  OpeningStock = 4
  Carts <- TwiceTheSame
  MaxMonth = 2
  YearOf <- TwoYears
  InvoicePrefixes = {"INV", "INV-2026"}
  Like <- Overlapping
  Subscriptions <- Unlimited
  TrialQuota = 1
  Workload = {"sale", "void", "settings"}
SYMMETRY Symmetry
SPECIFICATION Spec
INVARIANTS
  TypeOK
  NextNumberFree
  NumbersUnique
  SaleWrittenWhole
  StockIsLastBalance
