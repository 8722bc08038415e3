CONSTANTS
  r1 = r1  r2 = r2  r3 = r3  r4 = r4  r5 = r5  p1 = p1  p2 = p2
  None = None
  Products = {p1}
  Requests = {r1, r2, r3, r4}
  Workers = 2
  OpeningStock = 2
  Carts <- OneUnit
  MaxMonth = 2
  YearOf <- TwoYears
  InvoicePrefixes = {"INV"}
  Like <- OwnSeries
  Subscriptions <- Unlimited
  TrialQuota = 1
  Workload = {"sale", "void"}
  Deliveries <- TwiceTheSame
  Deltas <- Recount
  StockTasks = {"purchase", "cancel", "adjust"}
SYMMETRY Symmetry
SPECIFICATION PosSpec
INVARIANTS
  PosTypeOK
  SequentialNumbers
  VoidsReturnWhole
  CancelsReverseWhole
PROPERTIES
  ImplementsInvoiceBook
  ImplementsPerpetualLedger
  StockLostOnlyToStaleLoads
  CounterDriftsOnlyIfOvertaken
