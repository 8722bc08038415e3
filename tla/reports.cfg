CONSTANTS
  None = None
  Sales = {"retail", "trade", "estimate"}
  Content <- OneOfEach
  Readers = {"reader"}
  Kinds = {"dashboard", "cashier", "auditor", "pages"}
  Windows <- FirstOrBoth
  Filters <- AnyOrActiveGst
  PageLimit = 1
  RecentLimit = 2
  MonthDays = 2
  LastDay = 2
  Scale = 2
  FallsShort <- NoTies
CHECK_DEADLOCK FALSE
SPECIFICATION Spec
INVARIANTS
  MonthAddsUp
  AuditorAgrees
  RegistersComplete
  TakingsMatchBills
  NothingSkipped
