CONSTANTS
  r1 = r1  r2 = r2  r3 = r3
  None = None
  Initial = 2
  Requests = {r1, r2, r3}
  Workers = 2
  MaxLines = 2
  Receipts <- ThreeReceipts
  Edits <- MarkupOrRate
  OpeningRow <- Tenpaisa
  Orders <- ThreeOrders
  Splits <- OneTwoOrThree
  TenantSupply = "intra"
  Scale = 2
  FallsShort <- TaxOfFirstLine
SYMMETRY Symmetry
SPECIFICATION Spec
INVARIANT
  PaymentsEqualTotal
