CONSTANTS
  r1 = r1  r2 = r2  r3 = r3
  owner = owner  cashier = cashier  rival = rival
  shop = shop  market = market
  e1 = e1  e2 = e2  e3 = e3  e4 = e4
  None = None
  Requests = {r1, r2, r3}
  Workers = 2
  Staff = {owner, cashier, rival}
  Shops = {shop, market}
  Emails = {e1, e2, e3, e4}
  OpeningUsers <- TwoShops
  Calls <- FewCalls
  Plans = {1, 2}
  Activations <- FiveActivations
SPECIFICATION Spec
INVARIANTS
  AlwaysMirrored
