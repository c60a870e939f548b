CONSTANTS
  m1 = m1
  m2 = m2
  k1 = k1
  k2 = k2
  NoOne = NoOne
  Clients = {m1, m2}
  Orders = {1, 2}
  References = {0, 1, 2, 11, 12}
  Addenda = {11}
  Amounts = {1, 4}
  Requests = {1}
  Changes = {1}
  Cost = 1
  MaxStock = 2
  None = None
  s1 = s1
  s2 = s2
  Specialists = {s1, s2}
  Profiled = {s1}
  Jobs = {1}
  Couriers = {k1, k2}
  Lot = 1
  Goods = 1
  Freights = {0, 1}
  Funds = 3
  MaxCancels = 1
  MaxOnSite = 1
SPECIFICATION Spec
INVARIANTS
  OrderIsBookedAtItsTotal
CHECK_DEADLOCK FALSE
