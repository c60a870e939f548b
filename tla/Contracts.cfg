CONSTANTS
  m1 = m1
  m2 = m2
  e1 = e1
  e2 = e2
  Clients = {m1, m2}
  References = {0, 1, 2, 21, 22}
  Funds = 2
  Bids = {1, 2}
  Prices = {1, 2}
  Limit = 1
  MaxRounds = 2
  Nobody = Nobody
  Subs = {1, 2}
  Engineers = {e1, e2}
  Profiled = {e1}
  Vendors = {21, 22}
  Fees = {0, 1, 2}
  Vacant = Vacant
  Deals = {1, 2}
  Parties = {"owner", "pm", "pro"}
  Termins = {1, 2}
  Offers = {1000, 2005, 2014, 2300}
  Agreed = 200
  Tolerance = 50
  MaxMinor = 110000
SPECIFICATION Spec
SYMMETRY Requests
INVARIANTS
  TypeOK
  OnePlanPerContract
  SignedPlanIsPlan
  BidPaidIsBooked
  FreezeHasPending
  PaidAddsUp
  SpentIsCovered
PROPERTIES
  OneHire
  AmountsStay
CHECK_DEADLOCK FALSE
