\* One walk at a time: two sales with one coupon code and a held sale, a crash or failing statement.
SPECIFICATION Spec
CONSTANTS
  d1 = d1
  d2 = d2
  d3 = d3
  NoDoc = NoDoc
  NoEntry = NoEntry
  Docs = {d1, d2, d3}
  HeldDocs = {d3}
  KindsOf <- SalesAndHeld
  Workers = {w1}
  Lines = 2
  CouponLimit = 1
  MaxFaults = 1
  MaxErrors = 1
  MaxSessions = 1
INVARIANTS
  TypeOK
  NeverDropped
  AtMostOnce
  CouponLimitKept
PROPERTY KeepsPromise
