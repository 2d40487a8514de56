\* Two overlapping walks of the rows of one cash payment, with a crash and a handler error;
\* without a crash, replay completes every row.
SPECIFICATION FairSpec
CONSTANTS
  d1 = d1
  d2 = d2
  d3 = d3
  NoDoc = NoDoc
  NoEntry = NoEntry
  Docs = {d1}
  HeldDocs = {}
  KindsOf <- CashPayment
  Workers = {w1, w2}
  Lines = 2
  CouponLimit = 1
  MaxFaults = 1
  MaxErrors = 1
  MaxSessions = 1
INVARIANTS
  DuplicatesBounded
  SessionCashOnce
PROPERTY ReplayCompletes
