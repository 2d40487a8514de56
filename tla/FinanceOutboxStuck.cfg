\* A crash leaves a row PROCESSING: the Replay Outbox button never selects it again.
SPECIFICATION Spec
CONSTANTS
  d1 = d1
  d2 = d2
  d3 = d3
  NoDoc = NoDoc
  NoEntry = NoEntry
  Docs = {d1}
  HeldDocs = {}
  KindsOf <- CashPayment
  Workers = {w1}
  Lines = 1
  CouponLimit = 1
  MaxFaults = 1
  MaxErrors = 0
  MaxSessions = 0
INVARIANT OwedIsReplayable
