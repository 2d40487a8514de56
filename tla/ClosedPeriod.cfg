\* The books, one request at a time.
SPECIFICATION OfficeSpec
CONSTANTS
  r1 = r1
  r2 = r2
  s1 = s1
  s2 = s2
  e1 = e1
  e2 = e2
  banked = banked
  refund = refund
  Requests = {r1}
  Parts = {"books"}
  Statements = {s1, s2}
  Entries = {e1, e2}
  StatementAmount = 2
  EntryAmount = 2
  MaxReviews = 0
  Basic = 1
  Extras = {0, 1}
  CashEntries = {banked, refund}
  CashIn = {banked}
  Opening = 1
  LastDay = 2
  MaxMoves = 1
  NoRegister = NoRegister
  MaxDocs = 3
  Totals = {2, 3}
  Taxes = {1}
  MaxStops = 1
  NoDoc = NoDoc
PROPERTY ClosedBlocksActivity
CHECK_DEADLOCK FALSE
