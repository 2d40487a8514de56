\* Two statement lines, two ledger entries and a payroll; a register over two days with
\* the cash of a sale and of a refund; three documents, all about one. Two requests at a
\* time.
SPECIFICATION OfficeSpec
CONSTANTS
  r1 = r1
  r2 = r2
  s1 = s1
  s2 = s2
  e1 = e1
  e2 = e2
  banked = banked
  refund = refund
  Requests = {r1, r2}
  Parts = {"books", "till", "reports"}
  Statements = {s1, s2}
  Entries = {e1, e2}
  StatementAmount = 2
  EntryAmount = 2
  MaxReviews = 1
  Basic = 1
  Extras = {0, 1}
  CashEntries = {banked, refund}
  CashIn = {banked}
  Opening = 1
  LastDay = 2
  MaxMoves = 1
  NoRegister = NoRegister
  MaxDocs = 3
  Totals = {2, 3}
  Taxes = {1}
  MaxStops = 1
  NoDoc = NoDoc
SYMMETRY OfficeSymmetry
CONSTRAINT Bounded
INVARIANTS
  
  PaymentBalances
  CashFollowsEvents
  EntriesBalance
  Reconciled
PROPERTY ClosedIsFinal
\* A register that is closed on the last day rests.
CHECK_DEADLOCK FALSE
