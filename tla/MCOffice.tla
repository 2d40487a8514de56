------------------------------ MODULE MCOffice ------------------------------
(***************************************************************************)
(* One instance for TLC of what a shop's office does: accounts and payroll *)
(* (Payroll, over Accounting), the cash register (CashRegister), and the   *)
(* postings of documents with the reports (Reports, over Ledger).  A       *)
(* behaviour is of one of the three, its part, and the others rest.        *)
(***************************************************************************)
EXTENDS Payroll, TLC

CONSTANTS
  r1, r2, s1, s2, e1, e2, banked, refund,   \* model values
  Parts, CashEntries, CashIn, Opening, LastDay, MaxMoves, NoRegister,
  MaxDocs, Totals, Taxes, MaxStops, NoDoc

VARIABLES
  part,
  today, register, job, midnight,
  side, doc, ledger, due, direct, asof, stops

Till == INSTANCE CashRegister WITH Entries <- CashEntries, Incoming <- CashIn
Report == INSTANCE Reports

ASSUME OfficeConstants ==
  /\ Till!CashRegisterConstants
  /\ Report!LedgerConstants
  /\ Parts \subseteq {"books", "till", "reports"}

till == <<today, register, job, midnight>>
reports == <<side, doc, ledger, due, direct, asof, stops>>

OfficeInit ==
  /\ PayrollInit /\ Till!Init /\ Report!LedgerInit /\ part \in Parts
  /\ part # "reports" => side = "sales"

OfficeNext ==
  \/ part = "books" /\ PayrollNext /\ UNCHANGED <<part, till, reports>>
  \/ part = "till" /\ Till!Next /\ UNCHANGED <<part, payrollVars, reports>>
  \/ part = "reports" /\ Report!LedgerNext /\ UNCHANGED <<part, payrollVars, till>>

OfficeSpec == OfficeInit /\ [][OfficeNext]_<<part, payrollVars, till, reports>>

OfficeSymmetry ==
  Permutations(Requests) \cup Permutations(Statements) \cup Permutations(Entries)

\* Bounds: a behaviour is followed until two requests raced for a line or an entry,
\* payroll is paid beside one line or entry, and of the documents all but one are about
\* that one.
Bounded ==
  /\ part = "reports" => Cardinality({d \in Report!Rows : doc[d].of = NoDoc}) <= 1
  /\ raced = {}
  /\ extras # 0 \/ paid => Cardinality(entered \cup {e \in Entries : bank[e] > 0}) <= 1

----------------------------------------------------------------------------
(* The properties of the register, stated and explained in CashRegister.   *)

\* Matches stay within their line and entry, and the status of a line says how much of it
\* is matched (MatchStatement).
MatchesAgree == MatchesWithin /\ MatchedIsWhole

\* One register is open (OpenCashRegister), and its balances are what its events say
\* (RecordMovement).
CashFollowsEvents == Till!CashFollowsEvents

\* A closed register stays as it was closed (CloseCashRegister).
ClosedIsFinal == Till!ClosedIsFinal

----------------------------------------------------------------------------
(* Those of the reports, in Ledger and Reports.                            *)

\* The lines of a posting balance (RecordSale to RecordPurchaseCostAdjustment).
EntriesBalance == part = "reports" => Report!EntriesBalance

\* Reports of the ledger agree with those of the documents (reports_service.go).
Reconciled == part = "reports" => Report!Reconciled
=============================================================================
