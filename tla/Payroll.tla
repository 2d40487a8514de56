------------------------------- MODULE Payroll -------------------------------
(***************************************************************************)
(* Paying a payroll (go_backend_rmt/internal/services/payroll_service.go)  *)
(* and its lines in the ledger (ledger_service.go), over Accounting, whose *)
(* period cannot be closed while the ledger is out of balance.             *)
(*                                                                         *)
(* MarkPayrollPaid adds up the payroll, marks it PAID and posts the two    *)
(* lines of the payment, each statement a commit of its own.  It looks at  *)
(* no status, components can be added at any time, and no outbox row       *)
(* stands for the lines; whoever wants them repaired marks it paid again.  *)
(*                                                                         *)
(* Simplifications:                                                        *)
(*   - one payroll, dated in the period; its components, advances and      *)
(*     deductions are what they sum to (extras), read in one step;         *)
(*   - a ledger line is its amount; a line posted twice is what the two    *)
(*     postings sum to.                                                    *)
(***************************************************************************)
EXTENDS Accounting

CONSTANTS
  Basic,      \* the basic salary
  Extras      \* what components less advances and deductions may sum to

ASSUME PayrollConstants == Basic \in Nat /\ Extras \subseteq Int /\ 0 \in Extras

VARIABLES
  extras,      \* the sum of the components, less advances and deductions
  net,         \* net_salary of the row
  paid,        \* whether the row is PAID
  posted,      \* posted[i]: the amount of line i in the ledger, 0: missing
  interrupted  \* history: a posting stopped half-way, or two overlapped

payroll     == <<extras, net, paid, posted, interrupted>>
payrollVars == <<vars, payroll>>

Sides == 1..2   \* the expense, then the cash

PayrollInit ==
  /\ Init
  /\ extras = 0
  /\ net = Basic
  /\ paid = FALSE
  /\ posted = [i \in Sides |-> 0]
  /\ interrupted = FALSE

\* AddSalaryComponent, AddAdvance, AddDeduction: whatever the status.
AddToPayroll(x) ==
  /\ x # extras
  /\ extras' = x
  /\ UNCHANGED <<vars, net, paid, posted, interrupted>>

\* MarkPayrollPaid adds the payroll up, the allowances and deductions it was
\* created with excepted,
MarkPayrollPaid(r) ==
  /\ at[r] = Idle
  /\ Goto(r, [step |-> "pay", amount |-> Basic + extras])
  /\ UNCHANGED <<period, lines, books, reviews, raced, payroll>>

\* marks it,
SetPaid(r) ==
  /\ at[r].step = "pay"
  /\ paid' = TRUE
  /\ net' = IF at[r].amount < 0 THEN 0 ELSE at[r].amount
  /\ Goto(r, [step |-> "record"])
  /\ UNCHANGED <<period, lines, books, reviews, raced, extras, posted, interrupted>>

Posting(q) == at[q].step \in {"find", "post"}

\* and RecordPayrollPayment reads the net salary of the row,
RecordPayrollPayment(r) ==
  /\ at[r].step = "record"
  /\ IF net = 0 THEN End(r)
     ELSE Goto(r, [step |-> "find", line |-> 1, amount |-> net])
  /\ interrupted' = (interrupted \/ (net # 0 /\ \E q \in Requests : Posting(q)))
  /\ UNCHANGED <<period, lines, books, reviews, raced, extras, net, paid, posted>>

\* Fault: the second line is of the net salary by then.
Fault_After(r) == IF at[r].line = 2 THEN Idle
                  ELSE [step |-> "find", line |-> 2, amount |-> net]

\* Both lines are of the amount that was read.
After(r) == IF at[r].line = 2 THEN Idle
            ELSE [step |-> "find", line |-> 2, amount |-> at[r].amount]

\* insertEntryIfMissing: the NOT EXISTS of the statement,
FindLine(r) ==
  /\ at[r].step = "find"
  /\ Goto(r, IF posted[at[r].line] # 0 THEN After(r) ELSE [at[r] EXCEPT !.step = "post"])
  /\ UNCHANGED <<period, lines, books, reviews, raced, payroll>>

\* and its INSERT.
PostLine(r) ==
  /\ at[r].step = "post"
  /\ posted' = [posted EXCEPT ![at[r].line] = @ + at[r].amount]
  /\ Goto(r, After(r))
  /\ UNCHANGED <<period, lines, books, reviews, raced, extras, net, paid, interrupted>>

\* A statement fails or the server stops between the commits.
Stop(r) ==
  /\ at[r].step \in {"pay", "record", "find", "post"}
  /\ interrupted' = (interrupted \/ (Posting(r) /\ at[r].line = 2))
  /\ End(r)
  /\ UNCHANGED <<period, lines, books, reviews, raced, extras, net, paid, posted>>

----------------------------------------------------------------------------

\* The trial balance of the checklist.
Balanced == posted[1] = posted[2]

PayrollNext ==
  \/ \E x \in Extras : AddToPayroll(x)
  \/ \E r \in Requests :
       \/ MarkPayrollPaid(r) \/ SetPaid(r) \/ RecordPayrollPayment(r)
       \/ FindLine(r) \/ PostLine(r) \/ Stop(r)
       \/ AccountingStep(r) /\ UNCHANGED payroll
       \/ LookAtChecklist(r, Balanced) /\ UNCHANGED payroll
  \/ /\ \/ \E s \in Statements, why \in BOOLEAN : MarkStatementReview(s, why)
        \/ ReopenAccountingPeriod
     /\ UNCHANGED payroll

PayrollSpec == PayrollInit /\ [][PayrollNext]_payrollVars

----------------------------------------------------------------------------
(* Properties                                                              *)

\* The two lines of a payment have the same amount when nobody is posting, and
\* there are none or both, however often the payroll is added to and marked paid
\* again, unless a posting stopped between them or two overlapped.
PaymentBalances ==
  interrupted \/ Balanced \/ \E r \in Requests : Posting(r)
=============================================================================
