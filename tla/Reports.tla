------------------------------ MODULE Reports -------------------------------
(***************************************************************************)
(* What the accounting reports and the dashboard say of the books and of   *)
(* the documents (go_backend_rmt/internal/services/reports_service.go,     *)
(* dashboard_service.go, GetAccountBalances of ledger_service.go).  Some   *)
(* add up ledger lines, the others the amounts of the documents as they    *)
(* are now; a reader compares the two.                                     *)
(*                                                                         *)
(* Simplifications: one location, all dates; the amounts that a report     *)
(* lists by account, customer, tax or day are added up.                    *)
(***************************************************************************)
EXTENDS Ledger

Total  == [d \in Rows |-> doc[d].total]
Tax    == [d \in Rows |-> doc[d].tax]
First  == [d \in Rows |-> doc[d].first]
Paid   == [d \in Rows |-> doc[d].paid]
Unpaid == [d \in Rows |-> doc[d].total - doc[d].paid]

----------------------------------------------------------------------------
(* From the ledger                                                         *)

\* GetTrialBalance and GetAccountBalances: debits less credits of an account.
Balance == [a \in Accounts |-> Sum([d \in Docs |-> ledger[d][a]], Docs)]

BalanceOf(accounts) == Sum(Balance, accounts)

\* GetProfitLoss.
NetProfit == -BalanceOf(Revenues) - BalanceOf(Costs)

\* GetBalanceSheet: ASSETS_MINUS_LIABILITIES_EQUITY.  Nothing here posts to equity.
SheetDifference == BalanceOf(Assets) + BalanceOf(Liabilities)

\* GetCashBookReport and GetBankBookReport: the last running balances.
CashBook == Balance["cash"]
BankBook == Balance["bank"]

----------------------------------------------------------------------------
(* From the documents                                                      *)

\* Rows of the table sales: invoices, refund invoices and VOID rows.
Invoices == Kept({"sale", "void"})

\* GetOutstandingReport; of the sales also GetSalesSummary, GetCustomerBalances and
\* the dashboard's CreditOutstanding; of the purchases GetPurchaseVsReturns and
\* GetSupplierReport.
SalesOutstanding     == Sum(Unpaid, Invoices)
PurchasesOutstanding == Sum(Unpaid, Kept({"purchase"}))

\* GetTaxReviewReport, and GetTaxReport for the side of the sales.
OutputTax == Sum(Tax, Invoices)
InputTax  == Sum(Tax, Kept({"purchase"}))

\* GetExpensesSummary and GetIncomeExpenseReport.
ExpensesTotal == Sum(Total, Kept({"expense"}))

\* The totals of returns, which no report of what is outstanding or of tax looks at.
ReturnsTotal(kind) == Sum(Total, Kept({kind}))
ReturnsTax(kind)   == Sum(Tax, Kept({kind}))

----------------------------------------------------------------------------
(* Properties                                                              *)

\* The lines of d come from one posting, of the amounts d was created with; what it
\* has been paid later, or its total adjusted, has lines of its own.
Faithful(d) ==
  \/ doc[d].kind = "void"
  \/ /\ d \notin due \cup direct
     /\ ~doc[d].deleted
     /\ asof[d].whole /\ ~asof[d].mixed
     /\ asof[d].paid = doc[d].first
     /\ asof[d].total = doc[d].total - doc[d].adjusted
     /\ asof[d].tax = doc[d].tax
     /\ asof[d].total >= asof[d].paid

Refunds == {d \in Of({"sale"}) : doc[d].total < 0}

\* A customer's or a supplier's money that no invoice took.
Unapplied(kind) == Sum(Unpaid, Kept({kind}))

\* "Reports reconcile to the underlying seeded sales, purchases, collections, and
\* expenses": when each document has been posted from the amounts it was created with,
\* receivables are what the invoices leave unpaid, but for returns and advances, for
\* what refunds have paid back, which the reports add to what is owed, and for voids,
\* which they take off and the ledger does not; payables, taxes and expenses likewise,
\* and the sheet is off by the profit and by cents of rounding (reports_service.go).
Reconciled ==
  (\A d \in Rows : Faithful(d)) =>
    /\ Balance["receivable"] =
         SalesOutstanding - Unapplied("collection") - ReturnsTotal("sale_return")
         + Sum(Paid, Refunds) - Sum(Total, Of({"void"}))
    /\ -Balance["payable"] =
         PurchasesOutstanding - Unapplied("payment") - ReturnsTotal("purchase_return")
    /\ -Balance["taxPayable"] =
         OutputTax - ReturnsTax("sale_return") - Sum(Tax, Of({"void"}))
    /\ Balance["taxReceivable"] = InputTax - ReturnsTax("purchase_return")
    /\ Balance["expenses"] = ExpensesTotal
    /\ CashBook + BankBook =
         Sum(First, Of({"sale"})) + ReturnsTotal("collection")
         - Sum(First, Of({"purchase"})) - ReturnsTotal("payment") - ExpensesTotal
    /\ SheetDifference - NetProfit \in
         -Cardinality(Of({"adjustment"}))..Cardinality(Of({"adjustment"}))
=============================================================================
