------------------------------- MODULE Ledger -------------------------------
(***************************************************************************)
(* The general ledger and the documents it is posted from                  *)
(* (go_backend_rmt/internal/services/ledger_service.go, and the writes of  *)
(* the documents' services to the amounts a posting reads).                *)
(*                                                                         *)
(* A posting reads its document as it is when the outbox gets to it, which *)
(* may be after a failure and a replay, and inserts the lines that are not *)
(* there yet.  Meanwhile a collection or a payment can raise what a sale   *)
(* or a purchase has been paid, a refund can lower it, the lines of an     *)
(* order can be replaced.  The posting of a cost adjustment is tried once, *)
(* after the commit, and no outbox row stands for it.                      *)
(*                                                                         *)
(* Simplifications:                                                        *)
(*   - amounts are small integers, the cents of the code;                  *)
(*   - a walk posts its lines in one step, in order, and may stop after    *)
(*     any of them; walks that overlap are FinanceOutbox's, edits of a     *)
(*     completed sale SaleEdit's, payrolls Payroll's subject;              *)
(*   - a sale has a collection, a return or a refund of its own amounts,   *)
(*     allocated to it and to no other;                                    *)
(*   - a behaviour has documents of one side, sales or purchases.          *)
(***************************************************************************)
EXTENDS Integers, Sequences, FiniteSets, FiniteSetsExt

CONSTANTS
  MaxDocs,    \* bound: rows of sales, collections, purchases, payments, ...
  Totals,     \* totals of sales and purchases
  Taxes,      \* the tax in a total
  MaxStops,   \* bound: postings that stop before their last line
  NoDoc

Docs == 1..MaxDocs   \* as the rows are created

Posted == {"sale", "sale_return", "collection", "purchase", "purchase_return", "payment",
           "expense"}   \* what the outbox posts

DocRecord ==
  [kind : Posted \cup {"void", "adjustment"}, total : Int, tax : Int, cost : Int, paid : Int,
   first : Int, of : Docs \cup {NoDoc}, banked : BOOLEAN, quick : BOOLEAN,
   deleted : BOOLEAN, adjusted : Int]

LedgerConstants ==
  /\ Totals \subseteq Nat \ {0} /\ Taxes \subseteq Nat /\ {MaxDocs, MaxStops} \subseteq Nat
  /\ \A t \in Totals, x \in Taxes : x < t
  /\ NoDoc \notin DocRecord /\ NoDoc \notin Docs

VARIABLES
  side,     \* "sales" or "purchases"
  doc,      \* doc[d]: the row, NoDoc before it is created
  ledger,   \* ledger[d][a]: the line of account a for d, debit less credit, 0: none
  due,      \* documents whose outbox row is not COMPLETED
  direct,   \* adjustments whose one posting has not been tried yet
  asof,     \* history: the amounts d was posted from
  stops

ledgerVars == <<side, doc, ledger, due, direct, asof, stops>>

Assets      == {"cash", "bank", "receivable", "inventory", "taxReceivable"}
Liabilities == {"payable", "taxPayable"}
Revenues    == {"revenue"}
Costs       == {"cogs", "expenses"}
Accounts    == Assets \cup Liabilities \cup Revenues \cup Costs

Unwritten == [a \in Accounts |-> 0]
Unposted  == [posted |-> FALSE, whole |-> FALSE, mixed |-> FALSE,
              total |-> 0, tax |-> 0, paid |-> 0]

LedgerInit ==
  /\ side \in {"sales", "purchases"}
  /\ doc = [d \in Docs |-> NoDoc]
  /\ ledger = [d \in Docs |-> Unwritten]
  /\ due = {}
  /\ direct = {}
  /\ asof = [d \in Docs |-> Unposted]
  /\ stops = 0

Rows == {d \in Docs : doc[d] # NoDoc}
Of(kinds) == {d \in Rows : doc[d].kind \in kinds}
Kept(kinds) == {d \in Of(kinds) : ~doc[d].deleted}

----------------------------------------------------------------------------
(* The lines of a document                                                 *)

Line(account, amount) == [account |-> account, amount |-> amount]
AtLeastZero(n) == IF n < 0 THEN 0 ELSE n

\* The asset account of a payment, by the type of its method.
Money(d) == IF d.banked THEN "bank" ELSE "cash"

\* Fault: the receivable is the total, whatever was paid.
Fault_SaleLines(d) ==
  <<Line("cash", d.paid), Line("receivable", d.total),
    Line("revenue", d.tax - d.total), Line("taxPayable", -d.tax),
    Line("cogs", d.cost), Line("inventory", -d.cost)>>

\* RecordSale; a refund invoice is a sale of negative amounts.
SaleLines(d) ==
  <<Line("cash", d.paid), Line("receivable", d.total - d.paid),
    Line("revenue", d.tax - d.total), Line("taxPayable", -d.tax),
    Line("cogs", d.cost), Line("inventory", -d.cost)>>

SaleReturnLines(d) ==
  <<Line("revenue", AtLeastZero(d.total - d.tax)), Line("taxPayable", d.tax),
    Line("receivable", -d.total), Line("inventory", d.cost), Line("cogs", -d.cost)>>

\* Fault: only what invoices took of a collection is posted.
Fault_CollectionLines(d) == <<Line(Money(d), d.paid), Line("receivable", -d.paid)>>

CollectionLines(d) == <<Line(Money(d), d.total), Line("receivable", -d.total)>>

\* RecordPurchase never posts a negative line.
PurchaseLines(d) ==
  <<Line("inventory", AtLeastZero(d.total - d.tax)), Line("taxReceivable", d.tax),
    Line("cash", -d.paid), Line("payable", -AtLeastZero(d.total - d.paid))>>

PurchaseReturnLines(d) ==
  <<Line("payable", d.total), Line("inventory", -AtLeastZero(d.total - d.tax)),
    Line("taxReceivable", -d.tax)>>

SupplierPaymentLines(d) == <<Line("payable", d.total), Line(Money(d), -d.total)>>

ExpenseLines(d) == <<Line("expenses", d.total), Line("cash", -d.total)>>

\* Half of a cent is rounded away from zero, as math.Round does.
Halved(n) == IF n < 0 THEN -((1 - n) \div 2) ELSE (n + 1) \div 2

\* RecordPurchaseCostAdjustment: of a cost, what belongs to goods still in stock (none,
\* half or all of them) goes to inventory and what is left to the cost of goods sold,
\* each rounded by itself.
AdjustmentLines(d, halvesLeft) ==
  <<Line("payable", -d.total), Line("inventory", Halved(d.total * halvesLeft)),
    Line("cogs", Halved(d.total * (2 - halvesLeft)))>>

Lines(d) ==
  CASE d.kind = "sale"            -> SaleLines(d)
    [] d.kind = "sale_return"     -> SaleReturnLines(d)
    [] d.kind = "collection"      -> CollectionLines(d)
    [] d.kind = "purchase"        -> PurchaseLines(d)
    [] d.kind = "purchase_return" -> PurchaseReturnLines(d)
    [] d.kind = "payment"         -> SupplierPaymentLines(d)
    [] d.kind = "expense"         -> ExpenseLines(d)

\* The rows a posting looks for: a deleted sale, purchase or collection is not found.
Found(d) == ~doc[d].deleted

----------------------------------------------------------------------------
(* Posting                                                                 *)

\* insertEntryIfMissing, for each line of ls whose amount is not zero.
Insert(written, ls) ==
  [a \in Accounts |->
     LET new == {i \in DOMAIN ls : ls[i].account = a}
     IN IF written[a] # 0 \/ new = {} THEN written[a]
        ELSE ls[CHOOSE i \in new : TRUE].amount]

\* The amounts the lines of d come from, now that `whole` of them may be there.
Noted(d, whole) ==
  LET now == [total |-> doc[d].total, tax |-> doc[d].tax, paid |-> doc[d].paid]
      was == [total |-> asof[d].total, tax |-> asof[d].tax, paid |-> asof[d].paid]
  IN IF asof[d].posted
       THEN [asof[d] EXCEPT !.whole = whole, !.mixed = @ \/ now # was]
       ELSE [posted |-> TRUE, whole |-> whole, mixed |-> FALSE,
             total |-> now.total, tax |-> now.tax, paid |-> now.paid]

\* A walk of the outbox posts d, and the row is COMPLETED.
Post(d) ==
  /\ d \in due
  /\ Found(d)
  /\ ledger' = [ledger EXCEPT ![d] = Insert(@, Lines(doc[d]))]
  /\ asof' = [asof EXCEPT ![d] = Noted(d, TRUE)]
  /\ due' = due \ {d}
  /\ UNCHANGED <<side, doc, direct, stops>>

\* It stops after some lines: the row is FAILED, and due again later.
StopPosting(d, k) ==
  /\ stops < MaxStops
  /\ d \in due
  /\ Found(d)
  /\ k \in 1..(Len(Lines(doc[d])) - 1)
  /\ ledger' = [ledger EXCEPT ![d] = Insert(@, SubSeq(Lines(doc[d]), 1, k))]
  /\ asof' = [asof EXCEPT ![d] = Noted(d, FALSE)]
  /\ stops' = stops + 1
  /\ UNCHANGED <<side, doc, due, direct>>

\* The one attempt to post an adjustment, k lines of it; its error is dropped.
PostAdjustment(d, k, halvesLeft) ==
  LET ls == AdjustmentLines(doc[d], halvesLeft)
  IN /\ d \in direct
     /\ k \in 0..Len(ls)
     /\ k < Len(ls) => stops < MaxStops
     /\ ledger' = [ledger EXCEPT ![d] = Insert(@, SubSeq(ls, 1, k))]
     /\ asof' = [asof EXCEPT ![d] = Noted(d, k = Len(ls))]
     /\ direct' = direct \ {d}
     /\ stops' = IF k < Len(ls) THEN stops + 1 ELSE stops
     /\ UNCHANGED <<side, doc, due>>

----------------------------------------------------------------------------
(* Documents of the sales side                                             *)

Row(kind, total, tax, paid) ==
  [kind |-> kind, total |-> total, tax |-> tax, cost |-> IF kind = "sale" THEN 1 ELSE 0,
   paid |-> paid, first |-> paid, of |-> NoDoc, banked |-> FALSE,
   quick |-> FALSE, deleted |-> FALSE, adjusted |-> 0]

Fresh(d) == d = Cardinality(Rows) + 1
New(d, row) == Fresh(d) /\ doc' = [doc EXCEPT ![d] = row] /\ due' = due \cup {d}

\* CreateSale and ProcessCheckout: never paid more than the total.
CreateSale(d, total, tax, paid) ==
  /\ side = "sales"
  /\ paid \in 0..total
  /\ New(d, Row("sale", total, tax, paid))
  /\ UNCHANGED <<side, ledger, direct, asof, stops>>

\* CreateQuickSale creates a sale that nothing is paid of,
CreateQuickSale(d, total, tax) ==
  /\ side = "sales"
  /\ New(d, [Row("sale", total, tax, 0) EXCEPT !.quick = TRUE])
  /\ UNCHANGED <<side, ledger, direct, asof, stops>>

\* and, posted or not, sets it paid by a statement of its own.
MarkQuickSale(d) ==
  /\ d \in Of({"sale"})
  /\ doc[d].quick
  /\ doc' = [doc EXCEPT ![d].quick = FALSE, ![d].paid = doc[d].total,
                        ![d].first = @ + doc[d].total - doc[d].paid]
  /\ UNCHANGED <<side, ledger, due, direct, asof, stops>>

Sold == {s \in Of({"sale"}) : doc[s].total > 0}

\* CreateCollection: the invoice takes what is outstanding of it.
CreateCollection(d, s, amount, banked) ==
  LET applied == Min({amount, AtLeastZero(doc[s].total - doc[s].paid)})
      row == [Row("collection", amount, 0, applied) EXCEPT !.of = s, !.banked = banked]
  IN /\ Fresh(d)
     /\ s \in Sold
     /\ doc' = [doc EXCEPT ![d] = row, ![s].paid = @ + applied]
     /\ due' = due \cup {d}
     /\ UNCHANGED <<side, ledger, direct, asof, stops>>

\* DeleteCollection: the row goes, what it paid and what was posted stays.
DeleteCollection(d) ==
  /\ d \in Kept({"collection"})
  /\ doc' = [doc EXCEPT ![d].deleted = TRUE]
  /\ UNCHANGED <<side, ledger, due, direct, asof, stops>>

\* Once, of one unit, of a sale: CreateSaleReturn leaves what the sale has paid,
CreateSaleReturn(d, s, tax) ==
  /\ Fresh(d)
  /\ s \in Sold /\ ~\E r \in Of({"sale_return"}) : doc[r].of = s
  /\ tax <= 1 /\ (doc[s].total > 1 \/ tax = 0)
  /\ doc' = [doc EXCEPT ![d] = [Row("sale_return", 1, tax, 0) EXCEPT !.of = s]]
  /\ due' = due \cup {d}
  /\ UNCHANGED <<side, ledger, direct, asof, stops>>

\* and CreateRefundInvoice, here of the whole sale, takes its own payment from it.
CreateRefundInvoice(d, s) ==
  LET back == AtLeastZero(Min({doc[s].paid, doc[s].total}))
      row  == [Row("sale", -doc[s].total, -doc[s].tax, -back) EXCEPT
                 !.cost = -doc[s].cost, !.of = s]
  IN /\ Fresh(d)
     /\ s \in Sold /\ ~\E r \in Rows : doc[r].of = s /\ doc[r].kind \in {"sale", "sale_return"}
     /\ doc' = [doc EXCEPT ![d] = row, ![s].paid = @ - back]
     /\ due' = due \cup {d}
     /\ UNCHANGED <<side, ledger, direct, asof, stops>>

\* VoidSale adds a VOID row of the negative amounts, and nothing of it is posted.
VoidSale(d, s) ==
  /\ Fresh(d)
  /\ s \in Sold
  /\ doc' = [doc EXCEPT ![d] =
       [Row("void", -doc[s].total, -doc[s].tax, 0) EXCEPT !.of = s]]
  /\ UNCHANGED <<side, ledger, due, direct, asof, stops>>

----------------------------------------------------------------------------
(* Documents of the purchases side                                         *)

CreatePurchase(d, total, tax, paid) ==
  /\ side = "purchases"
  /\ paid \in 0..total
  /\ New(d, Row("purchase", total, tax, paid))
  /\ UNCHANGED <<side, ledger, direct, asof, stops>>

CreateExpense(d, amount) ==
  /\ side = "purchases"
  /\ New(d, Row("expense", amount, 0, 0))
  /\ UNCHANGED <<side, ledger, direct, asof, stops>>

\* CreatePayment of a purchase, within what is outstanding; or of none, to a supplier.
CreatePayment(d, p, amount, banked) ==
  LET row == [Row("payment", amount, 0, IF p = NoDoc THEN 0 ELSE amount) EXCEPT
                !.of = p, !.banked = banked]
  IN /\ side = "purchases"
     /\ Fresh(d)
     /\ p # NoDoc => p \in Kept({"purchase"}) /\ amount <= doc[p].total - doc[p].paid
     /\ doc' = IF p = NoDoc THEN [doc EXCEPT ![d] = row]
               ELSE [doc EXCEPT ![d] = row, ![p].paid = @ + amount]
     /\ due' = due \cup {d}
     /\ UNCHANGED <<side, ledger, direct, asof, stops>>

\* Of one unit: the purchase keeps its total.
CreatePurchaseReturn(d, p, tax) ==
  /\ Fresh(d)
  /\ p \in Kept({"purchase"})
  /\ tax <= 1 /\ (doc[p].total > 1 \/ tax = 0)
  /\ doc' = [doc EXCEPT ![d] = [Row("purchase_return", 1, tax, 0) EXCEPT !.of = p]]
  /\ due' = due \cup {d}
  /\ UNCHANGED <<side, ledger, direct, asof, stops>>

\* An add-on of a goods receipt or a debit note changes the total of its purchase.
CreateAdjustment(d, p, signed) ==
  /\ Fresh(d)
  /\ p \in Kept({"purchase"})
  /\ doc[p].total + signed >= 0
  /\ doc' = [doc EXCEPT ![d] = [Row("adjustment", signed, 0, 0) EXCEPT !.of = p],
                        ![p].total = @ + signed, ![p].adjusted = @ + signed]
  /\ direct' = direct \cup {d}
  /\ UNCHANGED <<side, ledger, due, asof, stops>>

\* UpdatePurchase replaces the lines and adds them up, of an order without adjustments.
UpdatePurchase(p, total, tax) ==
  /\ p \in Kept({"purchase"})
  /\ ~\E a \in Of({"adjustment"}) : doc[a].of = p
  /\ <<total, tax>> # <<doc[p].total, doc[p].tax>>
  /\ doc' = [doc EXCEPT ![p].total = total, ![p].tax = tax]
  /\ UNCHANGED <<side, ledger, due, direct, asof, stops>>

DeletePurchase(p) ==
  /\ p \in Kept({"purchase"})
  /\ doc' = [doc EXCEPT ![p].deleted = TRUE]
  /\ UNCHANGED <<side, ledger, due, direct, asof, stops>>

----------------------------------------------------------------------------

SalesStep(d) ==
  \/ \E t \in Totals, x \in Taxes : \/ \E paid \in 0..t : CreateSale(d, t, x, paid)
                                    \/ CreateQuickSale(d, t, x)
  \/ MarkQuickSale(d) \/ DeleteCollection(d)
  \/ \E s \in Docs :
       \/ \E n \in Totals, banked \in BOOLEAN : CreateCollection(d, s, n, banked)
       \/ \E x \in Taxes : CreateSaleReturn(d, s, x)
       \/ CreateRefundInvoice(d, s) \/ VoidSale(d, s)

PurchasesStep(d) ==
  \/ \E t \in Totals, x \in Taxes, paid \in 0..Max(Totals) : CreatePurchase(d, t, x, paid)
  \/ \E n \in Totals : CreateExpense(d, n)
  \/ \E p \in Docs \cup {NoDoc}, n \in Totals, banked \in BOOLEAN :
       CreatePayment(d, p, n, banked)
  \/ \E p \in Docs : \/ \E x \in Taxes : CreatePurchaseReturn(d, p, x)
                     \/ \E n \in {-1, 1} : CreateAdjustment(d, p, n)
  \/ \E t \in Totals, x \in Taxes : UpdatePurchase(d, t, x)
  \/ DeletePurchase(d)

LedgerNext ==
  \E d \in Docs :
    \/ SalesStep(d) \/ PurchasesStep(d) \/ Post(d)
    \/ \E k \in 1..5 : StopPosting(d, k)
    \/ \E k \in 0..3, halvesLeft \in 0..2 : PostAdjustment(d, k, halvesLeft)

LedgerSpec == LedgerInit /\ [][LedgerNext]_ledgerVars

----------------------------------------------------------------------------
(* Properties                                                              *)

Sum(f, S) == MapThenSumSet(LAMBDA x : f[x], S)

\* What the halves of an odd number of cents may leave.
RoundingOf(d) == IF doc[d].kind = "adjustment" THEN 1 ELSE 0

\* Lines of one posting balance: debits are credits for every document that has been
\* posted whole, from amounts that did not change between its lines and, of a purchase,
\* left no less than its tax and what was paid of it; an adjustment may be off by the
\* cent that rounding its two portions makes (RecordSale to
\* RecordPurchaseCostAdjustment).
EntriesBalance ==
  \A d \in Rows :
    \/ d \in due \cup direct
    \/ ~asof[d].whole \/ asof[d].mixed
    \/ doc[d].kind = "purchase" /\ asof[d].total < Max({asof[d].paid, asof[d].tax})
    \/ Sum(ledger[d], Accounts) \in -RoundingOf(d)..RoundingOf(d)
=============================================================================
