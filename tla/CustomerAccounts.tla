-------------------------- MODULE CustomerAccounts --------------------------
(***************************************************************************)
(* What a customer owes and the points he has                              *)
(* (go_backend_rmt/internal/services/pos_service.go, sales_service.go,     *)
(* collection_service.go, loyalty_service.go).                             *)
(*                                                                         *)
(* A checkout reads the balance of points and what is outstanding outside  *)
(* its transaction, gives a discount for the points it will redeem and     *)
(* commits; the points are awarded and redeemed later, from the outbox.  A *)
(* collection reads the open invoices and then raises what is paid.        *)
(*                                                                         *)
(* Simplifications:                                                        *)
(*   - one customer, in the loyalty program from the start;                *)
(*   - a point is worth one unit of money;                                 *)
(*   - a row of the outbox is posted once at a time (FinanceOutbox has the *)
(*     walks that overlap) and a failed one is tried again at any time;    *)
(*   - a collection reads the list of invoices and each of them at once;   *)
(*   - editing a sale is in SaleEdit and SaleDocuments.                    *)
(***************************************************************************)
EXTENDS Integers, FiniteSets, FiniteSetsExt

CONSTANTS
  Sales,          \* sales, numbered in the order of their dates
  Collections,    \* rows of collections
  Requests,       \* concurrent requests
  CreditLimit,    \* credit_limit of the customer
  MinPointsReserve, MinRedemptionPoints,  \* loyalty settings
  Tiers,          \* min_points of the loyalty tiers
  TierRate,       \* points per unit of money in a tier; 1 without
  Totals,         \* totals of sales
  MaxTotal,       \* bound: their highest, and what a request asks for
  MaxLater,       \* bound: refunded sales, collections and redemptions without a sale
  NoSale, NoCollection

\* A sale with its refund invoices and its points, and a collection.
InvoiceRecord ==
  [total : Nat, paid : Nat, down : Nat, refunded : Nat, repaid : Nat, planned : Nat,
   used : Nat, redeemed : BOOLEAN, awarded : BOOLEAN, overtaken : BOOLEAN]
CollectionRecord ==
  [amount : Nat, links : [Sales -> Nat], named : BOOLEAN, deleted : BOOLEAN]

ASSUME CustomerAccountsConstants ==
  /\ IsFiniteSet(Sales) /\ Sales = 1 .. Cardinality(Sales)
  /\ IsFiniteSet(Collections)
  /\ NoSale \notin Sales /\ NoSale \notin InvoiceRecord
  /\ NoCollection \notin CollectionRecord
  /\ Totals \subseteq 1 .. MaxTotal
  /\ {CreditLimit, MinPointsReserve, MinRedemptionPoints, TierRate, MaxTotal, MaxLater} \subseteq Nat
  /\ Tiers \subseteq Nat \ {0}

VARIABLES
  sale,        \* sale[s]: the invoice, its refund invoices and its points
  collection,  \* collection[c]: its amount and what it pays of each invoice
  points,      \* points of the loyalty program
  tier,        \* the customer's tier, by its min_points; 0 for none
  job,         \* job[r]: what a request has read
  direct,      \* number of redemptions without a sale
  excused,     \* history: overlapping checkouts, a sale without a check or a refund
  overdrawn,   \* history: two redemptions have overlapped
  contended    \* history: invoices of two overlapping collections

account == <<points, tier>>
vars == <<sale, collection, account, job, direct, excused, overdrawn, contended>>

Idle == [op |-> "none"]

Init ==
  /\ sale = [s \in Sales |-> NoSale]
  /\ collection = [c \in Collections |-> NoCollection]
  /\ points = 0 /\ tier = 0
  /\ job = [r \in Requests |-> Idle]
  /\ direct = 0
  /\ excused = FALSE /\ overdrawn = FALSE /\ contended = {}

Invoices == {s \in Sales : sale[s] # NoSale}
Least(m, n) == IF m < n THEN m ELSE n

\* total - paid of an invoice, and of it with its refund invoices.
Open(s) == sale[s].total - sale[s].paid
Due(s) == Open(s) - sale[s].refunded + sale[s].repaid

\* enforceCustomerCreditLimit sums both.
Outstanding == MapThenSumSet(Due, Invoices)

Working(op) == {r \in Requests : job[r].op = op}

\* Room for one more of what may follow the sales.
Later ==
  direct + Cardinality(Working("direct") \cup Working("collect"))
    + Cardinality({c \in Collections : collection[c] # NoCollection})
    + Cardinality({s \in Invoices : sale[s].refunded > 0}) < MaxLater

End(r) == job' = [job EXCEPT ![r] = Idle]

\* A request that is refused, or fails, leaves nothing behind.
RollBack(r) ==
  /\ job[r] # Idle
  /\ End(r)
  /\ UNCHANGED <<sale, collection, account, direct, excused, overdrawn, contended>>

----------------------------------------------------------------------------
(* Sales                                                                   *)

Invoice(total, paid, planned) ==
  [total |-> total, paid |-> paid, down |-> paid, refunded |-> 0, repaid |-> 0,
   planned |-> planned, used |-> 0, redeemed |-> planned = 0, awarded |-> FALSE,
   overtaken |-> FALSE]

Redeemable == points - MinPointsReserve

\* Fault: what was redeemed already is offered again.
Fault_Usable(n) == n

\* What of n points may be used now; nothing below the minimum.
Usable(n) ==
  LET used == Least(n, Redeemable)
  IN IF used <= 0 \/ used < MinRedemptionPoints THEN 0 ELSE used

\* Fault: the new sale is compared with the limit by itself.
Fault_WithinLimit(more) == more <= CreditLimit

\* Nothing more is outstanding, or the limit covers it.
WithinLimit(more) ==
  \/ more <= 0
  \/ CreditLimit > 0 /\ Outstanding + more <= CreditLimit

\* ProcessCheckout: the discount for the points asked for, the limit for what the
\* customer leaves unpaid.
BeginCheckout(r, total, paid, wanted) ==
  LET planned == Usable(wanted)
  IN /\ job[r] = Idle
     /\ paid + wanted <= total
     /\ WithinLimit(total - planned - paid)
     /\ job' = [job EXCEPT ![r] = [op |-> "checkout",
          invoice |-> Invoice(total - planned, paid, planned)]]
     /\ excused' = (excused \/ Working("checkout") # {})
     /\ UNCHANGED <<sale, collection, account, direct, overdrawn, contended>>

\* The next row of sales.
Saved(invoice) ==
  LET s == Cardinality(Invoices) + 1
  IN s \in Sales /\ sale' = [sale EXCEPT ![s] = invoice]

\* CreateSaleWithOptions commits the sale with the rows for its points.
Checkout(r) ==
  /\ job[r].op = "checkout"
  /\ Saved(job[r].invoice)
  /\ End(r)
  /\ UNCHANGED <<collection, account, direct, excused, overdrawn, contended>>

\* CreateSale of the sales page asks for no limit.
CreateSale(total, paid) ==
  /\ paid <= total
  /\ Saved(Invoice(total, paid, 0))
  /\ excused' = (excused \/ paid < total)
  /\ UNCHANGED <<collection, account, job, direct, overdrawn, contended>>

\* CreateRefundInvoice locks the sale.  The refund invoice says what is given back
\* of what was paid, and the sale that so much less is paid.
CreateRefundInvoice(s, n) ==
  LET back == Least(n, sale[s].paid)
  IN /\ s \in Invoices
     /\ Later \/ sale[s].refunded > 0
     /\ n <= sale[s].total - sale[s].refunded   \* loadRefundableSaleLineTx, per line
     /\ sale' = [sale EXCEPT ![s].refunded = @ + n, ![s].repaid = @ + back,
                             ![s].paid = @ - back]
     /\ excused' = TRUE
     /\ UNCHANGED <<collection, account, job, direct, overdrawn, contended>>

----------------------------------------------------------------------------
(* Collections                                                             *)

Paying(links) == {s \in Sales : links[s] > 0}

\* Fault: every invoice is paid from the whole amount.
Fault_Allocation(amount) == [s \in Sales |->
  IF s \in Invoices /\ Open(s) > 0 THEN Least(Open(s), amount) ELSE 0]

\* Without named invoices the amount goes to the open ones, oldest first.
Allocation(amount) ==
  LET open == {s \in Invoices : Open(s) > 0}
      before(s) == MapThenSumSet(Open, {o \in open : o < s})
  IN [s \in Sales |->
        IF s \in open /\ before(s) < amount THEN Least(Open(s), amount - before(s)) ELSE 0]

OnAccount == [s \in Sales |-> 0]

\* A named invoice gets what the request says for it, whatever its amount.
Named(s, n) == [OnAccount EXCEPT ![s] = IF Open(s) > 0 THEN Least(Open(s), n) ELSE 0]

BeginCollection(r, c, amount, links, named) ==
  LET meanwhile == UNION {Paying(job[q].links) : q \in Working("collect")}
  IN /\ job[r] = Idle
     /\ collection[c] = NoCollection
     /\ Later
     /\ job' = [job EXCEPT ![r] =
          [op |-> "collect", row |-> c, amount |-> amount, links |-> links, named |-> named]]
     /\ contended' = contended \cup (Paying(links) \cap meanwhile)
     /\ UNCHANGED <<sale, collection, account, direct, excused, overdrawn>>

BeginAnyCollection(r, c, amount) ==
  \/ BeginCollection(r, c, amount, Allocation(amount), FALSE)
  \/ BeginCollection(r, c, amount, OnAccount, FALSE)
  \/ \E s \in Invoices : BeginCollection(r, c, amount, Named(s, MaxTotal), TRUE)

\* paid_amount is raised to the total at most, whatever it is by then.
Raised(invoice, n) == [invoice EXCEPT !.paid = Least(invoice.total, @ + n)]

\* CreateCollection: the link says what was read.
CreateCollection(r) ==
  /\ job[r].op = "collect"
  /\ collection[job[r].row] = NoCollection
  /\ sale' = [s \in Sales |->
       IF job[r].links[s] = 0 THEN sale[s] ELSE Raised(sale[s], job[r].links[s])]
  /\ collection' = [collection EXCEPT ![job[r].row] =
       [amount |-> job[r].amount, links |-> job[r].links, named |-> job[r].named,
        deleted |-> FALSE]]
  /\ End(r)
  /\ UNCHANGED <<account, direct, excused, overdrawn, contended>>

\* DeleteCollection takes its links along and leaves the invoices as paid.
DeleteCollection(c) ==
  /\ collection[c] # NoCollection
  /\ ~collection[c].deleted
  /\ collection' = [collection EXCEPT ![c].deleted = TRUE]
  /\ UNCHANGED <<sale, account, job, direct, excused, overdrawn, contended>>

----------------------------------------------------------------------------
(* Points                                                                  *)

TierOf(n) == Max({0} \cup {m \in Tiers : m <= n})

Rate == IF tier > 0 THEN TierRate ELSE 1

\* AwardPoints, once for a sale.
AwardPoints(s) ==
  /\ s \in Invoices
  /\ ~sale[s].awarded
  /\ sale' = [sale EXCEPT ![s].awarded = TRUE]
  /\ points' = points + sale[s].total * Rate
  /\ tier' = TierOf(points')
  /\ UNCHANGED <<collection, job, direct, excused, overdrawn, contended>>

\* Every redemption reads the balance before its transaction.
Redeeming == Working("sale_points") \cup Working("direct")

BeginRedemption(r, redemption) ==
  /\ job[r] = Idle
  /\ redemption.used > 0
  /\ job' = [job EXCEPT ![r] = redemption]
  /\ overdrawn' = (overdrawn \/ Redeeming # {})
  /\ UNCHANGED <<sale, collection, account, direct, excused, contended>>

\* RedeemPointsForSale, from the outbox; it is done once.
BeginSaleRedemption(r, s) ==
  /\ s \in Invoices
  /\ ~sale[s].redeemed
  /\ \A q \in Working("sale_points") : job[q].sale # s
  /\ BeginRedemption(r,
       [op |-> "sale_points", sale |-> s, used |-> Usable(sale[s].planned)])

\* RedeemPoints takes what it can; redeemGiftPoints all of it or nothing.
BeginDirectRedemption(r, n, gift) ==
  /\ Later
  /\ gift => n = Usable(n)
  /\ BeginRedemption(r, [op |-> "direct", used |-> Usable(n)])

\* Those whose discount was promised from the same points.
Overtake(but) == [s \in Sales |->
  IF s \in Invoices \ {but} /\ ~sale[s].redeemed THEN [sale[s] EXCEPT !.overtaken = TRUE]
  ELSE sale[s]]

OvertakeCheckouts(r) == [q \in Requests |->
  IF q = r THEN Idle
  ELSE IF job[q].op = "checkout" /\ job[q].invoice.planned > 0
       THEN [job[q] EXCEPT !.invoice.overtaken = TRUE] ELSE job[q]]

\* The commit does not look at the balance again; only the schema does
\* (chk_loyalty_points_positive): what would go below zero rolls back.
Redeem(r) ==
  /\ points >= job[r].used
  /\ points' = points - job[r].used
  /\ tier' = TierOf(points')
  /\ job' = OvertakeCheckouts(r)
  /\ UNCHANGED <<collection, excused, overdrawn, contended>>

RedeemPointsForSale(r) ==
  /\ job[r].op = "sale_points"
  /\ Redeem(r)
  /\ sale' = [Overtake(job[r].sale) EXCEPT ![job[r].sale].redeemed = TRUE,
                                           ![job[r].sale].used = job[r].used]
  /\ UNCHANGED direct

RedeemPoints(r) ==
  /\ job[r].op = "direct"
  /\ Redeem(r)
  /\ sale' = Overtake(NoSale)
  /\ direct' = direct + 1

----------------------------------------------------------------------------

Amounts == 1 .. MaxTotal

Next ==
  \/ \E r \in Requests :
       \/ RollBack(r) \/ Checkout(r) \/ CreateCollection(r)
       \/ RedeemPointsForSale(r) \/ RedeemPoints(r)
       \/ /\ job[r] = Idle
          /\ \/ \E s \in Sales : BeginSaleRedemption(r, s)
             \/ \E total \in Totals, paid, wanted \in 0 .. MaxTotal :
                  BeginCheckout(r, total, paid, wanted)
             \/ \E c \in Collections, n \in Amounts : BeginAnyCollection(r, c, n)
             \/ \E n \in Amounts, gift \in BOOLEAN : BeginDirectRedemption(r, n, gift)
  \/ \E s \in Sales :
       \/ AwardPoints(s)
       \/ \E n \in Amounts : CreateRefundInvoice(s, n)
  \/ \E total \in Totals, paid \in 0 .. MaxTotal : CreateSale(total, paid)
  \/ \E c \in Collections : DeleteCollection(c)

Spec == Init /\ [][Next]_vars

----------------------------------------------------------------------------

JobRecord ==
  {Idle} \cup [op : {"checkout"}, invoice : InvoiceRecord]
    \cup [op : {"collect"}, row : Collections, amount : Nat, links : [Sales -> Nat],
          named : BOOLEAN]
    \cup [op : {"sale_points"}, sale : Sales, used : Nat] \cup [op : {"direct"}, used : Nat]

TypeOK ==
  /\ sale \in [Sales -> InvoiceRecord \cup {NoSale}]
  /\ \A s \in Invoices :
       /\ sale[s].paid <= sale[s].total        \* sales_paid_amount_check
       /\ sale[s].refunded <= sale[s].total
  /\ collection \in [Collections -> CollectionRecord \cup {NoCollection}]
  /\ job \in [Requests -> JobRecord]
  /\ points \in Nat                       \* chk_loyalty_points_positive
  /\ tier \in Tiers \cup {0}
  /\ direct \in Nat
  /\ {excused, overdrawn} \subseteq BOOLEAN

\* A customer whose every unpaid sale was made at a till, one checkout at a time, and
\* who had nothing refunded owes no more than his limit: the discount for points that
\* the check subtracts is in the sale, and collecting and deleting collections never
\* raise what is outstanding (enforceCustomerCreditLimit).
LimitKept == ~excused => Outstanding <= CreditLimit

LinksTo(s) == MapThenSumSet(LAMBDA c : collection[c].links[s],
  {c \in Collections : collection[c] # NoCollection})

\* An automatic collection hands out no more than was collected, and an invoice that no
\* two collections paid at once counts as paid what it was paid at first and what the
\* collections' links say, less what its refunds gave back (CreateCollection).
CollectedOnce ==
  /\ \A c \in Collections : collection[c] # NoCollection /\ ~collection[c].named =>
       MapThenSumSet(LAMBDA s : collection[c].links[s], Sales) <= collection[c].amount
  /\ \A s \in Invoices \ contended :
       sale[s].paid = sale[s].down + LinksTo(s) - sale[s].repaid

\* The discount a sale gave for points is what its redemption takes, unless another
\* redemption came between; the reserve is still there after redemptions that did not
\* overlap; and the tier is the one of the points (ProcessCheckout, RedeemPointsForSale).
PointsPaidFor ==
  /\ \A s \in Invoices :
       sale[s].redeemed /\ ~sale[s].overtaken => sale[s].used = sale[s].planned
  /\ (direct > 0 \/ \E s \in Invoices : sale[s].used > 0) /\ ~overdrawn =>
       points >= MinPointsReserve
  /\ tier = TierOf(points)

\* Refuted: a sale that was paid and then refunded in full leaves nothing owed, as the
\* comment in CreateSaleReturn asks of its documents (returns_service.go:393).
RefundSettles == \A s \in Invoices :
  sale[s].down = sale[s].total /\ sale[s].refunded = sale[s].total => Due(s) = 0
=============================================================================
