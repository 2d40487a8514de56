-------------------------- MODULE CustomersProofs --------------------------
(***************************************************************************)
(* Theorems of a customer's account: what he owes, what he collects and    *)
(* his points, for any number of sales, collections and requests; and of   *)
(* promotions, coupons and raffles, for any terms of them.                 *)
(***************************************************************************)
EXTENDS MCCustomerAccounts, SumTheorems, Sequences, TLAPS

----------------------------------------------------------------------------
(* The inductive invariant                                                 *)

Numbered == \E n \in 0 .. Cardinality(Sales) : Invoices = 1 .. n

\* The invoice of a checkout that has not committed.
Fresh(invoice) ==
  /\ invoice.refunded = 0 /\ invoice.repaid = 0 /\ invoice.used = 0
  /\ invoice.down = invoice.paid /\ invoice.paid <= invoice.total
  /\ invoice.redeemed <=> invoice.planned = 0

RowsInv ==
  TypeOK /\ Numbered /\ \A r \in Working("checkout") : Fresh(job[r].invoice)

\* Until two checkouts overlap or an invoice is excused otherwise, the one checkout that
\* has been let through still has its room.
RoomFor(invoice, outstanding) ==
  LET more == invoice.total - invoice.paid
  IN more <= 0 \/ outstanding + more <= CreditLimit
Roomy(invoice) == RoomFor(invoice, Outstanding)

LimitInv == ~excused =>
  /\ \A s \in Invoices : sale[s].refunded = 0 /\ sale[s].repaid = 0
  /\ \A q, r \in Working("checkout") : q = r
  /\ \A r \in Working("checkout") : Roomy(job[r].invoice)
  /\ Outstanding <= CreditLimit

\* What a collection will pay of an uncontended invoice is still open and nobody else's
\* to pay; it hands out what it has.
LinksFit ==
  /\ \A r \in Working("collect") :
       /\ \A s \in Paying(job[r].links) :
            s \in Invoices /\ (s \notin contended => job[r].links[s] <= Open(s))
       /\ ~job[r].named => SumOf(job[r].links, Sales) <= job[r].amount
  /\ \A q, r \in Working("collect") : q # r =>
       Paying(job[q].links) \cap Paying(job[r].links) \subseteq contended
  /\ \A c \in Collections : collection[c] # NoCollection =>
       Paying(collection[c].links) \subseteq Invoices

\* CollectedOnce, with its sums over functions.
LinkOn(rows, s) ==
  [c \in Collections |-> IF rows[c] = NoCollection THEN 0 ELSE rows[c].links[s]]

HandsOut == \A c \in Collections : collection[c] # NoCollection /\ ~collection[c].named =>
  SumOf(collection[c].links, Sales) <= collection[c].amount
PaidFor == \A s \in Invoices \ contended :
  sale[s].paid = sale[s].down + SumOf(LinkOn(collection, s), Collections) - sale[s].repaid

LinksInv == LinksFit /\ HandsOut /\ PaidFor

\* Points that are promised are there, above the reserve, until another redemption
\* overtakes them, and one redemption at a time leaves the reserve.
PromisedFrom(n, redeemable) == n > 0 /\ n <= redeemable /\ n >= MinRedemptionPoints
Promised(n) == PromisedFrom(n, Redeemable)

PromisesFit ==
  /\ \A s \in Invoices : ~sale[s].redeemed /\ ~sale[s].overtaken => Promised(sale[s].planned)
  /\ \A r \in Working("checkout") :
       ~job[r].invoice.redeemed /\ ~job[r].invoice.overtaken => Promised(job[r].invoice.planned)
  /\ \A r \in Working("sale_points") :
       LET s == job[r].sale
       IN /\ s \in Invoices /\ ~sale[s].redeemed
          /\ ~sale[s].overtaken => job[r].used = sale[s].planned
  /\ \A q, r \in Working("sale_points") : job[q].sale = job[r].sale => q = r

ReserveFits == ~overdrawn =>
  /\ \A q, r \in Redeeming : q = r
  /\ \A r \in Redeeming : job[r].used <= Redeemable

PointsInv == PromisesFit /\ ReserveFits /\ PointsPaidFor

AccountInv == RowsInv /\ LimitInv /\ LinksInv /\ PointsInv

----------------------------------------------------------------------------
(* Values                                                                  *)

LEMMA LeastIs ==
  ASSUME NEW m \in Int, NEW n \in Int
  PROVE  /\ Least(m, n) \in Int /\ Least(m, n) <= m /\ Least(m, n) <= n
         /\ Least(m, n) = m \/ Least(m, n) = n
BY DEF Least

LEMMA SalesFinite ==
  IsFiniteSet(Sales) /\ Cardinality(Sales) \in Nat /\ Sales = 1 .. Cardinality(Sales)
BY CustomerAccountsConstants, FS_CardinalityType

LEMMA Limits ==
  /\ CreditLimit \in Nat /\ MinPointsReserve \in Nat /\ MinRedemptionPoints \in Nat
  /\ TierRate \in Nat /\ MaxTotal \in Nat /\ MaxLater \in Nat
BY CustomerAccountsConstants

LEMMA JobKinds ==
  ASSUME NEW j \in JobRecord
  PROVE  /\ j.op = "checkout" => j \in [op : {"checkout"}, invoice : InvoiceRecord]
         /\ j.op = "collect" => j \in [op : {"collect"}, row : Collections, amount : Nat,
                                       links : [Sales -> Nat], named : BOOLEAN]
         /\ j.op = "sale_points" => j \in [op : {"sale_points"}, sale : Sales, used : Nat]
         /\ j.op = "direct" => j \in [op : {"direct"}, used : Nat]
         /\ j.op \in {"none", "checkout", "collect", "sale_points", "direct"}
         /\ j.op = "none" => j = Idle
BY DEF JobRecord, Idle

LEMMA UsableIs ==
  ASSUME TypeOK, NEW n \in Nat
  PROVE  /\ Redeemable \in Int /\ Usable(n) \in Nat /\ Usable(n) <= n
         /\ Usable(n) > 0 => Promised(Usable(n))
         /\ Promised(n) => Usable(n) = n
<1>1. Redeemable \in Int
  BY Limits DEF TypeOK, Redeemable
<1>2. QED
  BY <1>1, Limits, LeastIs DEF Usable, Promised, PromisedFrom, Least

\* A finite set of numbers has a greatest.
LEMMA Greatest ==
  ASSUME NEW S, IsFiniteSet(S), S \subseteq Int, S # {}
  PROVE  Max(S) \in S /\ \A x \in S : x <= Max(S)
<1> DEFINE Good == {s \in SUBSET S : s # {} => \E x \in s : \A y \in s : y <= x}
<1>1. ASSUME NEW s \in SUBSET S, \A t \in SUBSET s : t # s => t \in Good
      PROVE  s \in Good
  <2> SUFFICES ASSUME s # {} PROVE \E x \in s : \A y \in s : y <= x
    OBVIOUS
  <2>1. PICK c \in s : TRUE
    OBVIOUS
  <2>2. s \ {c} \in Good
    BY <1>1, <2>1
  <2>3. CASE s \ {c} = {}
    BY <2>1, <2>3
  <2>4. CASE s \ {c} # {}
    <3>1. PICK x \in s \ {c} : \A y \in s \ {c} : y <= x
      BY <2>2, <2>4
    <3>2. x \in Int /\ c \in Int /\ \A y \in s : y \in Int
      BY <2>1, <3>1
    <3>3. CASE c <= x
      BY <3>1, <3>2, <3>3
    <3>4. CASE ~(c <= x)
      <4>1. \A y \in s : y <= c
        BY <3>1, <3>2, <3>4
      <4>2. QED
        BY <2>1, <4>1
    <3>5. QED
      BY <3>3, <3>4
  <2>5. QED
    BY <2>3, <2>4
<1>2. SUBSET S \subseteq Good
  <2> HIDE DEF Good
  <2> QED
    BY <1>1, SubsetInduction
<1>3. \E x \in S : \A y \in S : y <= x
  BY <1>2
<1>4. \E x \in S : \A y \in S : x >= y
  BY <1>3
<1>5. QED
  BY <1>4 DEF Max

LEMMA TierIsOne == ASSUME NEW n \in Nat PROVE TierOf(n) \in Tiers \cup {0}
<1> DEFINE S == {0} \cup {m \in Tiers : m <= n}
<1>1. S \subseteq 0 .. n
  <2>1. Tiers \subseteq Nat
    BY CustomerAccountsConstants
  <2>2. ASSUME NEW x \in S PROVE x \in 0 .. n
    BY <2>1
  <2>3. QED
    BY <2>2
<1>2. IsFiniteSet(S) /\ S # {} /\ S \subseteq Int
  <2>1. IsFiniteSet(0 .. n)
    BY FS_Interval
  <2>2. IsFiniteSet(S)
    BY <1>1, <2>1, FS_Subset
  <2>3. QED
    BY <1>1, <2>2
<1> HIDE DEF S
<1>3. Max(S) \in S
  BY <1>2, Greatest
<1>4. QED
  BY <1>3 DEF TierOf, S

----------------------------------------------------------------------------
(* Rows                                                                    *)

LEMMA RowAdded ==
  ASSUME TypeOK, Numbered, NEW invoice \in InvoiceRecord, Saved(invoice)
  PROVE  /\ \E s \in Sales \ Invoices :
               /\ sale' = [sale EXCEPT ![s] = invoice]
               /\ Invoices' = Invoices \cup {s}
         /\ Numbered'
<1>1. PICK n \in 0 .. Cardinality(Sales) : Invoices = 1 .. n
  BY DEF Numbered
<1>2. Cardinality(Invoices) = n
  BY <1>1, SalesFinite, FS_Interval
<1>3. n + 1 \in Sales /\ sale' = [sale EXCEPT ![n + 1] = invoice]
  BY <1>2 DEF Saved
<1>4. n + 1 \notin Invoices
  BY <1>1
<1>5. sale[n + 1] = NoSale /\ invoice # NoSale
  BY <1>3, <1>4, CustomerAccountsConstants DEF Invoices
<1>6. Invoices' = Invoices \cup {n + 1}
  BY <1>3, <1>5 DEF Invoices, TypeOK
<1>7. Invoices' = 1 .. n + 1 /\ n + 1 \in 0 .. Cardinality(Sales)
  BY <1>1, <1>3, <1>6, SalesFinite
<1>8. QED
  BY <1>3, <1>4, <1>6, <1>7 DEF Numbered

\* Rows that are changed stay rows.
LEMMA RowsRemain ==
  ASSUME Numbered, \A s \in Sales : sale[s] = NoSale <=> sale'[s] = NoSale
  PROVE  Invoices' = Invoices /\ Numbered'
BY DEF Invoices, Numbered

\* A new invoice is a record, and fresh.
LEMMA NewInvoice ==
  ASSUME NEW total \in Nat, NEW paid \in Nat, NEW planned \in Nat, paid <= total
  PROVE  Invoice(total, paid, planned) \in InvoiceRecord /\ Fresh(Invoice(total, paid, planned))
BY DEF Invoice, InvoiceRecord, Fresh

LEMMA AmountsAre ==
  /\ \A total \in Totals : total \in Nat
  /\ \A n \in 0 .. MaxTotal : n \in Nat
  /\ \A n \in Amounts : n \in Nat /\ n > 0
BY CustomerAccountsConstants DEF Amounts

\* A request goes on to j and the sales rest.
LEMMA JobMoves ==
  ASSUME RowsInv, UNCHANGED <<sale, points, tier>>,
         NEW r \in Requests, NEW j \in JobRecord, job' = [job EXCEPT ![r] = j],
         j.op = "checkout" => Fresh(j.invoice),
         collection' \in [Collections -> CollectionRecord \cup {NoCollection}],
         direct' \in Nat, excused' \in BOOLEAN, overdrawn' \in BOOLEAN
  PROVE  RowsInv'
<1>1. Invoices' = Invoices
  BY DEF Invoices
<1>2. Numbered'
  BY <1>1 DEF RowsInv, Numbered
<1>3. TypeOK'
  BY <1>1 DEF RowsInv, TypeOK
<1>4. \A q \in Working("checkout")' : Fresh(job'[q].invoice)
  BY DEF RowsInv, TypeOK, Working
<1>5. QED
  BY <1>2, <1>3, <1>4 DEF RowsInv

\* The sales change and the requests end, or are overtaken.
LEMMA RowsChange ==
  ASSUME RowsInv, sale' \in [Sales -> InvoiceRecord \cup {NoSale}], Numbered',
         \A s \in Invoices' : sale'[s].paid <= sale'[s].total /\ sale'[s].refunded <= sale'[s].total,
         job' \in [Requests -> JobRecord],
         \A q \in Requests : job'[q].op = "checkout" => Fresh(job'[q].invoice),
         collection' \in [Collections -> CollectionRecord \cup {NoCollection}],
         points' \in Nat, tier' \in Tiers \cup {0},
         direct' \in Nat, excused' \in BOOLEAN, overdrawn' \in BOOLEAN
  PROVE  RowsInv'
BY DEF RowsInv, TypeOK, Working

LEMMA EndOfJob ==
  ASSUME RowsInv, NEW r \in Requests, End(r)
  PROVE  /\ job' \in [Requests -> JobRecord] /\ job' = [job EXCEPT ![r] = Idle]
         /\ \A q \in Requests : job'[q].op = "checkout" => q # r /\ job'[q] = job[q]
         /\ \A q \in Requests : job'[q].op = "checkout" => Fresh(job'[q].invoice)
<1>1. Idle \in JobRecord /\ Idle.op = "none"
  BY DEF JobRecord, Idle
<1>2. job' = [job EXCEPT ![r] = Idle]
  BY DEF End
<1>3. QED
  BY <1>1, <1>2 DEF RowsInv, TypeOK, Working

LEMMA NewRowTyped ==
  ASSUME RowsInv, NEW invoice \in InvoiceRecord, Fresh(invoice), Saved(invoice),
         job' \in [Requests -> JobRecord],
         \A q \in Requests : job'[q].op = "checkout" => Fresh(job'[q].invoice),
         UNCHANGED <<collection, points, tier, direct, overdrawn>>, excused' \in BOOLEAN
  PROVE  RowsInv'
<1>1. PICK s \in Sales \ Invoices : /\ sale' = [sale EXCEPT ![s] = invoice]
                                    /\ Invoices' = Invoices \cup {s}
  BY RowAdded DEF RowsInv
<1>2. Numbered'
  BY RowAdded DEF RowsInv
<1>3. sale' \in [Sales -> InvoiceRecord \cup {NoSale}]
  BY <1>1 DEF RowsInv, TypeOK
<1>4. ASSUME NEW t \in Invoices'
      PROVE  sale'[t].paid <= sale'[t].total /\ sale'[t].refunded <= sale'[t].total
  <2>1. CASE t = s
    <3>1. sale'[t] = invoice
      BY <1>1, <2>1 DEF RowsInv, TypeOK
    <3>2. QED
      BY <3>1 DEF Fresh, InvoiceRecord
  <2>2. CASE t # s
    BY <1>1, <2>2 DEF RowsInv, TypeOK, Invoices
  <2>3. QED
    BY <2>1, <2>2
<1>5. QED
  BY <1>2, <1>3, <1>4, RowsChange DEF RowsInv, TypeOK

LEMMA CheckoutTyped ==
  ASSUME RowsInv, NEW r \in Requests, Checkout(r)
  PROVE  RowsInv'
<1>1. /\ job[r].invoice \in InvoiceRecord /\ Fresh(job[r].invoice)
  BY JobKinds DEF Checkout, RowsInv, TypeOK, Working
<1>2. /\ Saved(job[r].invoice) /\ End(r)
      /\ UNCHANGED <<collection, points, tier, direct, excused, overdrawn>>
  BY DEF Checkout, account
<1>3. excused' \in BOOLEAN
  BY <1>2 DEF RowsInv, TypeOK
<1>4. QED
  BY <1>1, <1>2, <1>3, EndOfJob, NewRowTyped

LEMMA CreateSaleTyped ==
  ASSUME RowsInv, NEW total \in Totals, NEW paid \in 0 .. MaxTotal, CreateSale(total, paid)
  PROVE  RowsInv'
<1>1. Invoice(total, paid, 0) \in InvoiceRecord /\ Fresh(Invoice(total, paid, 0))
  BY AmountsAre, NewInvoice DEF CreateSale
<1>2. /\ Saved(Invoice(total, paid, 0)) /\ job' = job
      /\ UNCHANGED <<collection, points, tier, direct, overdrawn>>
      /\ excused' \in BOOLEAN
  BY DEF CreateSale, account, RowsInv, TypeOK
<1>3. /\ job' \in [Requests -> JobRecord]
      /\ \A q \in Requests : job'[q].op = "checkout" => Fresh(job'[q].invoice)
  BY <1>2 DEF RowsInv, TypeOK, Working
<1>4. QED
  BY <1>1, <1>2, <1>3, NewRowTyped

LEMMA CheckoutPlans ==
  ASSUME RowsInv, NEW r \in Requests, NEW total \in Totals, NEW paid \in 0 .. MaxTotal,
         NEW wanted \in 0 .. MaxTotal, BeginCheckout(r, total, paid, wanted)
  PROVE  LET planned == Usable(wanted)
             invoice == Invoice(total - planned, paid, planned)
         IN /\ planned \in Nat /\ planned <= wanted /\ (planned > 0 => Promised(planned))
            /\ invoice \in InvoiceRecord /\ Fresh(invoice)
            /\ [op |-> "checkout", invoice |-> invoice] \in JobRecord
            /\ WithinLimit(total - planned - paid)
            /\ job[r] = Idle
            /\ job' = [job EXCEPT ![r] = [op |-> "checkout", invoice |-> invoice]]
            /\ excused' = (excused \/ Working("checkout") # {})
            /\ UNCHANGED <<sale, collection, points, tier, direct, overdrawn, contended>>
<1> DEFINE planned == Usable(wanted)
           invoice == Invoice(total - planned, paid, planned)
<1>1. wanted \in Nat /\ paid \in Nat /\ total \in Nat /\ paid + wanted <= total
  BY AmountsAre DEF BeginCheckout
<1>2. planned \in Nat /\ planned <= wanted /\ (planned > 0 => Promised(planned))
  BY <1>1, UsableIs DEF RowsInv
<1>3. total - planned \in Nat /\ paid <= total - planned
  <2> HIDE DEF planned
  <2> QED
    BY <1>1, <1>2
<1>4. invoice \in InvoiceRecord /\ Fresh(invoice)
  <2> HIDE DEF planned
  <2> QED
    BY <1>1, <1>2, <1>3, NewInvoice
<1>5. [op |-> "checkout", invoice |-> invoice] \in JobRecord
  <2> HIDE DEF invoice
  <2> QED
    BY <1>4 DEF JobRecord
<1>6. QED
  BY <1>2, <1>4, <1>5 DEF BeginCheckout, account

LEMMA BeginCheckoutTyped ==
  ASSUME RowsInv, NEW r \in Requests, NEW total \in Totals, NEW paid \in 0 .. MaxTotal,
         NEW wanted \in 0 .. MaxTotal, BeginCheckout(r, total, paid, wanted)
  PROVE  RowsInv'
<1> DEFINE invoice == Invoice(total - Usable(wanted), paid, Usable(wanted))
           j == [op |-> "checkout", invoice |-> invoice]
<1>1. /\ Fresh(invoice) /\ j \in JobRecord /\ job' = [job EXCEPT ![r] = j]
      /\ excused' = (excused \/ Working("checkout") # {})
      /\ UNCHANGED <<sale, collection, points, tier, direct, overdrawn, contended>>
  BY CheckoutPlans
<1>2. j.invoice = invoice
  OBVIOUS
<1> HIDE DEF j, invoice
<1>3. QED
  BY <1>1, <1>2, JobMoves DEF RowsInv, TypeOK

----------------------------------------------------------------------------
(* What collections pay                                                    *)

LEMMA OpenSum ==
  ASSUME NEW W, IsFiniteSet(W), NEW f, \A s \in W : f[s] = Open(s)
  PROVE  MapThenSumSet(Open, W) = SumOf(f, W)
<1> DEFINE Step(g, S) == IF S = {} THEN 0
             ELSE sale[CHOOSE s \in S : TRUE].total - sale[CHOOSE s \in S : TRUE].paid
                    + g[S \ {CHOOSE s \in S : TRUE}]
           sum == MapThenSumSet(Open, W)
<1>1. PICK g : Adds(g, f, W)
  BY AddsExists
<1>2. g = [S \in SUBSET W |-> Step(g, S)]
  BY <1>1, OneLess DEF Adds, Open, Chosen
<1>3. PICK h : h = [S \in SUBSET W |-> Step(h, S)] /\ sum = h[W]
  BY <1>2 DEF MapThenSumSet, MapThenFoldSet, Open
<1> HIDE DEF sum
<1>4. Adds(h, f, W)
  <2>1. ASSUME NEW S \in SUBSET W
        PROVE  h[S] = IF S = {} THEN 0 ELSE f[Chosen(S)] + h[S \ {Chosen(S)}]
    <3>1. h[S] = Step(h, S)
      BY <1>3
    <3>2. S # {} => f[Chosen(S)] = Open(Chosen(S))
      BY OneLess
    <3>3. QED
      BY <3>1, <3>2 DEF Open, Chosen
  <2>2. h = [S \in SUBSET W |-> h[S]]
    BY <1>3
  <2>3. QED
    BY <2>1, <2>2 DEF Adds
<1>5. sum = SumOf(f, W)
  BY <1>3, <1>4, SumIs
<1>6. QED
  BY <1>5 DEF sum

\* What may be paid of the invoices by a collection of an amount.
Payable(links, amount, named) ==
  /\ links \in [Sales -> Nat]
  /\ \A s \in Paying(links) : s \in Invoices /\ links[s] <= Open(s)
  /\ ~named => SumOf(links, Sales) <= amount

OpenRows == {s \in Invoices : Open(s) > 0}

LEMMA OpenIs ==
  ASSUME TypeOK
  PROVE  /\ \A s \in Invoices : Open(s) \in Nat /\ sale[s] \in InvoiceRecord
         /\ OpenRows \subseteq Sales /\ IsFiniteSet(OpenRows)
         /\ \A s \in OpenRows : Open(s) \in Nat /\ Open(s) > 0
<1>1. \A s \in Invoices : sale[s] \in InvoiceRecord
  BY DEF TypeOK, Invoices
<1>2. \A s \in Invoices : Open(s) \in Nat
  BY <1>1 DEF TypeOK, Open, InvoiceRecord
<1>3. OpenRows \subseteq Sales
  BY DEF OpenRows, Invoices
<1>4. QED
  BY <1>1, <1>2, <1>3, SalesFinite, FS_Subset DEF OpenRows

OpenUpto(n) == {o \in OpenRows : o <= n}

LEMMA OpenGrows ==
  ASSUME TypeOK
  PROVE  /\ OpenUpto(0) = {}
         /\ \A s \in Sales :
              /\ s \in Nat /\ s - 1 \in Nat
              /\ {o \in OpenRows : o < s} = OpenUpto(s - 1)
              /\ s \in OpenRows => OpenUpto(s) = OpenUpto(s - 1) \cup {s}
              /\ s \notin OpenUpto(s - 1)
              /\ s \notin OpenRows => OpenUpto(s) = OpenUpto(s - 1)
<1>1. \A o \in OpenRows : o \in Nat /\ o > 0
  BY OpenIs, SalesFinite
<1>2. OpenUpto(0) = {}
  BY <1>1 DEF OpenUpto
<1>3. ASSUME NEW s \in Sales
      PROVE  /\ s \in Nat /\ s - 1 \in Nat
             /\ {o \in OpenRows : o < s} = OpenUpto(s - 1)
             /\ s \in OpenRows => OpenUpto(s) = OpenUpto(s - 1) \cup {s}
             /\ s \notin OpenUpto(s - 1)
             /\ s \notin OpenRows => OpenUpto(s) = OpenUpto(s - 1)
  <2>1. s \in Nat /\ s - 1 \in Nat
    BY SalesFinite
  <2>2. \A o \in OpenRows : (o < s <=> o <= s - 1) /\ (o <= s <=> o <= s - 1 \/ o = s)
    BY <1>1, <2>1
  <2>3. {o \in OpenRows : o < s} = OpenUpto(s - 1)
    BY <2>2, Zenon DEF OpenUpto
  <2>4. s \in OpenRows => OpenUpto(s) = OpenUpto(s - 1) \cup {s}
    BY <2>2, Zenon DEF OpenUpto
  <2>5. s \notin OpenUpto(s - 1)
    BY <2>1 DEF OpenUpto
  <2>6. s \notin OpenRows => OpenUpto(s) = OpenUpto(s - 1)
    BY <2>2, Zenon DEF OpenUpto
  <2>7. QED
    BY <2>1, <2>3, <2>4, <2>5, <2>6
<1>4. QED
  BY <1>2, <1>3

LEMMA OpenFinite ==
  ASSUME TypeOK, NEW n
  PROVE  OpenUpto(n) \subseteq OpenRows /\ OpenUpto(n) \subseteq Sales /\ IsFiniteSet(OpenUpto(n))
<1>1. OpenUpto(n) \subseteq OpenRows
  BY DEF OpenUpto
<1>2. QED
  BY <1>1, OpenIs, FS_Subset

\* The oldest invoices first, as far as the amount goes, hand out the lesser of the
\* amount and of what is open.
LEMMA AllocationFits ==
  ASSUME TypeOK, NEW amount \in Nat
  PROVE  Payable(Allocation(amount), amount, FALSE)
<1> DEFINE f == [s \in Sales |-> IF s \in OpenRows THEN Open(s) ELSE 0]
           A == Allocation(amount)
           B(n) == SumOf(f, OpenUpto(n))
           C(n) == SumOf(A, 1 .. n)
           Good == {W \in SUBSET Sales : \A n \in 0 .. Cardinality(Sales) :
                      W = 1 .. n => C(n) = Least(amount, B(n))}
<1>1. f \in [Sales -> Nat] /\ \A s \in OpenRows : f[s] = Open(s)
  BY OpenIs
<1>2. ASSUME NEW n PROVE B(n) \in Nat
  <2> HIDE DEF f
  <2>1. \A s \in OpenUpto(n) : f[s] \in Nat
    BY <1>1, OpenFinite
  <2>2. QED
    BY <2>1, OpenFinite, SumNat
<1>3. A = [s \in Sales |-> IF s \in OpenRows /\ B(s - 1) < amount
                           THEN Least(Open(s), amount - B(s - 1)) ELSE 0]
  <2>1. ASSUME NEW s \in Sales
        PROVE  MapThenSumSet(Open, {o \in OpenRows : o < s}) = B(s - 1)
    <3>1. \A o \in OpenUpto(s - 1) : f[o] = Open(o)
      BY <1>1, OpenFinite
    <3> HIDE DEF f
    <3>2. MapThenSumSet(Open, OpenUpto(s - 1)) = SumOf(f, OpenUpto(s - 1))
      BY <3>1, OpenFinite, OpenSum
    <3>3. QED
      BY <3>2, OpenGrows
  <2> HIDE DEF B
  <2>2. QED
    BY <2>1 DEF Allocation, OpenRows
<1> HIDE DEF f, A, B
<1>4. ASSUME NEW s \in Sales
      PROVE  /\ A[s] \in Nat /\ (A[s] > 0 => s \in OpenRows /\ A[s] <= Open(s))
             /\ s \in OpenRows /\ B(s - 1) < amount => A[s] = Least(Open(s), amount - B(s - 1))
             /\ ~(s \in OpenRows /\ B(s - 1) < amount) => A[s] = 0
  <2>1. B(s - 1) \in Nat
    BY <1>2
  <2>2. QED
    BY <1>3, <2>1, OpenIs DEF Least
<1> HIDE DEF C
<1>5. C(0) = 0 /\ B(0) = 0
  <2>1. 1 .. 0 = {}
    OBVIOUS
  <2>2. QED
    BY <2>1, SumOfNone, OpenGrows DEF B, C
<1>6. ASSUME NEW n \in Sales, C(n - 1) = Least(amount, B(n - 1))
      PROVE  C(n) = Least(amount, B(n))
  <2>1. n \in Nat /\ n - 1 \in Nat /\ B(n - 1) \in Nat
    BY <1>2, OpenGrows
  <2>2. C(n) = C(n - 1) + A[n]
    <3>1. /\ 1 .. n = (1 .. n - 1) \cup {n} /\ n \notin 1 .. n - 1
          /\ 1 .. n - 1 \subseteq Sales
      BY <2>1, SalesFinite
    <3>2. IsFiniteSet(1 .. n - 1)
      BY <2>1, FS_Interval
    <3>3. \A s \in Sales : A[s] \in Int
      BY <1>4
    <3>4. \A s \in (1 .. n - 1) \cup {n} : A[s] \in Int
      BY <3>1, <3>3
    <3>5. SumOf(A, (1 .. n - 1) \cup {n}) = SumOf(A, 1 .. n - 1) + A[n]
      BY <3>1, <3>2, <3>4, SumAdd
    <3>6. QED
      BY <3>1, <3>5 DEF C
  <2>3. CASE n \in OpenRows
    <3>1. B(n) = B(n - 1) + Open(n)
      <4>1. OpenUpto(n) = OpenUpto(n - 1) \cup {n} /\ n \notin OpenUpto(n - 1)
        BY <2>3, OpenGrows
      <4>2. \A s \in OpenUpto(n - 1) \cup {n} : f[s] \in Int
        BY <1>1, OpenFinite
      <4>3. SumOf(f, OpenUpto(n - 1) \cup {n}) = SumOf(f, OpenUpto(n - 1)) + f[n]
        BY <4>1, <4>2, OpenFinite, SumAdd
      <4>4. QED
        BY <1>1, <2>3, <4>1, <4>3 DEF B
    <3>2. Open(n) \in Nat
      BY <2>3, OpenIs
    <3>3. /\ B(n - 1) < amount => A[n] = Least(Open(n), amount - B(n - 1))
          /\ ~(B(n - 1) < amount) => A[n] = 0
      BY <1>4, <2>3
    <3>4. QED
      BY <1>6, <2>1, <2>2, <3>1, <3>2, <3>3 DEF Least
  <2>4. CASE n \notin OpenRows
    <3>1. B(n) = B(n - 1)
      BY <2>4, OpenGrows DEF B
    <3>2. A[n] = 0
      BY <1>4, <2>4
    <3>3. QED
      BY <1>6, <2>1, <2>2, <3>1, <3>2 DEF Least
  <2>5. QED
    BY <2>3, <2>4
<1>7. ASSUME NEW W \in SUBSET Sales, \A V \in SUBSET W : V # W => V \in Good
      PROVE  W \in Good
  <2> SUFFICES ASSUME NEW n \in 0 .. Cardinality(Sales), W = 1 .. n
               PROVE  C(n) = Least(amount, B(n))
    OBVIOUS
  <2>1. CASE n = 0
    BY <1>5, <2>1 DEF Least
  <2>2. CASE n # 0
    <3>1. n \in Sales /\ n - 1 \in 0 .. Cardinality(Sales) /\ n \in Nat
      BY <2>2, SalesFinite
    <3>2. 1 .. n - 1 \in SUBSET W /\ 1 .. n - 1 # W
      BY <2>2, <3>1
    <3>3. C(n - 1) = Least(amount, B(n - 1))
      BY <1>7, <3>1, <3>2
    <3>4. QED
      BY <1>6, <3>1, <3>3
  <2>3. QED
    BY <2>1, <2>2
<1>8. Sales \in Good
  <2> HIDE DEF Good
  <2> QED
    BY <1>7, SalesFinite, SubsetInduction
<1>9. SumOf(A, Sales) <= amount
  <2>1. C(Cardinality(Sales)) = Least(amount, B(Cardinality(Sales)))
    BY <1>8, SalesFinite
  <2>2. B(Cardinality(Sales)) \in Nat
    BY <1>2
  <2>3. SumOf(A, Sales) = C(Cardinality(Sales))
    BY SalesFinite DEF C
  <2>4. QED
    BY <2>1, <2>2, <2>3, LeastIs
<1>10. A \in [Sales -> Nat]
  <2>1. A = [s \in Sales |-> A[s]]
    BY <1>3
  <2>2. QED
    BY <1>4, <2>1
<1>11. \A s \in Paying(A) : s \in Invoices /\ A[s] <= Open(s)
  BY <1>4 DEF Paying, OpenRows
<1>12. QED
  BY <1>9, <1>10, <1>11 DEF Payable, A

LEMMA OnAccountFits == ASSUME NEW amount \in Nat PROVE Payable(OnAccount, amount, FALSE)
<1>1. \A s \in Sales : OnAccount[s] = 0
  BY DEF OnAccount
<1>2. SumOf(OnAccount, Sales) = 0
  BY <1>1, SalesFinite, SumOfZeros
<1>3. QED
  BY <1>1, <1>2 DEF Payable, Paying, OnAccount

LEMMA NamedFits ==
  ASSUME TypeOK, NEW s \in Invoices, NEW amount \in Nat
  PROVE  Payable(Named(s, MaxTotal), amount, TRUE)
<1>1. Open(s) \in Nat /\ s \in Sales
  BY OpenIs DEF Invoices
<1> DEFINE n == IF Open(s) > 0 THEN Least(Open(s), MaxTotal) ELSE 0
<1>2. n \in Nat /\ n <= Open(s)
  BY <1>1, Limits DEF Least
<1>3. Named(s, MaxTotal) = [OnAccount EXCEPT ![s] = n]
  BY DEF Named
<1> HIDE DEF n
<1>4. Named(s, MaxTotal) \in [Sales -> Nat]
  BY <1>1, <1>2, <1>3 DEF OnAccount
<1>5. \A t \in Paying(Named(s, MaxTotal)) : t = s /\ Named(s, MaxTotal)[t] = n
  BY <1>1, <1>3 DEF Paying, OnAccount
<1>6. QED
  BY <1>2, <1>4, <1>5 DEF Payable

LEMMA CollectionBegins ==
  ASSUME TypeOK, NEW r \in Requests, NEW c \in Collections, NEW amount \in Amounts,
         BeginAnyCollection(r, c, amount)
  PROVE  \E links : \E named \in BOOLEAN :
           Payable(links, amount, named) /\ BeginCollection(r, c, amount, links, named)
<1>1. amount \in Nat
  BY AmountsAre
<1>2. CASE BeginCollection(r, c, amount, Allocation(amount), FALSE)
  BY <1>1, <1>2, AllocationFits
<1>3. CASE BeginCollection(r, c, amount, OnAccount, FALSE)
  BY <1>1, <1>3, OnAccountFits
<1>4. ASSUME NEW s \in Invoices, BeginCollection(r, c, amount, Named(s, MaxTotal), TRUE)
      PROVE  \E links : \E named \in BOOLEAN :
               Payable(links, amount, named) /\ BeginCollection(r, c, amount, links, named)
  <2>1. Payable(Named(s, MaxTotal), amount, TRUE)
    BY <1>1, NamedFits
  <2>2. QED
    BY <1>4, <2>1
<1>5. QED
  BY <1>2, <1>3, <1>4 DEF BeginAnyCollection

LEMMA BeginCollectionTyped ==
  ASSUME RowsInv, NEW r \in Requests, NEW c \in Collections, NEW amount \in Amounts,
         BeginAnyCollection(r, c, amount)
  PROVE  RowsInv'
<1>1. PICK links : \E named \in BOOLEAN :
        Payable(links, amount, named) /\ BeginCollection(r, c, amount, links, named)
  BY CollectionBegins DEF RowsInv
<1>2. PICK named \in BOOLEAN :
        Payable(links, amount, named) /\ BeginCollection(r, c, amount, links, named)
  BY <1>1
<1> DEFINE j == [op |-> "collect", row |-> c, amount |-> amount, links |-> links,
                 named |-> named]
<1>3. j \in JobRecord /\ j.op = "collect"
  BY <1>2, AmountsAre DEF Payable, JobRecord
<1>4. /\ job' = [job EXCEPT ![r] = j]
      /\ UNCHANGED <<sale, collection, points, tier, direct, excused, overdrawn>>
  BY <1>2 DEF BeginCollection, account
<1> HIDE DEF j
<1>5. QED
  BY <1>3, <1>4, JobMoves DEF RowsInv, TypeOK

LEMMA RollBackTyped ==
  ASSUME RowsInv, NEW r \in Requests, RollBack(r)
  PROVE  RowsInv'
<1>1. Idle \in JobRecord /\ Idle.op # "checkout"
  BY DEF JobRecord, Idle
<1>2. QED
  BY <1>1, JobMoves DEF RollBack, End, account, RowsInv, TypeOK

LEMMA BeginRedemptionTyped ==
  ASSUME RowsInv, NEW r \in Requests, NEW j \in JobRecord,
         j.op \in {"sale_points", "direct"}, BeginRedemption(r, j)
  PROVE  RowsInv'
BY JobMoves DEF BeginRedemption, account, RowsInv, TypeOK

LEMMA SaleRedemptionBegins ==
  ASSUME RowsInv, NEW r \in Requests, NEW s \in Sales, BeginSaleRedemption(r, s)
  PROVE  /\ s \in Invoices /\ sale[s].planned \in Nat /\ Usable(sale[s].planned) \in Nat
         /\ [op |-> "sale_points", sale |-> s, used |-> Usable(sale[s].planned)] \in JobRecord
<1>1. s \in Invoices /\ sale[s].planned \in Nat
  BY DEF BeginSaleRedemption, RowsInv, TypeOK, Invoices, InvoiceRecord
<1>2. Usable(sale[s].planned) \in Nat
  BY <1>1, UsableIs DEF RowsInv
<1>3. QED
  BY <1>1, <1>2 DEF JobRecord

LEMMA DirectRedemptionBegins ==
  ASSUME RowsInv, NEW n \in Amounts
  PROVE  Usable(n) \in Nat /\ [op |-> "direct", used |-> Usable(n)] \in JobRecord
<1>1. Usable(n) \in Nat
  BY AmountsAre, UsableIs DEF RowsInv
<1>2. QED
  BY <1>1 DEF JobRecord

LEMMA BeginRedemptionsTyped ==
  ASSUME RowsInv, NEW r \in Requests
  PROVE  /\ \A s \in Sales : BeginSaleRedemption(r, s) => RowsInv'
         /\ \A n \in Amounts, gift \in BOOLEAN : BeginDirectRedemption(r, n, gift) => RowsInv'
<1>1. ASSUME NEW s \in Sales, BeginSaleRedemption(r, s)
      PROVE  RowsInv'
  <2> DEFINE j == [op |-> "sale_points", sale |-> s, used |-> Usable(sale[s].planned)]
  <2>1. j \in JobRecord /\ BeginRedemption(r, j) /\ j.op = "sale_points"
    BY <1>1, SaleRedemptionBegins DEF BeginSaleRedemption
  <2> HIDE DEF j
  <2>2. QED
    BY <2>1, BeginRedemptionTyped
<1>2. ASSUME NEW n \in Amounts, NEW gift \in BOOLEAN, BeginDirectRedemption(r, n, gift)
      PROVE  RowsInv'
  <2> DEFINE j == [op |-> "direct", used |-> Usable(n)]
  <2>1. j \in JobRecord /\ BeginRedemption(r, j) /\ j.op = "direct"
    BY <1>2, DirectRedemptionBegins DEF BeginDirectRedemption
  <2> HIDE DEF j
  <2>2. QED
    BY <2>1, BeginRedemptionTyped
<1>3. QED
  BY <1>1, <1>2

\* A row is written by a collection, a refund, an award or a redemption.
LEMMA RaisedIs ==
  ASSUME NEW invoice \in InvoiceRecord, invoice.paid <= invoice.total, NEW n \in Nat
  PROVE  /\ Raised(invoice, n) \in InvoiceRecord
         /\ Raised(invoice, n) = [invoice EXCEPT !.paid = Least(invoice.total, invoice.paid + n)]
         /\ invoice.paid <= Raised(invoice, n).paid
         /\ Raised(invoice, n).paid <= Raised(invoice, n).total
<1>1. /\ invoice.total \in Nat /\ invoice.paid \in Nat
      /\ Raised(invoice, n) = [invoice EXCEPT !.paid = Least(invoice.total, invoice.paid + n)]
  BY DEF Raised, InvoiceRecord
<1>2. Least(invoice.total, invoice.paid + n) \in Nat /\
      Least(invoice.total, invoice.paid + n) <= invoice.total /\
      Least(invoice.total, invoice.paid + n) >= invoice.paid
  BY <1>1 DEF Least
<1>3. QED
  BY <1>1, <1>2 DEF InvoiceRecord

LEMMA CollectionCommits ==
  ASSUME RowsInv, NEW r \in Requests, CreateCollection(r)
  PROVE  /\ job[r] \in [op : {"collect"}, row : Collections, amount : Nat,
                        links : [Sales -> Nat], named : BOOLEAN]
         /\ r \in Working("collect")
         /\ collection[job[r].row] = NoCollection
         /\ sale' = [s \in Sales |-> IF job[r].links[s] = 0 THEN sale[s]
                                     ELSE Raised(sale[s], job[r].links[s])]
         /\ collection' = [collection EXCEPT ![job[r].row] =
              [amount |-> job[r].amount, links |-> job[r].links, named |-> job[r].named,
               deleted |-> FALSE]]
         /\ End(r)
         /\ UNCHANGED <<points, tier, direct, excused, overdrawn, contended>>
BY JobKinds DEF CreateCollection, account, RowsInv, TypeOK, Working

LEMMA CollectionWrites ==
  ASSUME RowsInv, LinksFit, NEW r \in Requests, CreateCollection(r), NEW s \in Sales
  PROVE  /\ s \notin Invoices => job[r].links[s] = 0 /\ sale'[s] = NoSale
         /\ s \in Invoices => /\ sale'[s] \in InvoiceRecord
                              /\ sale'[s] = [sale[s] EXCEPT !.paid = sale'[s].paid]
                              /\ sale[s].paid <= sale'[s].paid /\ sale'[s].paid <= sale[s].total
                              /\ sale'[s].paid = Least(sale[s].total, sale[s].paid + job[r].links[s])
<1>1. /\ r \in Working("collect") /\ job[r].links[s] \in Nat
      /\ sale'[s] = IF job[r].links[s] = 0 THEN sale[s] ELSE Raised(sale[s], job[r].links[s])
  BY CollectionCommits
<1>2. job[r].links[s] > 0 => s \in Invoices
  BY <1>1 DEF LinksFit, Paying
<1>3. CASE s \notin Invoices
  BY <1>1, <1>2, <1>3 DEF Invoices
<1>4. CASE s \in Invoices
  <2>1. sale[s] \in InvoiceRecord /\ sale[s].paid <= sale[s].total
    BY <1>4, OpenIs DEF RowsInv, TypeOK
  <2>2. CASE job[r].links[s] = 0
    BY <1>1, <1>4, <2>1, <2>2 DEF InvoiceRecord, Least
  <2>3. CASE job[r].links[s] # 0
    <3>1. sale'[s] = [sale[s] EXCEPT !.paid = Least(sale[s].total, sale[s].paid + job[r].links[s])]
      BY <1>1, <2>1, <2>3, RaisedIs
    <3>2. sale'[s] \in InvoiceRecord /\ sale[s].paid <= sale'[s].paid
          /\ sale'[s].paid <= sale'[s].total
      BY <1>1, <2>1, <2>3, RaisedIs
    <3>3. sale'[s].paid = Least(sale[s].total, sale[s].paid + job[r].links[s])
          /\ sale'[s].total = sale[s].total
      BY <2>1, <3>1 DEF InvoiceRecord
    <3>4. QED
      BY <1>4, <3>1, <3>2, <3>3
  <2>4. QED
    BY <2>2, <2>3
<1>5. QED
  BY <1>3, <1>4

LEMMA CreateCollectionTyped ==
  ASSUME RowsInv, LinksFit, NEW r \in Requests, CreateCollection(r)
  PROVE  RowsInv' /\ Invoices' = Invoices
<1>1. \A s \in Sales : /\ sale'[s] \in InvoiceRecord \cup {NoSale}
                       /\ (sale'[s] = NoSale <=> sale[s] = NoSale)
  BY CollectionWrites, CustomerAccountsConstants DEF Invoices
<1>2. sale' \in [Sales -> InvoiceRecord \cup {NoSale}]
  BY <1>1, CollectionCommits
<1>3. Invoices' = Invoices /\ Numbered'
  BY <1>1, RowsRemain DEF RowsInv
<1>4. ASSUME NEW s \in Invoices'
      PROVE  sale'[s].paid <= sale'[s].total /\ sale'[s].refunded <= sale'[s].total
  <2>1. s \in Sales /\ s \in Invoices
    BY <1>3 DEF Invoices
  <2>2. /\ sale'[s] = [sale[s] EXCEPT !.paid = sale'[s].paid]
        /\ sale'[s].paid <= sale[s].total /\ sale[s] \in InvoiceRecord
        /\ sale[s].refunded <= sale[s].total
    BY <2>1, CollectionWrites, OpenIs DEF RowsInv, TypeOK
  <2>3. sale'[s].total = sale[s].total /\ sale'[s].refunded = sale[s].refunded
    BY <2>2 DEF InvoiceRecord
  <2>4. QED
    BY <2>2, <2>3
<1>5. collection' \in [Collections -> CollectionRecord \cup {NoCollection}]
  <2> DEFINE row == [amount |-> job[r].amount, links |-> job[r].links,
                     named |-> job[r].named, deleted |-> FALSE]
  <2>1. collection' = [collection EXCEPT ![job[r].row] = row]
    BY CollectionCommits
  <2>2. row \in CollectionRecord
    BY CollectionCommits DEF CollectionRecord
  <2> HIDE DEF row
  <2>3. QED
    BY <2>1, <2>2 DEF RowsInv, TypeOK
<1>6. QED
  BY <1>2, <1>3, <1>4, <1>5, EndOfJob, CollectionCommits, RowsChange DEF RowsInv, TypeOK

LEMMA DeleteCollectionTyped ==
  ASSUME RowsInv, NEW c \in Collections, DeleteCollection(c)
  PROVE  RowsInv'
<1>1. collection[c] \in CollectionRecord
  BY DEF DeleteCollection, RowsInv, TypeOK
<1>2. collection' \in [Collections -> CollectionRecord \cup {NoCollection}]
  BY <1>1 DEF DeleteCollection, RowsInv, TypeOK, CollectionRecord
<1>3. UNCHANGED <<sale, points, tier, direct, excused, overdrawn, contended, job>>
  BY DEF DeleteCollection, account
<1>4. Invoices' = Invoices /\ Numbered'
  BY <1>3, RowsRemain DEF RowsInv
<1>5. QED
  BY <1>2, <1>3, <1>4, RowsChange DEF RowsInv, TypeOK, Working

LEMMA RowRewritten ==
  ASSUME RowsInv, NEW s \in Invoices, NEW row \in InvoiceRecord,
         sale' = [sale EXCEPT ![s] = row],
         row.paid <= row.total, row.refunded <= row.total
  PROVE  /\ sale' \in [Sales -> InvoiceRecord \cup {NoSale}] /\ Invoices' = Invoices /\ Numbered'
         /\ \A t \in Invoices' : sale'[t].paid <= sale'[t].total /\ sale'[t].refunded <= sale'[t].total
         /\ sale'[s] = row /\ \A t \in Invoices \ {s} : sale'[t] = sale[t]
<1>1. s \in Sales /\ sale[s] # NoSale /\ row # NoSale
  BY CustomerAccountsConstants DEF Invoices
<1>2. sale' \in [Sales -> InvoiceRecord \cup {NoSale}]
  BY <1>1 DEF RowsInv, TypeOK
<1>3. sale'[s] = row /\ \A t \in Sales \ {s} : sale'[t] = sale[t]
  BY <1>1 DEF RowsInv, TypeOK
<1>4. \A t \in Sales : sale[t] = NoSale <=> sale'[t] = NoSale
  BY <1>1, <1>3
<1>5. Invoices' = Invoices /\ Numbered'
  BY <1>4, RowsRemain DEF RowsInv
<1>6. \A t \in Invoices : t \in Sales
  BY DEF Invoices
<1>7. QED
  BY <1>2, <1>3, <1>5, <1>6 DEF RowsInv, TypeOK

Refunding(old, a, b, c) == [old EXCEPT !.refunded = a, !.repaid = b, !.paid = c]

LEMMA RefundWrites ==
  ASSUME RowsInv, NEW s \in Sales, NEW n \in Amounts, CreateRefundInvoice(s, n)
  PROVE  LET back == Least(n, sale[s].paid)
             row == [sale[s] EXCEPT !.refunded = @ + n, !.repaid = @ + back, !.paid = @ - back]
         IN /\ s \in Invoices /\ back \in Nat /\ row \in InvoiceRecord
            /\ row.paid = sale[s].paid - back /\ row.repaid = sale[s].repaid + back
            /\ row.down = sale[s].down /\ row.total = sale[s].total
            /\ row.planned = sale[s].planned /\ row.used = sale[s].used
            /\ row.redeemed = sale[s].redeemed /\ row.overtaken = sale[s].overtaken
            /\ row.paid <= row.total /\ row.refunded <= row.total
            /\ sale' = [sale EXCEPT ![s] = row]
            /\ excused' = TRUE
            /\ UNCHANGED <<collection, points, tier, job, direct, overdrawn, contended>>
<1> DEFINE back == Least(n, sale[s].paid)
           row == [sale[s] EXCEPT !.refunded = @ + n, !.repaid = @ + back, !.paid = @ - back]
<1>1. /\ s \in Invoices /\ n \in Nat /\ sale[s] \in InvoiceRecord
      /\ sale[s].paid <= sale[s].total /\ n <= sale[s].total - sale[s].refunded
  BY AmountsAre, OpenIs DEF CreateRefundInvoice, RowsInv, TypeOK
<1>2. /\ sale' = [sale EXCEPT ![s] = row] /\ excused' = TRUE
      /\ UNCHANGED <<collection, points, tier, job, direct, overdrawn, contended>>
  BY DEF CreateRefundInvoice, account
<1>3. /\ sale[s].paid \in Nat /\ sale[s].total \in Nat /\ sale[s].refunded \in Nat
      /\ sale[s].repaid \in Nat
  BY <1>1 DEF InvoiceRecord
<1>4. back \in Nat /\ back <= sale[s].paid
  BY <1>1, <1>3 DEF Least
<1> HIDE DEF back
<1>5. /\ sale[s].refunded + n \in Nat /\ sale[s].repaid + back \in Nat
      /\ sale[s].paid - back \in Nat
  BY <1>1, <1>3, <1>4
<1>6. /\ row \in InvoiceRecord
      /\ row.paid = sale[s].paid - back /\ row.repaid = sale[s].repaid + back
      /\ row.refunded = sale[s].refunded + n
      /\ row.down = sale[s].down /\ row.total = sale[s].total
      /\ row.planned = sale[s].planned /\ row.used = sale[s].used
      /\ row.redeemed = sale[s].redeemed /\ row.overtaken = sale[s].overtaken
  <2>1. row = Refunding(sale[s], sale[s].refunded + n, sale[s].repaid + back,
                        sale[s].paid - back)
    BY DEF Refunding
  <2> DEFINE a == sale[s].refunded + n
             b == sale[s].repaid + back
             c == sale[s].paid - back
  <2>2. row = Refunding(sale[s], a, b, c)
    BY <2>1
  <2>3. a \in Nat /\ b \in Nat /\ c \in Nat
    BY <1>5
  <2> HIDE DEF row, a, b, c
  <2>4. /\ row \in InvoiceRecord /\ row.paid = c /\ row.repaid = b /\ row.refunded = a
        /\ row.down = sale[s].down /\ row.total = sale[s].total
        /\ row.planned = sale[s].planned /\ row.used = sale[s].used
        /\ row.redeemed = sale[s].redeemed /\ row.overtaken = sale[s].overtaken
    <3>1. sale[s] \in InvoiceRecord
      BY <1>1
    <3> DEFINE old == sale[s]
    <3> HIDE DEF old
    <3>2. old \in InvoiceRecord /\ row = Refunding(old, a, b, c)
      BY <2>2, <3>1 DEF old
    <3>3. /\ row \in InvoiceRecord /\ row.paid = c /\ row.repaid = b /\ row.refunded = a
          /\ row.down = old.down /\ row.total = old.total
          /\ row.planned = old.planned /\ row.used = old.used
          /\ row.redeemed = old.redeemed /\ row.overtaken = old.overtaken
      BY <2>3, <3>2 DEF Refunding, InvoiceRecord
    <3>4. QED
      BY <3>3 DEF old
  <2>5. QED
    BY <2>4 DEF a, b, c
<1> HIDE DEF row
<1>7. row.paid <= row.total /\ row.refunded <= row.total
  BY <1>1, <1>3, <1>4, <1>6
<1>8. QED
  BY <1>1, <1>2, <1>4, <1>5, <1>6, <1>7 DEF row, back

LEMMA RefundTyped ==
  ASSUME RowsInv, NEW s \in Sales, NEW n \in Amounts, CreateRefundInvoice(s, n)
  PROVE  RowsInv' /\ Invoices' = Invoices
<1> DEFINE back == Least(n, sale[s].paid)
           row == [sale[s] EXCEPT !.refunded = @ + n, !.repaid = @ + back, !.paid = @ - back]
<1>1. /\ s \in Invoices /\ row \in InvoiceRecord
      /\ row.paid <= row.total /\ row.refunded <= row.total
      /\ sale' = [sale EXCEPT ![s] = row]
      /\ excused' = TRUE
      /\ UNCHANGED <<collection, points, tier, job, direct, overdrawn, contended>>
  BY RefundWrites
<1> HIDE DEF row
<1>2. /\ sale' \in [Sales -> InvoiceRecord \cup {NoSale}] /\ Invoices' = Invoices /\ Numbered'
      /\ \A t \in Invoices' : sale'[t].paid <= sale'[t].total /\ sale'[t].refunded <= sale'[t].total
  BY <1>1, RowRewritten
<1>3. QED
  BY <1>1, <1>2, RowsChange DEF RowsInv, TypeOK, Working

LEMMA AwardWrites ==
  ASSUME RowsInv, NEW s \in Sales, AwardPoints(s)
  PROVE  LET row == [sale[s] EXCEPT !.awarded = TRUE]
         IN /\ s \in Invoices /\ row \in InvoiceRecord
            /\ row.paid = sale[s].paid /\ row.repaid = sale[s].repaid
            /\ row.down = sale[s].down /\ row.total = sale[s].total
            /\ row.refunded = sale[s].refunded
            /\ row.planned = sale[s].planned /\ row.used = sale[s].used
            /\ row.redeemed = sale[s].redeemed /\ row.overtaken = sale[s].overtaken
            /\ row.paid <= row.total /\ row.refunded <= row.total
            /\ sale' = [sale EXCEPT ![s] = row]
            /\ points' \in Nat /\ points' >= points /\ tier' = TierOf(points')
            /\ UNCHANGED <<collection, job, direct, excused, overdrawn, contended>>
<1> DEFINE row == [sale[s] EXCEPT !.awarded = TRUE]
<1>1. /\ s \in Invoices /\ sale[s] \in InvoiceRecord
      /\ sale[s].paid <= sale[s].total /\ sale[s].refunded <= sale[s].total
  BY OpenIs DEF AwardPoints, RowsInv, TypeOK
<1>2. /\ sale' = [sale EXCEPT ![s] = row] /\ tier' = TierOf(points')
      /\ UNCHANGED <<collection, job, direct, excused, overdrawn, contended>>
  BY DEF AwardPoints
<1>3. /\ row \in InvoiceRecord
      /\ row.paid = sale[s].paid /\ row.repaid = sale[s].repaid
      /\ row.refunded = sale[s].refunded
      /\ row.down = sale[s].down /\ row.total = sale[s].total
      /\ row.planned = sale[s].planned /\ row.used = sale[s].used
      /\ row.redeemed = sale[s].redeemed /\ row.overtaken = sale[s].overtaken
  BY <1>1 DEF InvoiceRecord
<1>4. points' \in Nat /\ points' >= points
  <2>1. sale[s].total \in Nat /\ Rate \in Nat /\ points \in Nat
    BY <1>1, Limits DEF InvoiceRecord, Rate, RowsInv, TypeOK
  <2>2. sale[s].total * Rate \in Nat
    BY <2>1
  <2>3. points' = points + sale[s].total * Rate
    BY DEF AwardPoints
  <2> DEFINE more == sale[s].total * Rate
  <2> HIDE DEF more
  <2>4. QED
    BY <2>1, <2>2, <2>3 DEF more
<1> HIDE DEF row
<1>5. QED
  BY <1>1, <1>2, <1>3, <1>4 DEF row

LEMMA AwardTyped ==
  ASSUME RowsInv, NEW s \in Sales, AwardPoints(s)
  PROVE  RowsInv' /\ Invoices' = Invoices
<1> DEFINE row == [sale[s] EXCEPT !.awarded = TRUE]
<1>1. /\ s \in Invoices /\ row \in InvoiceRecord
      /\ row.paid <= row.total /\ row.refunded <= row.total
      /\ sale' = [sale EXCEPT ![s] = row]
      /\ points' \in Nat /\ tier' = TierOf(points')
      /\ UNCHANGED <<collection, job, direct, excused, overdrawn, contended>>
  BY AwardWrites
<1> HIDE DEF row
<1>2. /\ sale' \in [Sales -> InvoiceRecord \cup {NoSale}] /\ Invoices' = Invoices /\ Numbered'
      /\ \A t \in Invoices' : sale'[t].paid <= sale'[t].total /\ sale'[t].refunded <= sale'[t].total
  BY <1>1, RowRewritten
<1>3. tier' \in Tiers \cup {0}
  BY <1>1, TierIsOne
<1>4. QED
  BY <1>1, <1>2, <1>3, RowsChange DEF RowsInv, TypeOK, Working

\* The other promises are overtaken and nothing else of them changes.
Passed(row) == [row EXCEPT !.overtaken = TRUE]

LEMMA PassedIs ==
  ASSUME NEW row \in InvoiceRecord
  PROVE  /\ Passed(row) \in InvoiceRecord /\ Passed(row).overtaken
         /\ Passed(row).paid = row.paid /\ Passed(row).repaid = row.repaid
         /\ Passed(row).refunded = row.refunded
         /\ Passed(row).down = row.down /\ Passed(row).total = row.total
         /\ Passed(row).planned = row.planned /\ Passed(row).used = row.used
         /\ Passed(row).redeemed = row.redeemed
         /\ (Fresh(row) => Fresh(Passed(row)))
BY DEF Passed, InvoiceRecord, Fresh

\* What a row keeps when it is not the one redeemed.
Alike(new, old) ==
  /\ new.paid = old.paid /\ new.repaid = old.repaid /\ new.refunded = old.refunded
  /\ new.down = old.down /\ new.total = old.total
  /\ new.planned = old.planned

LEMMA OvertakeIs ==
  ASSUME TypeOK, NEW but, NEW s \in Invoices
  PROVE  /\ Overtake(but)[s] \in InvoiceRecord /\ Alike(Overtake(but)[s], sale[s])
         /\ Overtake(but)[s].used = sale[s].used /\ Overtake(but)[s].redeemed = sale[s].redeemed
         /\ s # but /\ ~sale[s].redeemed => Overtake(but)[s].overtaken
         /\ s = but \/ sale[s].redeemed => Overtake(but)[s] = sale[s]
<1>1. s \in Sales /\ sale[s] \in InvoiceRecord
  BY OpenIs DEF Invoices
<1>2. CASE s # but /\ ~sale[s].redeemed
  <2>1. Overtake(but)[s] = Passed(sale[s])
    BY <1>1, <1>2 DEF Overtake, Passed
  <2>2. QED
    BY <1>1, <1>2, <2>1, PassedIs DEF Alike
<1>3. CASE ~(s # but /\ ~sale[s].redeemed)
  <2>1. Overtake(but)[s] = sale[s]
    BY <1>1, <1>3 DEF Overtake
  <2>2. QED
    BY <1>1, <1>3, <2>1 DEF Alike
<1>4. QED
  BY <1>2, <1>3

LEMMA OvertakeTyped ==
  ASSUME TypeOK, NEW but
  PROVE  /\ Overtake(but) \in [Sales -> InvoiceRecord \cup {NoSale}]
         /\ \A s \in Sales : s \notin Invoices => Overtake(but)[s] = NoSale
<1>1. \A s \in Sales : s \notin Invoices => Overtake(but)[s] = NoSale
  BY DEF Overtake, Invoices
<1>2. \A s \in Sales : Overtake(but)[s] \in InvoiceRecord \cup {NoSale}
  BY <1>1, OvertakeIs
<1>3. QED
  BY <1>1, <1>2 DEF Overtake

LEMMA CheckoutsOvertaken ==
  ASSUME RowsInv, NEW r \in Requests, job' = OvertakeCheckouts(r)
  PROVE  /\ job' \in [Requests -> JobRecord] /\ job'[r] = Idle
         /\ \A q \in Requests \ {r} :
              /\ job'[q].op = job[q].op
              /\ job[q].op # "checkout" => job'[q] = job[q]
              /\ job[q].op = "checkout" =>
                   /\ job'[q].invoice \in InvoiceRecord /\ Fresh(job'[q].invoice)
                   /\ Alike(job'[q].invoice, job[q].invoice)
                   /\ job'[q].invoice.redeemed = job[q].invoice.redeemed
                   /\ ~job'[q].invoice.redeemed => job'[q].invoice.overtaken
<1>1. Idle \in JobRecord /\ job'[r] = Idle
  BY DEF OvertakeCheckouts, JobRecord
<1>2. ASSUME NEW q \in Requests \ {r}
      PROVE  /\ job'[q] \in JobRecord
             /\ job'[q].op = job[q].op
             /\ job[q].op # "checkout" => job'[q] = job[q]
             /\ job[q].op = "checkout" =>
                  /\ job'[q].invoice \in InvoiceRecord /\ Fresh(job'[q].invoice)
                  /\ Alike(job'[q].invoice, job[q].invoice)
                  /\ job'[q].invoice.redeemed = job[q].invoice.redeemed
                  /\ ~job'[q].invoice.redeemed => job'[q].invoice.overtaken
  <2>1. job[q] \in JobRecord
    BY DEF RowsInv, TypeOK
  <2>2. CASE job[q].op # "checkout"
    BY <2>1, <2>2 DEF OvertakeCheckouts
  <2>3. CASE job[q].op = "checkout"
    <3>1. /\ job[q] \in [op : {"checkout"}, invoice : InvoiceRecord]
          /\ job[q].invoice \in InvoiceRecord /\ Fresh(job[q].invoice)
      BY <2>1, <2>3, JobKinds DEF RowsInv, Working
    <3>2. CASE job[q].invoice.planned > 0
      <4>1. job'[q] = [job[q] EXCEPT !.invoice.overtaken = TRUE]
        BY <2>3, <3>2 DEF OvertakeCheckouts
      <4>2. job'[q] = [op |-> "checkout", invoice |-> Passed(job[q].invoice)]
        BY <3>1, <4>1 DEF Passed
      <4>3. job'[q].op = "checkout" /\ job'[q].invoice = Passed(job[q].invoice)
        BY <4>2
      <4>4. job'[q] \in JobRecord
        <5>1. Passed(job[q].invoice) \in InvoiceRecord
          BY <3>1, PassedIs
        <5>2. QED
          BY <4>2, <5>1 DEF JobRecord
      <4>5. QED
        BY <2>3, <3>1, <4>3, <4>4, PassedIs DEF Alike
    <3>3. CASE ~(job[q].invoice.planned > 0)
      <4>1. job'[q] = job[q]
        BY <2>3, <3>3 DEF OvertakeCheckouts
      <4>2. job[q].invoice.redeemed
        BY <3>1, <3>3 DEF Fresh, InvoiceRecord
      <4>3. QED
        BY <2>1, <2>3, <3>1, <4>1, <4>2 DEF Alike
    <3>4. QED
      BY <3>2, <3>3
  <2>4. QED
    BY <2>2, <2>3
<1>3. \A q \in Requests : job'[q] \in JobRecord
  BY <1>1, <1>2
<1>4. QED
  BY <1>1, <1>2, <1>3 DEF OvertakeCheckouts

LEMMA RedeemWrites ==
  ASSUME RowsInv, NEW r \in Requests, Redeem(r), job[r].used \in Nat
  PROVE  /\ points' \in Nat /\ points' = points - job[r].used
         /\ tier' = TierOf(points') /\ tier' \in Tiers \cup {0}
         /\ job' = OvertakeCheckouts(r)
         /\ UNCHANGED <<collection, excused, overdrawn, contended>>
<1>1. points' \in Nat /\ points' = points - job[r].used
  BY DEF Redeem, RowsInv, TypeOK
<1>2. QED
  BY <1>1, TierIsOne DEF Redeem

LEMMA SaleRedeemed ==
  ASSUME RowsInv, PromisesFit, NEW r \in Requests, RedeemPointsForSale(r)
  PROVE  LET s == job[r].sale
         IN /\ s \in Invoices /\ ~sale[s].redeemed /\ job[r].used \in Nat
            /\ r \in Working("sale_points")
            /\ sale' \in [Sales -> InvoiceRecord \cup {NoSale}]
            /\ sale'[s] \in InvoiceRecord /\ Alike(sale'[s], sale[s])
            /\ sale'[s].redeemed /\ sale'[s].used = job[r].used
            /\ sale'[s].overtaken = sale[s].overtaken
            /\ \A t \in Sales \ {s} : sale'[t] = Overtake(s)[t]
            /\ Invoices' = Invoices /\ Redeem(r) /\ direct' = direct
<1> DEFINE s == job[r].sale
           row == [sale[s] EXCEPT !.redeemed = TRUE, !.used = job[r].used]
<1>1. /\ r \in Working("sale_points") /\ job[r].used \in Nat /\ s \in Invoices
      /\ ~sale[s].redeemed /\ s \in Sales
  BY JobKinds DEF RedeemPointsForSale, RowsInv, TypeOK, PromisesFit, Working
<1>2. Overtake(s) \in [Sales -> InvoiceRecord \cup {NoSale}] /\ Overtake(s)[s] = sale[s]
  BY <1>1, OvertakeTyped, OvertakeIs DEF RowsInv
<1>3. sale[s] \in InvoiceRecord
  BY <1>1, OpenIs DEF RowsInv
<1>4. sale' = [Overtake(s) EXCEPT ![s] = row]
  BY <1>2, <1>1 DEF RedeemPointsForSale
<1>5. /\ row \in InvoiceRecord /\ Alike(row, sale[s]) /\ row.redeemed /\ row.used = job[r].used
      /\ row.overtaken = sale[s].overtaken
  BY <1>1, <1>3 DEF Alike, InvoiceRecord
<1> HIDE DEF row, s
<1>6. sale'[s] = row /\ \A t \in Sales \ {s} : sale'[t] = Overtake(s)[t]
  BY <1>1, <1>2, <1>4
<1>7. sale' \in [Sales -> InvoiceRecord \cup {NoSale}]
  BY <1>2, <1>4, <1>5
<1>8. \A t \in Sales : sale[t] = NoSale <=> sale'[t] = NoSale
  <2>1. InvoiceRecord \cap {NoSale} = {}
    BY CustomerAccountsConstants
  <2>2. ASSUME NEW t \in Sales PROVE sale[t] = NoSale <=> sale'[t] = NoSale
    <3>1. CASE t = s
      BY <1>3, <1>5, <1>6, <2>1, <3>1
    <3>2. CASE t # s /\ t \in Invoices
      <4>1. sale'[t] \in InvoiceRecord
        BY <1>6, <3>2, OvertakeIs DEF RowsInv
      <4>2. QED
        BY <2>1, <3>2, <4>1 DEF Invoices
    <3>3. CASE t # s /\ t \notin Invoices
      BY <1>6, <3>3, OvertakeTyped DEF RowsInv, Invoices
    <3>4. QED
      BY <3>1, <3>2, <3>3
  <2>3. QED
    BY <2>2
<1>9. Invoices' = Invoices
  BY <1>8, RowsRemain DEF RowsInv
<1>10. QED
  BY <1>1, <1>5, <1>6, <1>7, <1>9 DEF RedeemPointsForSale, s

\* After a redemption every row is as before, or overtaken, or it is the one redeemed.
LEMMA DirectRedeemed ==
  ASSUME RowsInv, NEW r \in Requests, RedeemPoints(r)
  PROVE  /\ job[r].used \in Nat /\ r \in Working("direct")
         /\ sale' \in [Sales -> InvoiceRecord \cup {NoSale}]
         /\ sale' = Overtake(NoSale)
         /\ Invoices' = Invoices /\ Redeem(r) /\ direct' = direct + 1
<1>1. r \in Working("direct") /\ job[r].used \in Nat
  BY JobKinds DEF RedeemPoints, RowsInv, TypeOK, Working
<1>2. sale' = Overtake(NoSale) /\ sale' \in [Sales -> InvoiceRecord \cup {NoSale}]
  BY OvertakeTyped DEF RedeemPoints, RowsInv
<1>3. \A t \in Sales : sale[t] = NoSale <=> sale'[t] = NoSale
  <2>1. ASSUME NEW t \in Sales PROVE sale[t] = NoSale <=> sale'[t] = NoSale
    <3>1. CASE t \in Invoices
      <4>1. sale'[t] \in InvoiceRecord
        BY <1>2, <3>1, OvertakeIs DEF RowsInv
      <4>2. QED
        BY <3>1, <4>1, CustomerAccountsConstants DEF Invoices
    <3>2. CASE t \notin Invoices
      BY <1>2, <3>2, OvertakeTyped DEF RowsInv, Invoices
    <3>3. QED
      BY <3>1, <3>2
  <2>2. QED
    BY <2>1
<1>4. Invoices' = Invoices
  BY <1>3, RowsRemain DEF RowsInv
<1>5. QED
  BY <1>1, <1>2, <1>4 DEF RedeemPoints

LEMMA RedeemTyped ==
  ASSUME RowsInv, NEW r \in Requests, Redeem(r), job[r].used \in Nat,
         sale' \in [Sales -> InvoiceRecord \cup {NoSale}], Invoices' = Invoices,
         \A s \in Invoices : Alike(sale'[s], sale[s]), direct' \in Nat
  PROVE  RowsInv'
<1>1. /\ job' \in [Requests -> JobRecord]
      /\ \A q \in Requests : job'[q].op = "checkout" => Fresh(job'[q].invoice)
  <2>1. job' = OvertakeCheckouts(r)
    BY RedeemWrites
  <2>2. Idle.op # "checkout"
    BY DEF Idle
  <2>3. QED
    BY <2>1, <2>2, CheckoutsOvertaken
<1>2. Numbered'
  BY DEF RowsInv, Numbered
<1>3. \A s \in Invoices' : sale'[s].paid <= sale'[s].total /\ sale'[s].refunded <= sale'[s].total
  BY DEF RowsInv, TypeOK, Alike
<1>4. QED
  BY <1>1, <1>2, <1>3, RedeemWrites, RowsChange DEF RowsInv, TypeOK

LEMMA SaleRedeemedTyped ==
  ASSUME RowsInv, PromisesFit, NEW r \in Requests, RedeemPointsForSale(r)
  PROVE  RowsInv' /\ \A s \in Invoices : Alike(sale'[s], sale[s])
<1>1. \A s \in Invoices : Alike(sale'[s], sale[s])
  <2>1. ASSUME NEW s \in Invoices PROVE Alike(sale'[s], sale[s])
    <3>1. s \in Sales
      BY DEF Invoices
    <3>2. CASE s = job[r].sale
      BY <3>2, SaleRedeemed
    <3>3. CASE s # job[r].sale
      <4>1. sale'[s] = Overtake(job[r].sale)[s]
        BY <3>1, <3>3, SaleRedeemed
      <4>2. QED
        BY <4>1, OvertakeIs DEF RowsInv
    <3>4. QED
      BY <3>2, <3>3
  <2>2. QED
    BY <2>1
<1>2. /\ job[r].used \in Nat /\ sale' \in [Sales -> InvoiceRecord \cup {NoSale}]
      /\ Invoices' = Invoices /\ Redeem(r) /\ direct' = direct
  BY SaleRedeemed
<1>3. RowsInv'
  BY <1>1, <1>2, RedeemTyped DEF RowsInv, TypeOK
<1>4. QED
  BY <1>1, <1>3

LEMMA DirectRedeemedTyped ==
  ASSUME RowsInv, NEW r \in Requests, RedeemPoints(r)
  PROVE  RowsInv' /\ \A s \in Invoices : Alike(sale'[s], sale[s])
<1>1. \A s \in Invoices : Alike(sale'[s], sale[s])
  BY DirectRedeemed, OvertakeIs DEF RowsInv
<1>2. direct' \in Nat
  BY DirectRedeemed DEF RowsInv, TypeOK
<1>3. QED
  BY <1>1, <1>2, DirectRedeemed, RedeemTyped

----------------------------------------------------------------------------
(* The credit limit                                                        *)

Owed(row) == row.total - row.paid - row.refunded + row.repaid
OwedOn(rows) == [s \in Sales |-> IF rows[s] = NoSale THEN 0 ELSE Owed(rows[s])]

LEMMA OwedSum ==
  ASSUME NEW rows, NEW W, IsFiniteSet(W), NEW f, \A s \in W : f[s] = Owed(rows[s])
  PROVE  MapThenSumSet(LAMBDA s : rows[s].total - rows[s].paid - rows[s].refunded
                                    + rows[s].repaid, W) = SumOf(f, W)
<1> DEFINE c(S) == CHOOSE s \in S : TRUE
           Step(g, S) == IF S = {} THEN 0
             ELSE rows[c(S)].total - rows[c(S)].paid - rows[c(S)].refunded
                    + rows[c(S)].repaid + g[S \ {c(S)}]
           sum == MapThenSumSet(LAMBDA s : rows[s].total - rows[s].paid - rows[s].refunded
                                             + rows[s].repaid, W)
<1>1. PICK g : Adds(g, f, W)
  BY AddsExists
<1>2. g = [S \in SUBSET W |-> Step(g, S)]
  BY <1>1, OneLess DEF Adds, Owed, Chosen
<1>3. PICK h : h = [S \in SUBSET W |-> Step(h, S)] /\ sum = h[W]
  BY <1>2 DEF MapThenSumSet, MapThenFoldSet
<1> HIDE DEF sum
<1>4. Adds(h, f, W)
  <2>1. ASSUME NEW S \in SUBSET W
        PROVE  h[S] = IF S = {} THEN 0 ELSE f[Chosen(S)] + h[S \ {Chosen(S)}]
    <3>1. h[S] = Step(h, S)
      BY <1>3
    <3>2. S # {} => f[Chosen(S)] = Owed(rows[Chosen(S)])
      BY OneLess
    <3>3. QED
      BY <3>1, <3>2 DEF Owed, Chosen
  <2>2. h = [S \in SUBSET W |-> h[S]]
    BY <1>3
  <2>3. QED
    BY <2>1, <2>2 DEF Adds
<1>5. sum = SumOf(f, W)
  BY <1>3, <1>4, SumIs
<1>6. QED
  BY <1>5 DEF sum

LEMMA OwedOnRows ==
  ASSUME NEW rows \in [Sales -> InvoiceRecord \cup {NoSale}]
  PROVE  /\ \A s \in Sales : OwedOn(rows)[s] \in Int
         /\ MapThenSumSet(LAMBDA s : rows[s].total - rows[s].paid - rows[s].refunded
                                       + rows[s].repaid, {s \in Sales : rows[s] # NoSale})
              = SumOf(OwedOn(rows), Sales)
<1> DEFINE W == {s \in Sales : rows[s] # NoSale}
           f == [s \in Sales |-> Owed(rows[s])]
<1>1. W \in SUBSET Sales /\ IsFiniteSet(W)
  BY SalesFinite, FS_Subset
<1>2. \A s \in W : f[s] = Owed(rows[s]) /\ f[s] \in Int
  <2>1. ASSUME NEW s \in W PROVE Owed(rows[s]) \in Int
    <3>1. rows[s] \in InvoiceRecord
      OBVIOUS
    <3>2. QED
      BY <3>1 DEF Owed, InvoiceRecord
  <2>2. QED
    BY <2>1
<1>3. OwedOn(rows) = Within(f, W, Sales)
  BY DEF OwedOn, Within
<1>4. \A s \in Sales : OwedOn(rows)[s] \in Int
  BY <1>2 DEF OwedOn
<1> HIDE DEF f, W
<1>5. MapThenSumSet(LAMBDA s : rows[s].total - rows[s].paid - rows[s].refunded
                                 + rows[s].repaid, W) = SumOf(f, W)
  BY <1>1, <1>2, OwedSum
<1>6. SumOf(f, W) = SumOf(Within(f, W, Sales), Sales)
  BY <1>1, <1>2, SalesFinite, SumPart
<1>7. QED
  BY <1>3, <1>4, <1>5, <1>6 DEF W

LEMMA OutstandingIs ==
  ASSUME TypeOK, TypeOK'
  PROVE  /\ Outstanding = SumOf(OwedOn(sale), Sales)
         /\ Outstanding' = SumOf(OwedOn(sale'), Sales)
         /\ \A s \in Sales : OwedOn(sale)[s] \in Int /\ OwedOn(sale')[s] \in Int
         /\ Outstanding \in Int /\ Outstanding' \in Int
<1> DEFINE Sum(rows) == MapThenSumSet(LAMBDA s : rows[s].total - rows[s].paid
                            - rows[s].refunded + rows[s].repaid, {s \in Sales : rows[s] # NoSale})
<1>1. sale \in [Sales -> InvoiceRecord \cup {NoSale}] /\ sale' \in [Sales -> InvoiceRecord \cup {NoSale}]
  BY DEF TypeOK
<1>2. Outstanding = Sum(sale)
  BY DEF Outstanding, Due, Open, Invoices, MapThenSumSet, MapThenFoldSet
<1>3. Outstanding' = Sum(sale')
  BY DEF Outstanding, Due, Open, Invoices, MapThenSumSet, MapThenFoldSet
<1> HIDE DEF Sum
<1>4. Sum(sale) = SumOf(OwedOn(sale), Sales) /\ Sum(sale') = SumOf(OwedOn(sale'), Sales)
  BY <1>1, OwedOnRows DEF Sum
<1>5. \A s \in Sales : OwedOn(sale)[s] \in Int /\ OwedOn(sale')[s] \in Int
  BY <1>1, OwedOnRows
<1>6. Outstanding \in Int /\ Outstanding' \in Int
  BY <1>2, <1>3, <1>4, <1>5, SalesFinite, SumType
<1>7. QED
  BY <1>2, <1>3, <1>4, <1>5, <1>6

\* Nothing more is owed and no checkout is let through.
LEMMA LimitFrame ==
  ASSUME RowsInv, RowsInv', LimitInv, Invoices' = Invoices, excused' = excused,
         \A s \in Invoices :
           /\ sale'[s].total = sale[s].total /\ sale'[s].paid >= sale[s].paid
           /\ sale'[s].refunded = sale[s].refunded /\ sale'[s].repaid = sale[s].repaid,
         \A q \in Working("checkout")' :
           /\ q \in Working("checkout")
           /\ job'[q].invoice.total = job[q].invoice.total
           /\ job'[q].invoice.paid = job[q].invoice.paid
  PROVE  LimitInv'
<1>1. SumOf(OwedOn(sale'), Sales) <= SumOf(OwedOn(sale), Sales)
  <2>1. ASSUME NEW s \in Sales PROVE OwedOn(sale')[s] <= OwedOn(sale)[s]
    <3>1. CASE s \in Invoices
      <4>1. sale[s] \in InvoiceRecord /\ sale'[s] \in InvoiceRecord
            /\ sale[s] # NoSale /\ sale'[s] # NoSale
        BY <3>1, OpenIs DEF RowsInv, TypeOK, Invoices
      <4>2. OwedOn(sale)[s] = Owed(sale[s]) /\ OwedOn(sale')[s] = Owed(sale'[s])
        BY <4>1 DEF OwedOn
      <4>3. QED
        BY <3>1, <4>1, <4>2 DEF Owed, InvoiceRecord
    <3>2. CASE s \notin Invoices
      BY <3>2 DEF OwedOn, Invoices
    <3>3. QED
      BY <3>1, <3>2
  <2>2. \A s \in Sales : OwedOn(sale)[s] \in Int /\ OwedOn(sale')[s] \in Int
    BY OutstandingIs DEF RowsInv
  <2>3. QED
    BY <2>1, <2>2, SalesFinite, SumMonotone
<1>2. Outstanding' <= Outstanding /\ Outstanding \in Int /\ Outstanding' \in Int
  BY <1>1, OutstandingIs DEF RowsInv
<1>3. \A s \in Invoices : s \in Sales
  BY DEF Invoices
<1>4. ASSUME NEW q \in Working("checkout"), job'[q].invoice.total = job[q].invoice.total,
             job'[q].invoice.paid = job[q].invoice.paid, Roomy(job[q].invoice)
      PROVE  RoomFor(job'[q].invoice, Outstanding')
  <2>1. job[q].invoice \in InvoiceRecord
    BY JobKinds DEF RowsInv, TypeOK, Working
  <2>2. job[q].invoice.total \in Int /\ job[q].invoice.paid \in Int
    BY <2>1 DEF InvoiceRecord
  <2>3. QED
    BY <1>2, <1>4, <2>2, Limits DEF Roomy, RoomFor
<1>5. ASSUME ~excused
      PROVE  /\ \A s \in Invoices' : sale'[s].refunded = 0 /\ sale'[s].repaid = 0
             /\ \A q, p \in Working("checkout")' : q = p
             /\ \A q \in Working("checkout")' : RoomFor(job'[q].invoice, Outstanding')
             /\ Outstanding' <= CreditLimit
  <2>1. \A s \in Invoices' : sale'[s].refunded = 0 /\ sale'[s].repaid = 0
    BY <1>5 DEF LimitInv
  <2>2. \A q, p \in Working("checkout")' : q = p
    BY <1>5 DEF LimitInv
  <2>3. \A q \in Working("checkout")' : RoomFor(job'[q].invoice, Outstanding')
    BY <1>4, <1>5 DEF LimitInv
  <2>4. QED
    BY <1>2, <1>5, <2>1, <2>2, <2>3, Limits DEF LimitInv
<1>6. QED
  BY <1>5 DEF LimitInv, Roomy

\* A new row adds what it leaves unpaid.
LEMMA NewRowOwes ==
  ASSUME RowsInv, RowsInv', NEW invoice \in InvoiceRecord, Fresh(invoice), Saved(invoice)
  PROVE  /\ Outstanding' = Outstanding + invoice.total - invoice.paid
         /\ Outstanding \in Int
         /\ \A s \in Invoices' : (s \in Invoices /\ sale'[s] = sale[s]) \/ sale'[s] = invoice
<1>1. PICK s \in Sales \ Invoices : /\ sale' = [sale EXCEPT ![s] = invoice]
                                    /\ Invoices' = Invoices \cup {s}
  BY RowAdded DEF RowsInv
<1>2. sale'[s] = invoice /\ \A t \in Sales \ {s} : sale'[t] = sale[t]
  BY <1>1 DEF RowsInv, TypeOK
<1>3. sale[s] = NoSale /\ invoice # NoSale
  BY <1>1, CustomerAccountsConstants DEF Invoices
<1>4. OwedOn(sale)[s] = 0 /\ OwedOn(sale')[s] = invoice.total - invoice.paid
  <2>1. OwedOn(sale)[s] = 0 /\ OwedOn(sale')[s] = Owed(invoice)
    BY <1>2, <1>3 DEF OwedOn
  <2>2. QED
    BY <2>1 DEF Owed, Fresh, InvoiceRecord
<1>5. \A t \in Sales \ {s} : OwedOn(sale)[t] = OwedOn(sale')[t]
  BY <1>2 DEF OwedOn
<1>6. \A t \in Sales : OwedOn(sale)[t] \in Int /\ OwedOn(sale')[t] \in Int
  BY OutstandingIs DEF RowsInv
<1>7. SumOf(OwedOn(sale'), Sales) = SumOf(OwedOn(sale), Sales) + OwedOn(sale')[s] - OwedOn(sale)[s]
  BY <1>5, <1>6, SalesFinite, SumChange
<1>8. Outstanding = SumOf(OwedOn(sale), Sales) /\ Outstanding' = SumOf(OwedOn(sale'), Sales)
      /\ Outstanding \in Int
  BY OutstandingIs DEF RowsInv
<1>9. invoice.total \in Int /\ invoice.paid \in Int
  BY DEF InvoiceRecord
<1>10. \A t \in Invoices' : (t \in Invoices /\ sale'[t] = sale[t]) \/ sale'[t] = invoice
  BY <1>1, <1>2 DEF Invoices
<1>11. QED
  BY <1>4, <1>7, <1>8, <1>9, <1>10

LEMMA CheckoutKeepsLimit ==
  ASSUME RowsInv, RowsInv', LimitInv, NEW r \in Requests, Checkout(r)
  PROVE  LimitInv'
<1> SUFFICES ASSUME ~excused'
             PROVE  /\ \A s \in Invoices' : sale'[s].refunded = 0 /\ sale'[s].repaid = 0
                    /\ \A q, p \in Working("checkout")' : q = p
                    /\ \A q \in Working("checkout")' : RoomFor(job'[q].invoice, Outstanding')
                    /\ Outstanding' <= CreditLimit
  BY DEF LimitInv, Roomy
<1>1. /\ job[r].invoice \in InvoiceRecord /\ Fresh(job[r].invoice) /\ r \in Working("checkout")
      /\ Saved(job[r].invoice) /\ End(r) /\ ~excused
  BY JobKinds DEF Checkout, RowsInv, TypeOK, Working
<1>2. Roomy(job[r].invoice) /\ Outstanding <= CreditLimit
  BY <1>1 DEF LimitInv
<1>3. Working("checkout")' = {}
  <2>1. \A q \in Requests : job'[q].op = "checkout" => q # r /\ job'[q] = job[q]
    BY <1>1, EndOfJob
  <2>2. QED
    BY <1>1, <2>1 DEF LimitInv, Working
<1> DEFINE invoice == job[r].invoice
<1>4. /\ Outstanding' = Outstanding + invoice.total - invoice.paid /\ Outstanding \in Int
      /\ \A s \in Invoices' : (s \in Invoices /\ sale'[s] = sale[s]) \/ sale'[s] = invoice
  BY <1>1, NewRowOwes
<1>5. invoice.total \in Int /\ invoice.paid \in Int
  BY <1>1 DEF InvoiceRecord
<1>6. Outstanding' <= CreditLimit
  BY <1>2, <1>4, <1>5, Limits DEF Roomy, RoomFor
<1>7. \A s \in Invoices' : sale'[s].refunded = 0 /\ sale'[s].repaid = 0
  BY <1>1, <1>4 DEF LimitInv, Fresh
<1>8. QED
  BY <1>3, <1>6, <1>7

LEMMA CreateSaleKeepsLimit ==
  ASSUME RowsInv, RowsInv', LimitInv, NEW total \in Totals, NEW paid \in 0 .. MaxTotal,
         CreateSale(total, paid)
  PROVE  LimitInv'
<1> SUFFICES ASSUME ~excused'
             PROVE  /\ \A s \in Invoices' : sale'[s].refunded = 0 /\ sale'[s].repaid = 0
                    /\ \A q, p \in Working("checkout")' : q = p
                    /\ \A q \in Working("checkout")' : RoomFor(job'[q].invoice, Outstanding')
                    /\ Outstanding' <= CreditLimit
  BY DEF LimitInv, Roomy
<1> DEFINE invoice == Invoice(total, paid, 0)
<1>1. /\ total \in Nat /\ paid \in Nat /\ paid = total /\ ~excused /\ job' = job /\ Saved(invoice)
  <2>1. paid <= total /\ ~(paid < total) /\ ~excused /\ job' = job /\ Saved(invoice)
    BY Zenon DEF CreateSale
  <2>2. QED
    BY <2>1, AmountsAre
<1>2. /\ invoice \in InvoiceRecord /\ Fresh(invoice)
      /\ invoice.total = total /\ invoice.paid = paid
  BY <1>1, NewInvoice DEF Invoice
<1> HIDE DEF invoice
<1>3. /\ Outstanding' = Outstanding + invoice.total - invoice.paid /\ Outstanding \in Int
      /\ \A s \in Invoices' : (s \in Invoices /\ sale'[s] = sale[s]) \/ sale'[s] = invoice
  BY <1>1, <1>2, NewRowOwes
<1>4. Outstanding' = Outstanding
  BY <1>1, <1>2, <1>3
<1>5. \A s \in Invoices' : sale'[s].refunded = 0 /\ sale'[s].repaid = 0
  BY <1>1, <1>2, <1>3 DEF LimitInv, Fresh
<1>6. Working("checkout")' = Working("checkout")
  BY <1>1 DEF Working
<1>7. QED
  BY <1>1, <1>4, <1>5, <1>6 DEF LimitInv, Roomy, RoomFor

LEMMA BeginCheckoutKeepsLimit ==
  ASSUME RowsInv, RowsInv', LimitInv, NEW r \in Requests, NEW total \in Totals,
         NEW paid \in 0 .. MaxTotal, NEW wanted \in 0 .. MaxTotal,
         BeginCheckout(r, total, paid, wanted)
  PROVE  LimitInv'
<1> SUFFICES ASSUME ~excused'
             PROVE  /\ \A s \in Invoices' : sale'[s].refunded = 0 /\ sale'[s].repaid = 0
                    /\ \A q, p \in Working("checkout")' : q = p
                    /\ \A q \in Working("checkout")' : RoomFor(job'[q].invoice, Outstanding')
                    /\ Outstanding' <= CreditLimit
  BY DEF LimitInv, Roomy
<1> DEFINE planned == Usable(wanted)
           invoice == Invoice(total - planned, paid, planned)
           j == [op |-> "checkout", invoice |-> invoice]
<1>1. /\ planned \in Nat /\ WithinLimit(total - planned - paid)
      /\ job' = [job EXCEPT ![r] = j] /\ sale' = sale
      /\ excused' = (excused \/ Working("checkout") # {})
  BY CheckoutPlans
<1>2. invoice.total - invoice.paid = total - planned - paid
  BY DEF Invoice
<1>3. Outstanding' = Outstanding
  BY <1>1, OutstandingIs DEF RowsInv
<1>30. Invoices' = Invoices
  BY <1>1 DEF Invoices
<1>4. Roomy(invoice)
  BY <1>1, <1>2 DEF WithinLimit, Roomy, RoomFor
<1>5. j.op = "checkout" /\ j.invoice = invoice
  OBVIOUS
<1> HIDE DEF j, invoice, planned
<1>6. \A q \in Working("checkout")' : q = r /\ job'[q].invoice = invoice
  BY <1>1, <1>5 DEF Working, RowsInv, TypeOK
<1>7. \A q \in Working("checkout")' : RoomFor(job'[q].invoice, Outstanding')
  BY <1>3, <1>4, <1>6 DEF Roomy, RoomFor
<1>8. QED
  BY <1>1, <1>3, <1>30, <1>6, <1>7 DEF LimitInv

\* A request that is no checkout goes on.
LEMMA OthersKeepLimit ==
  ASSUME RowsInv, RowsInv', LimitInv, sale' = sale, excused' = excused,
         \A q \in Requests : job'[q].op = "checkout" => job'[q] = job[q]
  PROVE  LimitInv'
<1>1. Invoices' = Invoices
  BY DEF Invoices
<1>2. \A q \in Working("checkout")' :
        /\ q \in Working("checkout") /\ job'[q] = job[q]
  BY DEF Working
<1>3. ASSUME NEW s \in Invoices PROVE sale[s].paid >= sale[s].paid
  <2>1. sale[s].paid \in Int
    BY OpenIs DEF RowsInv, InvoiceRecord
  <2>2. QED
    BY <2>1
<1>4. QED
  BY <1>1, <1>2, <1>3, LimitFrame

LEMMA RequestsKeepLimit ==
  ASSUME RowsInv, RowsInv', LimitInv, NEW r \in Requests
  PROVE  /\ RollBack(r) => LimitInv'
         /\ \A c \in Collections, n \in Amounts : BeginAnyCollection(r, c, n) => LimitInv'
         /\ \A s \in Sales : BeginSaleRedemption(r, s) => LimitInv'
         /\ \A n \in Amounts, gift \in BOOLEAN : BeginDirectRedemption(r, n, gift) => LimitInv'
<1>1. ASSUME NEW j, j.op # "checkout", job' = [job EXCEPT ![r] = j],
             sale' = sale, excused' = excused
      PROVE  LimitInv'
  <2>1. \A q \in Requests : job'[q].op = "checkout" => job'[q] = job[q]
    BY <1>1 DEF RowsInv, TypeOK
  <2>2. QED
    BY <1>1, <2>1, OthersKeepLimit
<1>2. RollBack(r) => LimitInv'
  BY <1>1 DEF RollBack, End, Idle
<1>3. ASSUME NEW c \in Collections, NEW n \in Amounts, BeginAnyCollection(r, c, n)
      PROVE  LimitInv'
  BY <1>1, <1>3 DEF BeginAnyCollection, BeginCollection
<1>4. ASSUME NEW s \in Sales, BeginSaleRedemption(r, s)
      PROVE  LimitInv'
  BY <1>1, <1>4 DEF BeginSaleRedemption, BeginRedemption
<1>5. ASSUME NEW n \in Amounts, NEW gift \in BOOLEAN, BeginDirectRedemption(r, n, gift)
      PROVE  LimitInv'
  BY <1>1, <1>5 DEF BeginDirectRedemption, BeginRedemption
<1>6. QED
  BY <1>2, <1>3, <1>4, <1>5

LEMMA CollectionsKeepLimit ==
  ASSUME RowsInv, RowsInv', LimitInv, LinksFit
  PROVE  /\ \A r \in Requests : CreateCollection(r) => LimitInv'
         /\ \A c \in Collections : DeleteCollection(c) => LimitInv'
<1>1. ASSUME NEW r \in Requests, CreateCollection(r)
      PROVE  LimitInv'
  <2>1. Invoices' = Invoices /\ excused' = excused /\ End(r)
    BY <1>1, CreateCollectionTyped, CollectionCommits
  <2>2. ASSUME NEW s \in Invoices
        PROVE  /\ sale'[s].total = sale[s].total /\ sale'[s].paid >= sale[s].paid
               /\ sale'[s].refunded = sale[s].refunded /\ sale'[s].repaid = sale[s].repaid
    <3>1. s \in Sales /\ sale[s] \in InvoiceRecord
      BY OpenIs DEF Invoices, RowsInv
    <3>2. /\ sale'[s] \in InvoiceRecord /\ sale'[s] = [sale[s] EXCEPT !.paid = sale'[s].paid]
          /\ sale[s].paid <= sale'[s].paid
      BY <1>1, <3>1, CollectionWrites
    <3> DEFINE p == sale'[s].paid
    <3>3. sale'[s] = [sale[s] EXCEPT !.paid = p] /\ p \in Nat /\ sale[s].paid <= p
      BY <3>2 DEF InvoiceRecord
    <3> HIDE DEF p
    <3>4. QED
      BY <3>1, <3>3 DEF InvoiceRecord
  <2>3. \A q \in Requests : job'[q].op = "checkout" => q # r /\ job'[q] = job[q]
    BY <2>1, EndOfJob
  <2>4. \A q \in Working("checkout")' : q \in Working("checkout") /\ job'[q] = job[q]
    BY <2>3 DEF Working
  <2>5. QED
    BY <2>1, <2>2, <2>4, LimitFrame
<1>2. ASSUME NEW c \in Collections, DeleteCollection(c)
      PROVE  LimitInv'
  BY <1>2, OthersKeepLimit DEF DeleteCollection
<1>3. QED
  BY <1>1, <1>2

\* Redemptions overtake promises; what is owed stays.
LEMMA RedemptionsKeepLimit ==
  ASSUME RowsInv, RowsInv', LimitInv, PromisesFit, NEW r \in Requests,
         RedeemPointsForSale(r) \/ RedeemPoints(r)
  PROVE  LimitInv'
<1>1. /\ job[r].used \in Nat /\ Redeem(r) /\ Invoices' = Invoices
      /\ job[r].op # "checkout"
  BY SaleRedeemed, DirectRedeemed DEF Working
<1>2. \A s \in Invoices : Alike(sale'[s], sale[s])
  BY SaleRedeemedTyped, DirectRedeemedTyped
<1>3. job' = OvertakeCheckouts(r) /\ excused' = excused
  BY <1>1, RedeemWrites
<1>4. ASSUME NEW q \in Working("checkout")'
      PROVE  /\ q \in Working("checkout")
             /\ job'[q].invoice.total = job[q].invoice.total
             /\ job'[q].invoice.paid = job[q].invoice.paid
  <2>1. q \in Requests /\ job'[q].op = "checkout" /\ q # r
    BY <1>3, CheckoutsOvertaken DEF Working, Idle
  <2>2. job[q].op = "checkout"
    BY <1>3, <2>1, CheckoutsOvertaken
  <2>3. Alike(job'[q].invoice, job[q].invoice)
    BY <1>3, <2>1, <2>2, CheckoutsOvertaken
  <2>4. QED
    BY <2>1, <2>2, <2>3 DEF Working, Alike
<1>5. ASSUME NEW s \in Invoices
      PROVE  /\ sale'[s].total = sale[s].total /\ sale'[s].paid >= sale[s].paid
             /\ sale'[s].refunded = sale[s].refunded /\ sale'[s].repaid = sale[s].repaid
  <2>1. sale[s].paid \in Int
    BY OpenIs DEF RowsInv, InvoiceRecord
  <2>2. QED
    BY <1>2, <2>1 DEF Alike
<1>6. QED
  BY <1>1, <1>3, <1>4, <1>5, LimitFrame

LEMMA RestKeepsLimit ==
  ASSUME RowsInv, RowsInv', LimitInv, NEW s \in Sales
  PROVE  /\ AwardPoints(s) => LimitInv'
         /\ \A n \in Amounts : CreateRefundInvoice(s, n) => LimitInv'
<1>1. ASSUME AwardPoints(s)
      PROVE  LimitInv'
  <2> DEFINE row == [sale[s] EXCEPT !.awarded = TRUE]
  <2>1. /\ s \in Invoices /\ row \in InvoiceRecord
        /\ row.paid <= row.total /\ row.refunded <= row.total
        /\ row.paid = sale[s].paid /\ row.repaid = sale[s].repaid
        /\ row.total = sale[s].total /\ row.refunded = sale[s].refunded
        /\ sale' = [sale EXCEPT ![s] = row]
        /\ job' = job /\ excused' = excused
    BY <1>1, AwardWrites
  <2> HIDE DEF row
  <2>2. /\ Invoices' = Invoices
        /\ sale'[s] = row /\ \A t \in Invoices \ {s} : sale'[t] = sale[t]
    BY <2>1, RowRewritten
  <2>3. ASSUME NEW t \in Invoices
        PROVE  /\ sale'[t].total = sale[t].total /\ sale'[t].paid >= sale[t].paid
               /\ sale'[t].refunded = sale[t].refunded /\ sale'[t].repaid = sale[t].repaid
    <3>1. sale[t].paid \in Int
      BY OpenIs DEF RowsInv, InvoiceRecord
    <3>2. QED
      BY <2>1, <2>2, <3>1
  <2>4. Working("checkout")' = Working("checkout")
    BY <2>1 DEF Working
  <2>5. QED
    BY <2>1, <2>2, <2>3, <2>4, LimitFrame
<1>2. ASSUME NEW n \in Amounts, CreateRefundInvoice(s, n)
      PROVE  LimitInv'
  BY <1>2 DEF CreateRefundInvoice, LimitInv
<1>3. QED
  BY <1>1, <1>2

----------------------------------------------------------------------------
(* What is collected                                                       *)

LinksOver(rows, s, W) == MapThenSumSet(LAMBDA c : rows[c].links[s], W)

LEMMA LinkSum ==
  ASSUME NEW rows, NEW s, NEW W, IsFiniteSet(W), NEW f, \A c \in W : f[c] = rows[c].links[s]
  PROVE  LinksOver(rows, s, W) = SumOf(f, W)
<1> DEFINE d(S) == CHOOSE c \in S : TRUE
           Step(g, S) == IF S = {} THEN 0 ELSE rows[d(S)].links[s] + g[S \ {d(S)}]
           sum == LinksOver(rows, s, W)
<1>1. PICK g : Adds(g, f, W)
  BY AddsExists
<1>2. g = [S \in SUBSET W |-> Step(g, S)]
  BY <1>1, OneLess DEF Adds, Chosen
<1>3. PICK h : h = [S \in SUBSET W |-> Step(h, S)] /\ sum = h[W]
  BY <1>2 DEF LinksOver, MapThenSumSet, MapThenFoldSet
<1> HIDE DEF sum
<1>4. Adds(h, f, W)
  <2>1. ASSUME NEW S \in SUBSET W
        PROVE  h[S] = IF S = {} THEN 0 ELSE f[Chosen(S)] + h[S \ {Chosen(S)}]
    <3>1. h[S] = Step(h, S)
      BY <1>3
    <3>2. S # {} => f[Chosen(S)] = rows[Chosen(S)].links[s]
      BY OneLess
    <3>3. QED
      BY <3>1, <3>2 DEF Chosen
  <2>2. h = [S \in SUBSET W |-> h[S]]
    BY <1>3
  <2>3. QED
    BY <2>1, <2>2 DEF Adds
<1>5. sum = SumOf(f, W)
  BY <1>3, <1>4, SumIs
<1>6. QED
  BY <1>5 DEF sum

LEMMA LinksAre ==
  ASSUME NEW rows \in [Collections -> CollectionRecord \cup {NoCollection}], NEW s \in Sales
  PROVE  /\ \A c \in Collections : LinkOn(rows, s)[c] \in Nat
         /\ SumOf(LinkOn(rows, s), Collections) \in Nat
         /\ LinksOver(rows, s, {c \in Collections : rows[c] # NoCollection})
              = SumOf(LinkOn(rows, s), Collections)
<1> DEFINE W == {c \in Collections : rows[c] # NoCollection}
           f == [c \in Collections |-> rows[c].links[s]]
<1>1. IsFiniteSet(Collections) /\ W \in SUBSET Collections /\ IsFiniteSet(W)
  BY CustomerAccountsConstants, FS_Subset
<1>2. \A c \in W : f[c] = rows[c].links[s] /\ f[c] \in Nat
  BY DEF CollectionRecord
<1>3. LinkOn(rows, s) = Within(f, W, Collections)
  BY DEF LinkOn, Within
<1>4. \A c \in Collections : LinkOn(rows, s)[c] \in Nat
  BY <1>2 DEF LinkOn
<1> HIDE DEF f, W
<1>5. LinksOver(rows, s, W) = SumOf(f, W)
  BY <1>1, <1>2, LinkSum
<1>6. SumOf(f, W) = SumOf(Within(f, W, Collections), Collections)
  BY <1>1, <1>2, SumPart
<1>7. SumOf(LinkOn(rows, s), Collections) \in Nat
  BY <1>1, <1>4, SumNat
<1>8. QED
  BY <1>3, <1>4, <1>5, <1>6, <1>7 DEF W

\* CollectedOnce is what the two parts of LinksInv say.
LEMMA Collected ==
  ASSUME TypeOK, HandsOut, PaidFor
  PROVE  CollectedOnce
<1>1. \A c \in Collections :
        MapThenSumSet(LAMBDA s : collection[c].links[s], Sales) = SumOf(collection[c].links, Sales)
  BY DEF SumOf, MapThenSumSet, MapThenFoldSet
<1>2. ASSUME NEW s \in Invoices
      PROVE  LinksTo(s) = SumOf(LinkOn(collection, s), Collections)
  <2>1. s \in Sales /\ collection \in [Collections -> CollectionRecord \cup {NoCollection}]
    BY DEF Invoices, TypeOK
  <2>2. LinksOver(collection, s, {c \in Collections : collection[c] # NoCollection})
            = SumOf(LinkOn(collection, s), Collections)
    BY <2>1, LinksAre
  <2>3. QED
    BY <2>2 DEF LinksTo, LinksOver, MapThenSumSet, MapThenFoldSet
<1>3. \A s \in Invoices \ contended : sale[s].paid = sale[s].down + LinksTo(s) - sale[s].repaid
  BY <1>2 DEF PaidFor
<1>4. \A c \in Collections : collection[c] # NoCollection /\ ~collection[c].named =>
        MapThenSumSet(LAMBDA s : collection[c].links[s], Sales) <= collection[c].amount
  BY <1>1 DEF HandsOut
<1>5. QED
  BY <1>3, <1>4 DEF CollectedOnce

\* Nothing is collected, and no invoice is paid more.
LEMMA LinksFrame ==
  ASSUME RowsInv, RowsInv', LinksInv, Invoices \subseteq Invoices', contended' = contended,
         \A c \in Collections :
           /\ collection'[c] = NoCollection <=> collection[c] = NoCollection
           /\ collection[c] # NoCollection =>
                /\ collection'[c].links = collection[c].links
                /\ collection'[c].amount = collection[c].amount
                /\ collection'[c].named = collection[c].named,
         \A s \in Invoices :
           /\ sale'[s].total = sale[s].total /\ sale'[s].paid <= sale[s].paid
           /\ sale'[s].down = sale[s].down
           /\ sale'[s].paid + sale'[s].repaid = sale[s].paid + sale[s].repaid,
         \A s \in Invoices' \ Invoices : sale'[s].paid = sale'[s].down /\ sale'[s].repaid = 0,
         \A q \in Working("collect")' : q \in Working("collect") /\ job'[q] = job[q]
  PROVE  LinksInv'
<1>0. \A s \in Invoices' : /\ s \in Sales /\ sale'[s].paid \in Int /\ sale'[s].repaid \in Int
                           /\ sale'[s].total \in Int /\ sale'[s].down \in Int
  BY DEF RowsInv, TypeOK, Invoices, InvoiceRecord
<1>1. \A s \in Invoices : /\ s \in Sales /\ sale[s].paid \in Int /\ sale[s].repaid \in Int
                          /\ sale[s].total \in Int /\ sale[s].down \in Int
  BY DEF RowsInv, TypeOK, Invoices, InvoiceRecord
<1>2. ASSUME NEW q \in Working("collect")'
      PROVE  /\ \A s \in Paying(job'[q].links) :
                  s \in Invoices' /\ (s \notin contended' => job'[q].links[s] <= Open(s)')
             /\ ~job'[q].named => SumOf(job'[q].links, Sales) <= job'[q].amount
  <2>1. q \in Working("collect") /\ job'[q] = job[q] /\ job[q].links \in [Sales -> Nat]
    BY JobKinds DEF RowsInv, TypeOK, Working
  <2>2. ASSUME NEW s \in Paying(job'[q].links)
        PROVE  s \in Invoices' /\ (s \notin contended' => job'[q].links[s] <= Open(s)')
    <3>1. s \in Sales /\ s \in Paying(job[q].links)
      BY <2>1 DEF Paying
    <3>2. s \in Invoices /\ (s \notin contended => job[q].links[s] <= Open(s))
      BY <2>1, <3>1 DEF LinksInv, LinksFit
    <3>3. job[q].links[s] \in Int
      BY <2>1, <3>1
    <3>4. QED
      BY <1>0, <1>1, <2>1, <3>2, <3>3 DEF Open
  <2>3. ~job'[q].named => SumOf(job'[q].links, Sales) <= job'[q].amount
    BY <2>1 DEF LinksInv, LinksFit
  <2>4. QED
    BY <2>2, <2>3
<1>3. \A q, r \in Working("collect")' : q # r =>
        Paying(job'[q].links) \cap Paying(job'[r].links) \subseteq contended'
  BY DEF LinksInv, LinksFit
<1>4. \A c \in Collections : collection'[c] # NoCollection =>
        Paying(collection'[c].links) \subseteq Invoices'
  BY DEF LinksInv, LinksFit
<1>5. LinksFit'
  <2> DEFINE OneFits(q) ==
               /\ \A s \in Paying(job'[q].links) :
                    s \in Invoices' /\ (s \notin contended' => job'[q].links[s] <= Open(s)')
               /\ ~job'[q].named => SumOf(job'[q].links, Sales) <= job'[q].amount
  <2>1. \A q \in Working("collect")' : OneFits(q)
    BY <1>2
  <2>2. QED
    BY <1>3, <1>4, <2>1, Zenon DEF LinksFit, Paying
<1>6. HandsOut'
  BY DEF LinksInv, HandsOut
<1>7. PaidFor'
  <2>1. ASSUME NEW s \in Invoices' \ contended'
        PROVE  sale'[s].paid = sale'[s].down + SumOf(LinkOn(collection', s), Collections)
                                 - sale'[s].repaid
    <3>1. LinkOn(collection', s) = LinkOn(collection, s)
      BY DEF LinkOn
    <3>2. SumOf(LinkOn(collection, s), Collections) \in Nat
      BY <1>0, LinksAre DEF RowsInv, TypeOK
    <3>3. CASE s \in Invoices
      <4>1. sale[s].paid = sale[s].down + SumOf(LinkOn(collection, s), Collections) - sale[s].repaid
        BY <3>3 DEF LinksInv, PaidFor
      <4>2. /\ sale'[s].down = sale[s].down
            /\ sale'[s].paid + sale'[s].repaid = sale[s].paid + sale[s].repaid
        BY <3>3
      <4>3. /\ sale[s].paid \in Int /\ sale[s].repaid \in Int /\ sale[s].down \in Int
            /\ sale'[s].paid \in Int /\ sale'[s].repaid \in Int
        BY <1>0, <1>1, <3>3
      <4> DEFINE sum == SumOf(LinkOn(collection, s), Collections)
      <4>4. sum \in Int /\ sale[s].paid = sale[s].down + sum - sale[s].repaid
        BY <3>2, <4>1
      <4> HIDE DEF sum
      <4>5. sale'[s].paid = sale[s].down + sum - sale'[s].repaid
        BY <4>2, <4>3, <4>4
      <4>6. QED
        BY <3>1, <4>2, <4>5 DEF sum
    <3>4. CASE s \notin Invoices
      <4>1. ASSUME NEW c \in Collections
            PROVE  LinkOn(collection, s)[c] = 0
        <5>1. CASE collection[c] = NoCollection
          BY <5>1 DEF LinkOn
        <5>2. CASE collection[c] # NoCollection
          <6>1. s \notin Paying(collection[c].links)
            BY <3>4, <5>2 DEF LinksInv, LinksFit
          <6>2. collection[c].links[s] \in Nat
            BY <1>0, <5>2 DEF RowsInv, TypeOK, CollectionRecord
          <6>3. collection[c].links[s] = 0
            BY <1>0, <6>1, <6>2 DEF Paying
          <6>4. QED
            BY <5>2, <6>3 DEF LinkOn
        <5>3. QED
          BY <5>1, <5>2
      <4>2. SumOf(LinkOn(collection, s), Collections) = 0
        BY <4>1, CustomerAccountsConstants, SumOfZeros
      <4>3. QED
        BY <1>0, <3>1, <3>4, <4>2
    <3>5. QED
      BY <3>3, <3>4
  <2>2. QED
    BY <2>1 DEF PaidFor
<1>8. QED
  BY <1>5, <1>6, <1>7 DEF LinksInv

LEMMA BeginCollectionKeepsLinks ==
  ASSUME RowsInv, RowsInv', LinksInv, NEW r \in Requests, NEW c \in Collections,
         NEW amount \in Amounts, BeginAnyCollection(r, c, amount)
  PROVE  LinksInv'
<1>1. PICK links : \E named \in BOOLEAN :
        Payable(links, amount, named) /\ BeginCollection(r, c, amount, links, named)
  BY CollectionBegins DEF RowsInv
<1>2. PICK named \in BOOLEAN :
        Payable(links, amount, named) /\ BeginCollection(r, c, amount, links, named)
  BY <1>1
<1> DEFINE j == [op |-> "collect", row |-> c, amount |-> amount, links |-> links,
                 named |-> named]
           others == {Paying(job[q].links) : q \in Working("collect")}
<1>3. /\ j.op = "collect" /\ j.links = links /\ j.named = named /\ j.amount = amount
      /\ job' = [job EXCEPT ![r] = j] /\ job[r] = Idle
      /\ sale' = sale /\ collection' = collection
      /\ contended' = contended \cup (Paying(links) \cap UNION others)
  BY <1>2 DEF BeginCollection
<1> HIDE DEF j, others
<1>4. /\ job'[r] = j /\ r \notin Working("collect")
      /\ \A q \in Working("collect")' : q = r \/ (q \in Working("collect") /\ job'[q] = job[q])
  BY <1>3 DEF RowsInv, TypeOK, Working, Idle
<1>5. Invoices' = Invoices /\ \A s \in Invoices : Open(s)' = Open(s)
  BY <1>3 DEF Invoices, Open
<1>6. contended \subseteq contended'
  BY <1>3
<1>7. ASSUME NEW q \in Working("collect"), NEW s, s \in Paying(links), s \in Paying(job[q].links)
      PROVE  s \in contended'
  <2>1. Paying(job[q].links) \in others
    BY DEF others
  <2>2. s \in UNION others
    BY <1>7, <2>1
  <2>3. QED
    BY <1>3, <1>7, <2>2
<1>8. ASSUME NEW q \in Working("collect")'
      PROVE  /\ \A s \in Paying(job'[q].links) :
                  s \in Invoices' /\ (s \notin contended' => job'[q].links[s] <= Open(s)')
             /\ ~job'[q].named => SumOf(job'[q].links, Sales) <= job'[q].amount
  <2>1. CASE q = r
    BY <1>2, <1>3, <1>4, <1>5, <2>1 DEF Payable
  <2>2. CASE q # r
    BY <1>4, <1>5, <1>6, <2>2 DEF LinksInv, LinksFit
  <2>3. QED
    BY <2>1, <2>2
<1>9. ASSUME NEW q \in Working("collect")', NEW p \in Working("collect")', q # p,
             NEW s, s \in Paying(job'[q].links), s \in Paying(job'[p].links)
      PROVE  s \in contended'
  <2>1. CASE q = r
    BY <1>3, <1>4, <1>7, <1>9, <2>1
  <2>2. CASE p = r
    BY <1>3, <1>4, <1>7, <1>9, <2>2
  <2>3. CASE q # r /\ p # r
    BY <1>4, <1>6, <1>9, <2>3 DEF LinksInv, LinksFit
  <2>4. QED
    BY <2>1, <2>2, <2>3
<1>10. \A a \in Collections : collection'[a] # NoCollection =>
        Paying(collection'[a].links) \subseteq Invoices'
  BY <1>3, <1>5 DEF LinksInv, LinksFit
<1>11. LinksFit'
  <2>1. \A q, p \in Working("collect")' : q # p =>
          Paying(job'[q].links) \cap Paying(job'[p].links) \subseteq contended'
    BY <1>9
  <2> DEFINE OneFits(q) ==
               /\ \A s \in Paying(job'[q].links) :
                    s \in Invoices' /\ (s \notin contended' => job'[q].links[s] <= Open(s)')
               /\ ~job'[q].named => SumOf(job'[q].links, Sales) <= job'[q].amount
  <2>2. \A q \in Working("collect")' : OneFits(q)
    BY <1>8
  <2>3. QED
    BY <1>10, <2>1, <2>2, Zenon DEF LinksFit, Paying
<1>12. HandsOut'
  BY <1>3 DEF LinksInv, HandsOut
<1>13. PaidFor'
  BY <1>3, <1>5, <1>6 DEF LinksInv, PaidFor
<1>14. QED
  BY <1>11, <1>12, <1>13 DEF LinksInv

LEMMA CreateCollectionKeepsLinks ==
  ASSUME RowsInv, RowsInv', LinksInv, NEW r \in Requests, CreateCollection(r)
  PROVE  LinksInv'
<1> DEFINE c == job[r].row
           links == job[r].links
           row == [amount |-> job[r].amount, links |-> links, named |-> job[r].named,
                   deleted |-> FALSE]
<1>1. /\ r \in Working("collect") /\ c \in Collections /\ links \in [Sales -> Nat]
      /\ collection[c] = NoCollection /\ collection' = [collection EXCEPT ![c] = row]
      /\ End(r) /\ contended' = contended /\ job[r].amount \in Nat /\ row \in CollectionRecord
  BY CollectionCommits DEF CollectionRecord
<1>2. row.links = links /\ row.named = job[r].named /\ row.amount = job[r].amount
  OBVIOUS
<1>3. Invoices' = Invoices
  BY CreateCollectionTyped DEF LinksInv
<1>4. \A q \in Working("collect")' : q \in Working("collect") /\ q # r /\ job'[q] = job[q]
  BY <1>1, EndOfJob DEF Working, RowsInv, TypeOK, Idle
<1>5. /\ collection'[c] = row /\ row # NoCollection
      /\ \A a \in Collections \ {c} : collection'[a] = collection[a]
  BY <1>1, CustomerAccountsConstants DEF RowsInv, TypeOK
<1>6. ASSUME NEW s \in Invoices
      PROVE  /\ s \in Sales /\ links[s] \in Nat /\ sale'[s] \in InvoiceRecord
             /\ sale[s].total \in Nat /\ sale[s].paid \in Nat /\ sale[s].down \in Nat
             /\ sale[s].repaid \in Nat
             /\ sale'[s].total = sale[s].total /\ sale'[s].repaid = sale[s].repaid
             /\ sale'[s].down = sale[s].down
             /\ s \notin contended => sale'[s].paid = sale[s].paid + links[s]
             /\ links[s] = 0 => sale'[s].paid = sale[s].paid
  <2>1. s \in Sales /\ sale[s] \in InvoiceRecord /\ sale[s].paid <= sale[s].total
    BY OpenIs DEF Invoices, RowsInv, TypeOK
  <2>2. /\ sale'[s] \in InvoiceRecord /\ sale'[s] = [sale[s] EXCEPT !.paid = sale'[s].paid]
        /\ sale'[s].paid = Least(sale[s].total, sale[s].paid + links[s])
    BY <2>1, CollectionWrites DEF LinksInv
  <2>3. /\ sale[s].total \in Nat /\ sale[s].paid \in Nat /\ links[s] \in Nat
        /\ sale[s].down \in Nat /\ sale[s].repaid \in Nat
    BY <1>1, <2>1 DEF InvoiceRecord
  <2>4. /\ sale'[s].total = sale[s].total /\ sale'[s].repaid = sale[s].repaid
        /\ sale'[s].down = sale[s].down
    <3> DEFINE p == sale'[s].paid
    <3>1. sale'[s] = [sale[s] EXCEPT !.paid = p]
      BY <2>2
    <3> HIDE DEF p
    <3>2. QED
      BY <2>1, <3>1 DEF InvoiceRecord
  <2>5. s \notin contended => links[s] = 0 \/ links[s] <= sale[s].total - sale[s].paid
    <3>1. links[s] > 0 => s \in Paying(job[r].links)
      BY <2>1 DEF Paying
    <3>2. QED
      BY <1>1, <2>3, <3>1 DEF LinksInv, LinksFit, Open
  <2> HIDE DEF links
  <2>6. s \notin contended => sale'[s].paid = sale[s].paid + links[s]
    BY <2>1, <2>2, <2>3, <2>5 DEF Least
  <2>7. links[s] = 0 => sale'[s].paid = sale[s].paid
    BY <2>1, <2>2, <2>3 DEF Least
  <2>8. QED
    BY <2>1, <2>2, <2>3, <2>4, <2>6, <2>7
<1>7. ASSUME NEW q \in Working("collect")'
      PROVE  /\ \A s \in Paying(job'[q].links) :
                  s \in Invoices' /\ (s \notin contended' => job'[q].links[s] <= Open(s)')
             /\ ~job'[q].named => SumOf(job'[q].links, Sales) <= job'[q].amount
  <2>1. q \in Working("collect") /\ q # r /\ job'[q] = job[q]
    BY <1>4
  <2>2. ASSUME NEW s \in Paying(job'[q].links)
        PROVE  s \in Invoices' /\ (s \notin contended' => job'[q].links[s] <= Open(s)')
    <3>1. s \in Paying(job[q].links) /\ s \in Sales
      BY <2>1 DEF Paying
    <3>2. s \in Invoices /\ (s \notin contended => job[q].links[s] <= Open(s))
      BY <2>1, <3>1 DEF LinksInv, LinksFit
    <3>3. ASSUME s \notin contended
          PROVE  links[s] = 0
      <4>1. s \notin Paying(job[r].links)
        BY <1>1, <2>1, <3>1, <3>3 DEF LinksInv, LinksFit
      <4>2. QED
        BY <1>6, <3>1, <3>2, <4>1 DEF Paying
    <3>4. s \notin contended => Open(s)' = Open(s)
      BY <1>6, <3>2, <3>3 DEF Open
    <3>5. QED
      BY <1>1, <1>3, <2>1, <3>2, <3>4
  <2>3. ~job'[q].named => SumOf(job'[q].links, Sales) <= job'[q].amount
    BY <2>1 DEF LinksInv, LinksFit
  <2>4. QED
    BY <2>2, <2>3
<1>8. LinksFit'
  <2>1. \A q, p \in Working("collect")' : q # p =>
          Paying(job'[q].links) \cap Paying(job'[p].links) \subseteq contended'
    BY <1>1, <1>4 DEF LinksInv, LinksFit
  <2>2. \A a \in Collections : collection'[a] # NoCollection =>
          Paying(collection'[a].links) \subseteq Invoices'
    <3>1. Paying(links) \subseteq Invoices
      BY <1>1 DEF LinksInv, LinksFit
    <3>2. QED
      BY <1>2, <1>3, <1>5, <3>1 DEF LinksInv, LinksFit
  <2> DEFINE OneFits(q) ==
               /\ \A s \in Paying(job'[q].links) :
                    s \in Invoices' /\ (s \notin contended' => job'[q].links[s] <= Open(s)')
               /\ ~job'[q].named => SumOf(job'[q].links, Sales) <= job'[q].amount
  <2>3. \A q \in Working("collect")' : OneFits(q)
    BY <1>7
  <2>4. QED
    BY <2>1, <2>2, <2>3, Zenon DEF LinksFit, Paying
<1>9. HandsOut'
  <2>1. ~job[r].named => SumOf(links, Sales) <= job[r].amount
    BY <1>1 DEF LinksInv, LinksFit
  <2> HIDE DEF c, links, row
  <2>2. QED
    BY <1>2, <1>5, <2>1 DEF LinksInv, HandsOut
<1>10. PaidFor'
  <2>1. ASSUME NEW s \in Invoices' \ contended'
        PROVE  sale'[s].paid = sale'[s].down + SumOf(LinkOn(collection', s), Collections)
                                 - sale'[s].repaid
    <3>1. s \in Invoices /\ s \in Sales /\ s \notin contended
      BY <1>1, <1>3, <1>6
    <3>2. /\ collection \in [Collections -> CollectionRecord \cup {NoCollection}]
          /\ collection' \in [Collections -> CollectionRecord \cup {NoCollection}]
      BY DEF RowsInv, TypeOK
    <3> DEFINE old == LinkOn(collection, s)
               new == LinkOn(collection', s)
    <3>3. /\ \A a \in Collections : old[a] \in Nat /\ new[a] \in Nat
          /\ SumOf(old, Collections) \in Nat
      BY <3>1, <3>2, LinksAre
    <3> HIDE DEF c, links, row
    <3>4. old[c] = 0 /\ new[c] = links[s]
      BY <1>1, <1>2, <1>5 DEF LinkOn
    <3>5. \A a \in Collections \ {c} : old[a] = new[a]
      BY <1>5 DEF LinkOn
    <3>6. sale[s].paid = sale[s].down + SumOf(old, Collections) - sale[s].repaid
      BY <3>1 DEF LinksInv, PaidFor
    <3> HIDE DEF old, new
    <3>7. SumOf(new, Collections) = SumOf(old, Collections) + new[c] - old[c]
      <4>1. IsFiniteSet(Collections) /\ c \in Collections
        BY <1>1, CustomerAccountsConstants
      <4>2. \A a \in Collections : old[a] \in Int /\ new[a] \in Int
        BY <3>3
      <4>3. QED
        BY <3>5, <4>1, <4>2, SumChange
    <3> DEFINE sum == SumOf(old, Collections)
    <3>8. sum \in Int /\ SumOf(new, Collections) = sum + links[s]
          /\ sale[s].paid = sale[s].down + sum - sale[s].repaid
      <4>1. links[s] \in Int
        BY <1>6, <3>1 DEF links
      <4>2. QED
        BY <3>3, <3>4, <3>6, <3>7, <4>1
    <3> HIDE DEF sum
    <3>9. /\ links[s] \in Nat /\ sale[s].paid \in Nat /\ sale[s].down \in Nat
          /\ sale[s].repaid \in Nat /\ sale'[s].paid = sale[s].paid + links[s]
          /\ sale'[s].repaid = sale[s].repaid /\ sale'[s].down = sale[s].down
      BY <1>6, <3>1
    <3>10. QED
      BY <3>8, <3>9 DEF new
  <2>2. QED
    BY <2>1 DEF PaidFor
<1>11. QED
  BY <1>8, <1>9, <1>10 DEF LinksInv

LEMMA SalesKeepLinks ==
  ASSUME RowsInv, RowsInv', LinksInv, NEW invoice \in InvoiceRecord, Fresh(invoice),
         Saved(invoice), contended' = contended, collection' = collection,
         \A q \in Requests : job'[q].op = "collect" => job'[q] = job[q]
  PROVE  LinksInv'
<1>1. PICK s \in Sales \ Invoices : /\ sale' = [sale EXCEPT ![s] = invoice]
                                    /\ Invoices' = Invoices \cup {s}
  BY RowAdded DEF RowsInv
<1>2. sale'[s] = invoice /\ \A t \in Invoices : sale'[t] = sale[t]
  BY <1>1 DEF RowsInv, TypeOK, Invoices
<1>3. invoice.paid = invoice.down /\ invoice.repaid = 0
  BY DEF Fresh
<1>4. ASSUME NEW t \in Invoices PROVE sale[t].paid <= sale[t].paid
  <2>1. sale[t].paid \in Int
    BY OpenIs DEF RowsInv, InvoiceRecord
  <2>2. QED
    BY <2>1
<1>5. \A q \in Working("collect")' : q \in Working("collect") /\ job'[q] = job[q]
  BY DEF Working
<1>6. \A t \in Invoices' \ Invoices : sale'[t].paid = sale'[t].down /\ sale'[t].repaid = 0
  BY <1>1, <1>2, <1>3
<1>7. Invoices \subseteq Invoices'
  BY <1>1
<1>8. \A t \in Invoices : /\ sale'[t].total = sale[t].total /\ sale'[t].paid <= sale[t].paid
                          /\ sale'[t].down = sale[t].down
                          /\ sale'[t].paid + sale'[t].repaid = sale[t].paid + sale[t].repaid
  BY <1>2, <1>4
<1>9. \A c \in Collections :
        /\ collection'[c] = NoCollection <=> collection[c] = NoCollection
        /\ collection[c] # NoCollection =>
             /\ collection'[c].links = collection[c].links
             /\ collection'[c].amount = collection[c].amount
             /\ collection'[c].named = collection[c].named
  OBVIOUS
<1>10. QED
  BY <1>5, <1>6, <1>7, <1>8, <1>9, LinksFrame

\* Neither are the invoices paid nor the collections written.
LEMMA OthersKeepLinks ==
  ASSUME RowsInv, RowsInv', LinksInv, Invoices' = Invoices,
         \A s \in Invoices : /\ sale'[s].total = sale[s].total /\ sale'[s].paid = sale[s].paid
                             /\ sale'[s].down = sale[s].down /\ sale'[s].repaid = sale[s].repaid,
         contended' = contended, collection' = collection,
         \A q \in Requests : job'[q].op = "collect" => job'[q] = job[q]
  PROVE  LinksInv'
<1>1. ASSUME NEW s \in Invoices PROVE sale'[s].paid <= sale[s].paid
  <2>1. sale[s].paid \in Int
    BY OpenIs DEF RowsInv, InvoiceRecord
  <2>2. QED
    BY <2>1
<1>2. \A q \in Working("collect")' : q \in Working("collect") /\ job'[q] = job[q]
  BY DEF Working
<1>3. \A s \in Invoices : /\ sale'[s].total = sale[s].total /\ sale'[s].paid <= sale[s].paid
                          /\ sale'[s].down = sale[s].down
                          /\ sale'[s].paid + sale'[s].repaid = sale[s].paid + sale[s].repaid
  BY <1>1
<1>4. \A c \in Collections :
        /\ collection'[c] = NoCollection <=> collection[c] = NoCollection
        /\ collection[c] # NoCollection =>
             /\ collection'[c].links = collection[c].links
             /\ collection'[c].amount = collection[c].amount
             /\ collection'[c].named = collection[c].named
  OBVIOUS
<1>5. QED
  BY <1>2, <1>3, <1>4, LinksFrame

LEMMA RequestsKeepLinks ==
  ASSUME RowsInv, RowsInv', LinksInv, NEW r \in Requests
  PROVE  /\ RollBack(r) => LinksInv'
         /\ \A total \in Totals, paid, wanted \in 0 .. MaxTotal :
              BeginCheckout(r, total, paid, wanted) => LinksInv'
         /\ \A s \in Sales : BeginSaleRedemption(r, s) => LinksInv'
         /\ \A n \in Amounts, gift \in BOOLEAN : BeginDirectRedemption(r, n, gift) => LinksInv'
<1>1. ASSUME NEW j, j.op # "collect", job' = [job EXCEPT ![r] = j],
             sale' = sale, collection' = collection, contended' = contended
      PROVE  LinksInv'
  <2>1. \A q \in Requests : job'[q].op = "collect" => job'[q] = job[q]
    BY <1>1 DEF RowsInv, TypeOK
  <2>2. Invoices' = Invoices
    BY <1>1 DEF Invoices
  <2>3. QED
    BY <1>1, <2>1, <2>2, OthersKeepLinks
<1>2. RollBack(r) => LinksInv'
  BY <1>1 DEF RollBack, End, Idle
<1>3. ASSUME NEW total \in Totals, NEW paid \in 0 .. MaxTotal, NEW wanted \in 0 .. MaxTotal,
             BeginCheckout(r, total, paid, wanted)
      PROVE  LinksInv'
  BY <1>1, <1>3 DEF BeginCheckout
<1>4. ASSUME NEW s \in Sales, BeginSaleRedemption(r, s)
      PROVE  LinksInv'
  BY <1>1, <1>4 DEF BeginSaleRedemption, BeginRedemption
<1>5. ASSUME NEW n \in Amounts, NEW gift \in BOOLEAN, BeginDirectRedemption(r, n, gift)
      PROVE  LinksInv'
  BY <1>1, <1>5 DEF BeginDirectRedemption, BeginRedemption
<1>6. QED
  BY <1>2, <1>3, <1>4, <1>5

LEMMA RedemptionsKeepLinks ==
  ASSUME RowsInv, RowsInv', LinksInv, PromisesFit, NEW r \in Requests,
         RedeemPointsForSale(r) \/ RedeemPoints(r)
  PROVE  LinksInv'
<1>1. job[r].used \in Nat /\ Redeem(r) /\ Invoices' = Invoices
  BY SaleRedeemed, DirectRedeemed
<1>2. \A s \in Invoices : Alike(sale'[s], sale[s])
  BY SaleRedeemedTyped, DirectRedeemedTyped
<1>3. job' = OvertakeCheckouts(r) /\ contended' = contended /\ collection' = collection
  BY <1>1, RedeemWrites
<1>4. \A q \in Requests : job'[q].op = "collect" => job'[q] = job[q]
  BY <1>3, CheckoutsOvertaken DEF Idle
<1>5. QED
  BY <1>1, <1>2, <1>3, <1>4, OthersKeepLinks DEF Alike

LEMMA RestKeepsLinks ==
  ASSUME RowsInv, RowsInv', LinksInv, NEW s \in Sales
  PROVE  /\ AwardPoints(s) => LinksInv'
         /\ \A n \in Amounts : CreateRefundInvoice(s, n) => LinksInv'
<1>1. ASSUME AwardPoints(s)
      PROVE  LinksInv'
  <2> DEFINE row == [sale[s] EXCEPT !.awarded = TRUE]
  <2>1. /\ s \in Invoices /\ row \in InvoiceRecord
        /\ row.paid <= row.total /\ row.refunded <= row.total
        /\ row.paid = sale[s].paid /\ row.repaid = sale[s].repaid
        /\ row.total = sale[s].total /\ row.down = sale[s].down
        /\ sale' = [sale EXCEPT ![s] = row]
        /\ job' = job /\ contended' = contended /\ collection' = collection
    BY <1>1, AwardWrites
  <2> HIDE DEF row
  <2>2. /\ Invoices' = Invoices
        /\ sale'[s] = row /\ \A t \in Invoices \ {s} : sale'[t] = sale[t]
    BY <2>1, RowRewritten
  <2>3. \A t \in Invoices : /\ sale'[t].total = sale[t].total /\ sale'[t].paid = sale[t].paid
                            /\ sale'[t].down = sale[t].down /\ sale'[t].repaid = sale[t].repaid
    BY <2>1, <2>2
  <2>4. QED
    BY <2>1, <2>2, <2>3, OthersKeepLinks
<1>2. ASSUME NEW n \in Amounts, CreateRefundInvoice(s, n)
      PROVE  LinksInv'
  <2> DEFINE back == Least(n, sale[s].paid)
             row == [sale[s] EXCEPT !.refunded = @ + n, !.repaid = @ + back, !.paid = @ - back]
  <2>1. /\ s \in Invoices /\ back \in Nat /\ row \in InvoiceRecord
        /\ row.paid = sale[s].paid - back /\ row.repaid = sale[s].repaid + back
        /\ row.total = sale[s].total /\ row.down = sale[s].down
        /\ row.paid <= row.total /\ row.refunded <= row.total
        /\ sale' = [sale EXCEPT ![s] = row]
        /\ job' = job /\ contended' = contended /\ collection' = collection
    BY <1>2, RefundWrites
  <2> HIDE DEF row, back
  <2>2. /\ Invoices' = Invoices
        /\ sale'[s] = row /\ \A t \in Invoices \ {s} : sale'[t] = sale[t]
    BY <2>1, RowRewritten
  <2>3. ASSUME NEW t \in Invoices
        PROVE  /\ sale'[t].total = sale[t].total /\ sale'[t].paid <= sale[t].paid
               /\ sale'[t].down = sale[t].down
               /\ sale'[t].paid + sale'[t].repaid = sale[t].paid + sale[t].repaid
    <3>1. sale[t].paid \in Int /\ sale[t].repaid \in Int
      BY OpenIs DEF RowsInv, InvoiceRecord
    <3>2. CASE t = s
      BY <2>1, <2>2, <3>1, <3>2
    <3>3. CASE t # s
      BY <2>2, <3>1, <3>3
    <3>4. QED
      BY <3>2, <3>3
  <2>4. \A q \in Working("collect")' : q \in Working("collect") /\ job'[q] = job[q]
    BY <2>1 DEF Working
  <2>5. QED
    BY <2>1, <2>2, <2>3, <2>4, LinksFrame
<1>3. QED
  BY <1>1, <1>2

LEMMA Deleted ==
  ASSUME NEW old \in CollectionRecord
  PROVE  LET new == [old EXCEPT !.deleted = TRUE]
         IN /\ new \in CollectionRecord /\ new.links = old.links
            /\ new.amount = old.amount /\ new.named = old.named
BY DEF CollectionRecord

LEMMA SalesAndDeletionsKeepLinks ==
  ASSUME RowsInv, RowsInv', LinksInv
  PROVE  /\ \A r \in Requests : Checkout(r) => LinksInv'
         /\ \A total \in Totals, paid \in 0 .. MaxTotal : CreateSale(total, paid) => LinksInv'
         /\ \A c \in Collections : DeleteCollection(c) => LinksInv'
<1>1. ASSUME NEW r \in Requests, Checkout(r)
      PROVE  LinksInv'
  <2>1. /\ job[r].invoice \in InvoiceRecord /\ Fresh(job[r].invoice)
    BY <1>1, JobKinds DEF Checkout, RowsInv, TypeOK, Working
  <2>2. /\ Saved(job[r].invoice) /\ End(r)
        /\ collection' = collection /\ contended' = contended
    BY <1>1 DEF Checkout
  <2>3. \A q \in Requests : job'[q].op = "collect" => job'[q] = job[q]
    BY <2>2 DEF End, Idle, RowsInv, TypeOK
  <2>4. QED
    BY <2>1, <2>2, <2>3, SalesKeepLinks
<1>2. ASSUME NEW total \in Totals, NEW paid \in 0 .. MaxTotal, CreateSale(total, paid)
      PROVE  LinksInv'
  <2>1. Invoice(total, paid, 0) \in InvoiceRecord /\ Fresh(Invoice(total, paid, 0))
    BY <1>2, AmountsAre, NewInvoice DEF CreateSale
  <2>2. /\ Saved(Invoice(total, paid, 0)) /\ job' = job
        /\ collection' = collection /\ contended' = contended
    BY <1>2 DEF CreateSale
  <2>3. QED
    BY <2>1, <2>2, SalesKeepLinks
<1>3. ASSUME NEW c \in Collections, DeleteCollection(c)
      PROVE  LinksInv'
  <2>1. /\ sale' = sale /\ job' = job /\ contended' = contended
        /\ collection[c] \in CollectionRecord
        /\ collection' = [collection EXCEPT ![c].deleted = TRUE]
    BY <1>3 DEF DeleteCollection, RowsInv, TypeOK
  <2>2. ASSUME NEW a \in Collections
        PROVE  /\ collection'[a] = NoCollection <=> collection[a] = NoCollection
               /\ collection[a] # NoCollection =>
                    /\ collection'[a].links = collection[a].links
                    /\ collection'[a].amount = collection[a].amount
                    /\ collection'[a].named = collection[a].named
    <3>1. CASE a = c
      <4>1. collection'[a] = [collection[a] EXCEPT !.deleted = TRUE]
        BY <2>1, <3>1 DEF RowsInv, TypeOK
      <4>2. /\ collection'[a] \in CollectionRecord
            /\ collection'[a].links = collection[a].links
            /\ collection'[a].amount = collection[a].amount
            /\ collection'[a].named = collection[a].named
        BY <2>1, <3>1, <4>1, Deleted
      <4>3. QED
        BY <2>1, <3>1, <4>2, CustomerAccountsConstants
    <3>2. CASE a # c
      BY <2>1, <3>2 DEF RowsInv, TypeOK
    <3>3. QED
      BY <3>1, <3>2
  <2>3. Invoices' = Invoices
    BY <2>1 DEF Invoices
  <2>4. ASSUME NEW t \in Invoices PROVE sale[t].paid <= sale[t].paid
    <3>1. sale[t].paid \in Int
      BY OpenIs DEF RowsInv, InvoiceRecord
    <3>2. QED
      BY <3>1
  <2>5. Working("collect")' = Working("collect")
    BY <2>1 DEF Working
  <2>6. QED
    BY <2>1, <2>2, <2>3, <2>4, <2>5, LinksFrame
<1>4. QED
  BY <1>1, <1>2, <1>3

----------------------------------------------------------------------------
(* Points                                                                  *)

\* No redemption begins or ends and no points are taken.
LEMMA PointsFrame ==
  ASSUME RowsInv, RowsInv', PointsInv, points' >= points, tier' = TierOf(points'),
         direct' = direct, overdrawn' = overdrawn, Invoices' = Invoices,
         \A s \in Invoices :
           /\ sale'[s].planned = sale[s].planned /\ sale'[s].used = sale[s].used
           /\ sale'[s].redeemed = sale[s].redeemed /\ sale'[s].overtaken = sale[s].overtaken,
         \A q \in Requests :
           job'[q].op \in {"checkout", "sale_points", "direct"} => job'[q] = job[q]
  PROVE  PointsInv'
<1>0. Redeemable \in Int /\ Redeemable' \in Int /\ Redeemable <= Redeemable'
  <2>1. points \in Nat /\ points' \in Nat
    BY DEF RowsInv, TypeOK
  <2>2. Redeemable = points - MinPointsReserve /\ Redeemable' = points' - MinPointsReserve
    BY DEF Redeemable
  <2>3. \A a, b, m \in Nat : b >= a => a - m \in Int /\ b - m \in Int /\ a - m <= b - m
    OBVIOUS
  <2>4. MinPointsReserve \in Nat /\ points' >= points
    BY Limits
  <2>5. QED
    BY <2>1, <2>2, <2>3, <2>4, Zenon
<1>1. ASSUME NEW n \in Nat, Promised(n) PROVE PromisedFrom(n, Redeemable')
  BY <1>0, <1>1 DEF Promised, PromisedFrom
<1>2. /\ \A q \in Working("checkout")' : q \in Working("checkout") /\ job'[q] = job[q]
      /\ \A q \in Working("sale_points")' : q \in Working("sale_points") /\ job'[q] = job[q]
      /\ \A q \in Redeeming' : q \in Redeeming /\ job'[q] = job[q]
  BY DEF Working, Redeeming
<1>3. ASSUME NEW s \in Invoices, ~sale'[s].redeemed, ~sale'[s].overtaken
      PROVE  PromisedFrom(sale'[s].planned, Redeemable')
  <2>1. Promised(sale[s].planned) /\ sale'[s].planned = sale[s].planned
    BY <1>3 DEF PointsInv, PromisesFit
  <2>2. sale[s].planned \in Nat
    BY OpenIs DEF RowsInv, InvoiceRecord
  <2>3. QED
    BY <1>1, <2>1, <2>2
<1>4. ASSUME NEW q \in Working("checkout")', ~job'[q].invoice.redeemed, ~job'[q].invoice.overtaken
      PROVE  PromisedFrom(job'[q].invoice.planned, Redeemable')
  <2>1. q \in Working("checkout") /\ job'[q] = job[q] /\ Promised(job[q].invoice.planned)
    BY <1>2, <1>4 DEF PointsInv, PromisesFit
  <2>2. job[q].invoice \in InvoiceRecord
    BY <2>1, JobKinds DEF RowsInv, TypeOK, Working
  <2>3. job[q].invoice.planned \in Nat
    BY <2>2 DEF InvoiceRecord
  <2>4. QED
    BY <1>1, <2>1, <2>3
<1>5. PromisesFit'
  <2>1. /\ \A s \in Invoices : ~sale'[s].redeemed /\ ~sale'[s].overtaken =>
                                 PromisedFrom(sale'[s].planned, Redeemable')
        /\ \A q \in Working("checkout")' :
             ~job'[q].invoice.redeemed /\ ~job'[q].invoice.overtaken =>
               PromisedFrom(job'[q].invoice.planned, Redeemable')
    BY <1>3, <1>4
  <2>2. \A q \in Working("sale_points")' :
          /\ job'[q].sale \in Invoices' /\ ~sale'[job'[q].sale].redeemed
          /\ ~sale'[job'[q].sale].overtaken => job'[q].used = sale'[job'[q].sale].planned
    BY <1>2 DEF PointsInv, PromisesFit
  <2>3. \A q, p \in Working("sale_points")' : job'[q].sale = job'[p].sale => q = p
    BY <1>2 DEF PointsInv, PromisesFit
  <2>4. QED
    BY <2>1, <2>2, <2>3 DEF PromisesFit, Promised
<1>6. ReserveFits'
  <2>1. ASSUME NEW q \in Redeeming, job[q].used <= Redeemable
        PROVE  job[q].used <= Redeemable'
    <3>1. job[q].used \in Nat
      BY JobKinds DEF RowsInv, TypeOK, Redeeming, Working
    <3>2. QED
      BY <1>0, <2>1, <3>1
  <2>2. QED
    BY <1>2, <2>1 DEF PointsInv, ReserveFits
<1>7. PointsPaidFor'
  <2>1. \A s \in Invoices : sale'[s].redeemed /\ ~sale'[s].overtaken =>
                              sale'[s].used = sale'[s].planned
    BY DEF PointsInv, PointsPaidFor
  <2>2. (direct' > 0 \/ \E s \in Invoices : sale'[s].used > 0) /\ ~overdrawn' =>
          points' >= MinPointsReserve
    <3>1. (direct' > 0 \/ \E s \in Invoices : sale'[s].used > 0) /\ ~overdrawn' =>
            points >= MinPointsReserve
      BY DEF PointsInv, PointsPaidFor
    <3>2. QED
      BY <3>1, Limits DEF RowsInv, TypeOK
  <2>3. QED
    BY <2>1, <2>2 DEF PointsPaidFor
<1>8. QED
  BY <1>5, <1>6, <1>7 DEF PointsInv

LEMMA NewRowKeepsPoints ==
  ASSUME RowsInv, RowsInv', PointsInv, NEW invoice \in InvoiceRecord, Fresh(invoice),
         Saved(invoice), UNCHANGED <<points, tier, direct, overdrawn>>,
         ~invoice.redeemed /\ ~invoice.overtaken => Promised(invoice.planned),
         \A q \in Requests :
           job'[q].op \in {"checkout", "sale_points", "direct"} => job'[q] = job[q]
  PROVE  PointsInv'
<1>1. PICK s \in Sales \ Invoices : /\ sale' = [sale EXCEPT ![s] = invoice]
                                    /\ Invoices' = Invoices \cup {s}
  BY RowAdded DEF RowsInv
<1>2. sale'[s] = invoice /\ \A t \in Invoices : sale'[t] = sale[t]
  BY <1>1 DEF RowsInv, TypeOK, Invoices
<1>3. /\ \A q \in Working("checkout")' : q \in Working("checkout") /\ job'[q] = job[q]
      /\ \A q \in Working("sale_points")' : q \in Working("sale_points") /\ job'[q] = job[q]
      /\ \A q \in Redeeming' : q \in Redeeming /\ job'[q] = job[q]
  BY DEF Working, Redeeming
<1>4. Redeemable' = Redeemable /\ \A n : Promised(n) = PromisedFrom(n, Redeemable')
  BY DEF Redeemable, Promised, PromisedFrom
<1>5. PromisesFit'
  <2>1. \A t \in Invoices' : ~sale'[t].redeemed /\ ~sale'[t].overtaken =>
                               Promised(sale'[t].planned)
    BY <1>1, <1>2 DEF PointsInv, PromisesFit
  <2>2. \A q \in Working("checkout")' :
          ~job'[q].invoice.redeemed /\ ~job'[q].invoice.overtaken =>
            Promised(job'[q].invoice.planned)
    BY <1>3 DEF PointsInv, PromisesFit
  <2>3. \A q \in Working("sale_points")' :
          /\ job'[q].sale \in Invoices' /\ ~sale'[job'[q].sale].redeemed
          /\ ~sale'[job'[q].sale].overtaken => job'[q].used = sale'[job'[q].sale].planned
    BY <1>1, <1>2, <1>3 DEF PointsInv, PromisesFit
  <2>4. \A q, p \in Working("sale_points")' : job'[q].sale = job'[p].sale => q = p
    BY <1>3 DEF PointsInv, PromisesFit
  <2>5. QED
    BY <1>4, <2>1, <2>2, <2>3, <2>4 DEF PromisesFit, Promised
<1>6. ReserveFits'
  BY <1>3, <1>4 DEF PointsInv, ReserveFits
<1>7. PointsPaidFor'
  <2>1. \A t \in Invoices' : sale'[t].redeemed /\ ~sale'[t].overtaken =>
                               sale'[t].used = sale'[t].planned
    BY <1>1, <1>2 DEF PointsInv, PointsPaidFor, Fresh
  <2>2. (\E t \in Invoices' : sale'[t].used > 0) => \E t \in Invoices : sale[t].used > 0
    BY <1>1, <1>2 DEF Fresh
  <2>3. QED
    BY <2>1, <2>2 DEF PointsInv, PointsPaidFor
<1>8. QED
  BY <1>5, <1>6, <1>7 DEF PointsInv

LEMMA SalesKeepPoints ==
  ASSUME RowsInv, RowsInv', PointsInv
  PROVE  /\ \A r \in Requests : Checkout(r) => PointsInv'
         /\ \A total \in Totals, paid \in 0 .. MaxTotal : CreateSale(total, paid) => PointsInv'
<1>1. ASSUME NEW r \in Requests, Checkout(r)
      PROVE  PointsInv'
  <2>1. /\ job[r].invoice \in InvoiceRecord /\ Fresh(job[r].invoice)
        /\ r \in Working("checkout")
    BY <1>1, JobKinds DEF Checkout, RowsInv, TypeOK, Working
  <2>2. /\ Saved(job[r].invoice) /\ End(r)
        /\ UNCHANGED <<points, tier, direct, overdrawn>>
    BY <1>1 DEF Checkout, account
  <2>3. ~job[r].invoice.redeemed /\ ~job[r].invoice.overtaken => Promised(job[r].invoice.planned)
    BY <2>1 DEF PointsInv, PromisesFit
  <2>4. \A q \in Requests :
          job'[q].op \in {"checkout", "sale_points", "direct"} => job'[q] = job[q]
    BY <2>2 DEF End, Idle, RowsInv, TypeOK
  <2>5. QED
    BY <2>1, <2>2, <2>3, <2>4, NewRowKeepsPoints
<1>2. ASSUME NEW total \in Totals, NEW paid \in 0 .. MaxTotal, CreateSale(total, paid)
      PROVE  PointsInv'
  <2>1. Invoice(total, paid, 0) \in InvoiceRecord /\ Fresh(Invoice(total, paid, 0))
    BY <1>2, AmountsAre, NewInvoice DEF CreateSale
  <2>2. /\ Saved(Invoice(total, paid, 0)) /\ job' = job
        /\ UNCHANGED <<points, tier, direct, overdrawn>>
    BY <1>2 DEF CreateSale, account
  <2>3. Invoice(total, paid, 0).redeemed
    BY DEF Invoice
  <2>4. QED
    BY <2>1, <2>2, <2>3, NewRowKeepsPoints
<1>3. QED
  BY <1>1, <1>2

LEMMA RestKeepsPoints ==
  ASSUME RowsInv, RowsInv', PointsInv
  PROVE  /\ \A r \in Requests : RollBack(r) => PointsInv'
         /\ \A r \in Requests, c \in Collections, n \in Amounts :
              BeginAnyCollection(r, c, n) => PointsInv'
         /\ \A r \in Requests : LinksFit /\ CreateCollection(r) => PointsInv'
         /\ \A c \in Collections : DeleteCollection(c) => PointsInv'
         /\ \A s \in Sales : AwardPoints(s) => PointsInv'
         /\ \A s \in Sales, n \in Amounts : CreateRefundInvoice(s, n) => PointsInv'
<1> DEFINE SameRow(s) ==
             /\ sale'[s].planned = sale[s].planned /\ sale'[s].used = sale[s].used
             /\ sale'[s].redeemed = sale[s].redeemed /\ sale'[s].overtaken = sale[s].overtaken
           SameJobs == \A q \in Requests :
             job'[q].op \in {"checkout", "sale_points", "direct"} => job'[q] = job[q]
<1>1. points >= points /\ tier = TierOf(points)
  <2>1. points \in Nat
    BY DEF RowsInv, TypeOK
  <2>2. QED
    BY <2>1 DEF PointsInv, PointsPaidFor
<1>2. ASSUME UNCHANGED <<points, tier, direct, overdrawn>>, Invoices' = Invoices,
             \A s \in Invoices : SameRow(s), SameJobs
      PROVE  PointsInv'
  BY <1>1, <1>2, PointsFrame
<1>3. ASSUME UNCHANGED <<points, tier, direct, overdrawn>>, sale' = sale, SameJobs
      PROVE  PointsInv'
  BY <1>2, <1>3 DEF Invoices
<1>4. ASSUME NEW r \in Requests, RollBack(r)
      PROVE  PointsInv'
  BY <1>3, <1>4 DEF RollBack, End, Idle, account, RowsInv, TypeOK
<1>5. ASSUME NEW r \in Requests, NEW c \in Collections, NEW n \in Amounts,
             BeginAnyCollection(r, c, n)
      PROVE  PointsInv'
  <2>1. ASSUME NEW links, NEW named, BeginCollection(r, c, n, links, named)
        PROVE  PointsInv'
    BY <1>3, <2>1 DEF BeginCollection, account, RowsInv, TypeOK
  <2>2. QED
    BY <1>5, <2>1, CollectionBegins DEF RowsInv
<1>6. ASSUME NEW r \in Requests, LinksFit, CreateCollection(r)
      PROVE  PointsInv'
  <2>1. Invoices' = Invoices /\ UNCHANGED <<points, tier, direct, overdrawn>> /\ End(r)
    BY <1>6, CreateCollectionTyped, CollectionCommits
  <2>2. ASSUME NEW s \in Invoices PROVE SameRow(s)
    <3>1. s \in Sales /\ sale[s] \in InvoiceRecord
      BY OpenIs DEF Invoices, RowsInv
    <3>2. sale'[s] = [sale[s] EXCEPT !.paid = sale'[s].paid]
      BY <1>6, <3>1, CollectionWrites
    <3> DEFINE p == sale'[s].paid
    <3>3. sale'[s] = [sale[s] EXCEPT !.paid = p]
      BY <3>2
    <3> HIDE DEF p
    <3>4. QED
      BY <3>1, <3>3 DEF InvoiceRecord
  <2>3. SameJobs
    BY <2>1 DEF End, Idle, RowsInv, TypeOK
  <2>4. QED
    BY <1>2, <2>1, <2>2, <2>3
<1>7. ASSUME NEW c \in Collections, DeleteCollection(c)
      PROVE  PointsInv'
  BY <1>3, <1>7 DEF DeleteCollection, account
<1>8. ASSUME NEW s \in Sales, AwardPoints(s)
      PROVE  PointsInv'
  <2> DEFINE row == [sale[s] EXCEPT !.awarded = TRUE]
  <2>1. /\ s \in Invoices /\ row \in InvoiceRecord
        /\ row.planned = sale[s].planned /\ row.used = sale[s].used
        /\ row.redeemed = sale[s].redeemed /\ row.overtaken = sale[s].overtaken
        /\ row.paid <= row.total /\ row.refunded <= row.total
        /\ sale' = [sale EXCEPT ![s] = row]
        /\ points' >= points /\ tier' = TierOf(points')
        /\ UNCHANGED <<job, direct, overdrawn>>
    BY <1>8, AwardWrites
  <2> HIDE DEF row
  <2>2. /\ Invoices' = Invoices
        /\ sale'[s] = row /\ \A t \in Invoices \ {s} : sale'[t] = sale[t]
    BY <2>1, RowRewritten
  <2>3. \A t \in Invoices : SameRow(t)
    BY <2>1, <2>2
  <2>4. QED
    BY <2>1, <2>2, <2>3, PointsFrame
<1>9. ASSUME NEW s \in Sales, NEW n \in Amounts, CreateRefundInvoice(s, n)
      PROVE  PointsInv'
  <2> DEFINE back == Least(n, sale[s].paid)
             row == [sale[s] EXCEPT !.refunded = @ + n, !.repaid = @ + back, !.paid = @ - back]
  <2>1. /\ s \in Invoices /\ row \in InvoiceRecord
        /\ row.planned = sale[s].planned /\ row.used = sale[s].used
        /\ row.redeemed = sale[s].redeemed /\ row.overtaken = sale[s].overtaken
        /\ row.paid <= row.total /\ row.refunded <= row.total
        /\ sale' = [sale EXCEPT ![s] = row]
        /\ UNCHANGED <<points, tier, job, direct, overdrawn>>
    BY <1>9, RefundWrites
  <2> HIDE DEF row, back
  <2>2. /\ Invoices' = Invoices
        /\ sale'[s] = row /\ \A t \in Invoices \ {s} : sale'[t] = sale[t]
    BY <2>1, RowRewritten
  <2>3. \A t \in Invoices : SameRow(t)
    BY <2>1, <2>2
  <2>4. QED
    BY <1>2, <2>1, <2>2, <2>3
<1>10. QED
  BY <1>4, <1>5, <1>6, <1>7, <1>8, <1>9

\* A request goes on to j; rows and points rest.
LEMMA PromiseMade ==
  ASSUME RowsInv, RowsInv', PointsInv, UNCHANGED <<sale, points, tier, direct>>,
         NEW r \in Requests, job[r] = Idle, NEW j \in JobRecord, job' = [job EXCEPT ![r] = j],
         j.op = "checkout" /\ j.invoice.planned > 0 => Promised(j.invoice.planned),
         j.op = "sale_points" =>
           /\ j.sale \in Invoices /\ ~sale[j.sale].redeemed
           /\ (~sale[j.sale].overtaken => j.used = sale[j.sale].planned)
           /\ \A q \in Working("sale_points") : job[q].sale # j.sale,
         j.op \in {"sale_points", "direct"} =>
           overdrawn' = (overdrawn \/ Redeeming # {}) /\ j.used <= Redeemable,
         j.op \notin {"sale_points", "direct"} => overdrawn' = overdrawn
  PROVE  PointsInv'
<1>1. Invoices' = Invoices
  BY DEF Invoices
<1>2. /\ job'[r] = j /\ r \notin Working("checkout") \cup Redeeming
      /\ \A q \in Requests \ {r} : job'[q] = job[q]
  BY DEF RowsInv, TypeOK, Working, Redeeming, Idle
<1>3. Redeemable' = Redeemable /\ \A n : Promised(n) = PromisedFrom(n, Redeemable')
  BY DEF Redeemable, Promised, PromisedFrom
<1>4. PromisesFit'
  <2>1. \A s \in Invoices' : ~sale'[s].redeemed /\ ~sale'[s].overtaken =>
                               Promised(sale'[s].planned)
    BY <1>1 DEF PointsInv, PromisesFit
  <2>2. ASSUME NEW q \in Working("checkout")', ~job'[q].invoice.redeemed,
               ~job'[q].invoice.overtaken
        PROVE  Promised(job'[q].invoice.planned)
    <3>1. CASE q = r
      <4>1. j.op = "checkout" /\ job'[q] = j
        BY <1>2, <3>1 DEF Working
      <4>2. j.invoice \in InvoiceRecord /\ Fresh(j.invoice)
        BY <4>1, JobKinds DEF RowsInv
      <4>3. j.invoice.planned > 0
        BY <2>2, <4>1, <4>2 DEF Fresh, InvoiceRecord
      <4>4. QED
        BY <4>1, <4>3
    <3>2. CASE q # r
      BY <1>2, <2>2, <3>2 DEF PointsInv, PromisesFit, Working
    <3>3. QED
      BY <3>1, <3>2
  <2>3. \A q \in Working("sale_points")' :
          /\ job'[q].sale \in Invoices' /\ ~sale'[job'[q].sale].redeemed
          /\ ~sale'[job'[q].sale].overtaken => job'[q].used = sale'[job'[q].sale].planned
    BY <1>1, <1>2 DEF PointsInv, PromisesFit, Working
  <2>4. \A q, p \in Working("sale_points")' : job'[q].sale = job'[p].sale => q = p
    BY <1>2 DEF PointsInv, PromisesFit, Working
  <2>5. QED
    BY <1>3, <2>1, <2>2, <2>3, <2>4 DEF PromisesFit, Promised
<1>5. ReserveFits'
  <2> SUFFICES ASSUME ~overdrawn'
               PROVE  /\ \A q, p \in Redeeming' : q = p
                      /\ \A q \in Redeeming' : job'[q].used <= Redeemable'
    BY DEF ReserveFits
  <2>1. CASE j.op \in {"sale_points", "direct"}
    <3>1. Redeeming = {}
      BY <2>1
    <3>2. \A q \in Redeeming' : q = r
      BY <1>2, <3>1 DEF Redeeming, Working
    <3>3. QED
      BY <1>2, <1>3, <2>1, <3>2
  <2>2. CASE j.op \notin {"sale_points", "direct"}
    <3>1. \A q \in Redeeming' : q \in Redeeming /\ job'[q] = job[q]
      BY <1>2, <2>2 DEF Redeeming, Working
    <3>2. QED
      BY <1>3, <2>2, <3>1 DEF PointsInv, ReserveFits
  <2>3. QED
    BY <2>1, <2>2
<1>6. PointsPaidFor'
  <2>1. ~overdrawn' => ~overdrawn
    BY Zenon
  <2>2. QED
    BY <1>1, <2>1 DEF PointsInv, PointsPaidFor
<1>7. QED
  BY <1>4, <1>5, <1>6 DEF PointsInv

LEMMA BeginningsKeepPoints ==
  ASSUME RowsInv, RowsInv', PointsInv, NEW r \in Requests
  PROVE  /\ \A total \in Totals, paid, wanted \in 0 .. MaxTotal :
              BeginCheckout(r, total, paid, wanted) => PointsInv'
         /\ \A s \in Sales : BeginSaleRedemption(r, s) => PointsInv'
         /\ \A n \in Amounts, gift \in BOOLEAN : BeginDirectRedemption(r, n, gift) => PointsInv'
<1>1. ASSUME NEW total \in Totals, NEW paid \in 0 .. MaxTotal, NEW wanted \in 0 .. MaxTotal,
             BeginCheckout(r, total, paid, wanted)
      PROVE  PointsInv'
  <2> DEFINE planned == Usable(wanted)
             invoice == Invoice(total - planned, paid, planned)
             j == [op |-> "checkout", invoice |-> invoice]
  <2>1. /\ planned > 0 => Promised(planned)
        /\ j \in JobRecord /\ job[r] = Idle /\ job' = [job EXCEPT ![r] = j]
        /\ UNCHANGED <<sale, points, tier, direct, overdrawn>>
    BY <1>1, CheckoutPlans
  <2>2. j.op = "checkout" /\ j.invoice.planned = planned
    BY DEF Invoice
  <2> HIDE DEF j, invoice, planned
  <2>3. QED
    BY <2>1, <2>2, PromiseMade
<1>2. ASSUME NEW s \in Sales, BeginSaleRedemption(r, s)
      PROVE  PointsInv'
  <2> DEFINE used == Usable(sale[s].planned)
             j == [op |-> "sale_points", sale |-> s, used |-> used]
  <2>1. s \in Invoices /\ sale[s].planned \in Nat /\ j \in JobRecord
    BY <1>2, SaleRedemptionBegins
  <2>2. /\ ~sale[s].redeemed /\ \A q \in Working("sale_points") : job[q].sale # s
        /\ job[r] = Idle /\ j.used > 0 /\ job' = [job EXCEPT ![r] = j]
        /\ overdrawn' = (overdrawn \/ Redeeming # {})
        /\ UNCHANGED <<sale, points, tier, direct>>
    BY <1>2 DEF BeginSaleRedemption, BeginRedemption, account
  <2>3. j.op = "sale_points" /\ j.sale = s /\ j.used = used
    OBVIOUS
  <2>4. used <= Redeemable
    BY <2>1, <2>2, <2>3, UsableIs DEF RowsInv, Promised, PromisedFrom
  <2>5. ~sale[s].overtaken => used = sale[s].planned
    BY <2>1, <2>2, UsableIs DEF RowsInv, PointsInv, PromisesFit
  <2> HIDE DEF j, used
  <2>6. QED
    BY <2>1, <2>2, <2>3, <2>4, <2>5, PromiseMade
<1>3. ASSUME NEW n \in Amounts, NEW gift \in BOOLEAN, BeginDirectRedemption(r, n, gift)
      PROVE  PointsInv'
  <2> DEFINE used == Usable(n)
             j == [op |-> "direct", used |-> used]
  <2>1. n \in Nat /\ j \in JobRecord
    BY <1>3, AmountsAre, DirectRedemptionBegins
  <2>2. /\ job[r] = Idle /\ j.used > 0 /\ job' = [job EXCEPT ![r] = j]
        /\ overdrawn' = (overdrawn \/ Redeeming # {})
        /\ UNCHANGED <<sale, points, tier, direct>>
    BY <1>3 DEF BeginDirectRedemption, BeginRedemption, account
  <2>3. j.op = "direct" /\ j.used = used
    OBVIOUS
  <2>4. used <= Redeemable
    BY <2>1, <2>2, <2>3, UsableIs DEF RowsInv, Promised, PromisedFrom
  <2> HIDE DEF j, used
  <2>5. QED
    BY <2>1, <2>2, <2>3, <2>4, PromiseMade
<1>4. QED
  BY <1>1, <1>2, <1>3

\* A redemption takes its points, of a sale or without one, and overtakes the other
\* promises.
LEMMA PointsTaken ==
  ASSUME RowsInv, RowsInv', PointsInv, NEW r \in Redeeming, Redeem(r), Invoices' = Invoices,
         direct' \in Nat,
         \A s \in Invoices :
           \/ sale'[s].redeemed /\ (~sale'[s].overtaken => sale'[s].used = sale'[s].planned)
           \/ ~sale'[s].redeemed /\ sale'[s].overtaken,
         \A q \in Working("sale_points") : q # r =>
           ~sale'[job[q].sale].redeemed /\ sale'[job[q].sale].overtaken
  PROVE  PointsInv'
<1>1. r \in Requests /\ job[r].used \in Nat
  BY JobKinds DEF RowsInv, TypeOK, Redeeming, Working
<1>2. /\ points' = points - job[r].used /\ tier' = TierOf(points')
      /\ job' = OvertakeCheckouts(r) /\ overdrawn' = overdrawn
  BY <1>1, RedeemWrites
<1>3. Idle.op = "none"
  BY DEF Idle
<1>4. ASSUME NEW q \in Working("checkout")'
      PROVE  ~job'[q].invoice.redeemed => job'[q].invoice.overtaken
  <2>1. q \in Requests \ {r} /\ job[q].op = "checkout"
    BY <1>1, <1>2, <1>3, CheckoutsOvertaken DEF Working
  <2>2. QED
    BY <1>1, <1>2, <2>1, CheckoutsOvertaken
<1>5. ASSUME NEW q \in Working("sale_points")'
      PROVE  q \in Working("sale_points") /\ q # r /\ job'[q] = job[q]
  <2>1. q \in Requests \ {r} /\ job[q].op = "sale_points"
    BY <1>1, <1>2, <1>3, CheckoutsOvertaken DEF Working
  <2>2. QED
    BY <1>1, <1>2, <2>1, CheckoutsOvertaken DEF Working
<1>6. ASSUME NEW q \in Redeeming'
      PROVE  q \in Redeeming /\ q # r
  <2>1. q \in Requests \ {r} /\ job'[q].op = job[q].op
    BY <1>1, <1>2, <1>3, CheckoutsOvertaken DEF Working, Redeeming
  <2>2. QED
    BY <2>1 DEF Working, Redeeming
<1>7. PromisesFit'
  <2>1. \A s \in Invoices' : ~(~sale'[s].redeemed /\ ~sale'[s].overtaken)
    OBVIOUS
  <2>2. \A q \in Working("checkout")' :
          ~(~job'[q].invoice.redeemed /\ ~job'[q].invoice.overtaken)
    BY <1>4
  <2>3. \A q \in Working("sale_points")' :
          /\ job'[q].sale \in Invoices' /\ ~sale'[job'[q].sale].redeemed
          /\ sale'[job'[q].sale].overtaken
    BY <1>5 DEF PointsInv, PromisesFit
  <2>4. \A q, p \in Working("sale_points")' : job'[q].sale = job'[p].sale => q = p
    BY <1>5 DEF PointsInv, PromisesFit
  <2>5. QED
    BY <2>1, <2>2, <2>3, <2>4 DEF PromisesFit
<1>8. ReserveFits'
  <2>1. ~overdrawn' => Redeeming' = {}
    BY <1>2, <1>6 DEF PointsInv, ReserveFits
  <2>2. QED
    BY <2>1 DEF ReserveFits
<1>9. PointsPaidFor'
  <2>1. \A s \in Invoices' : sale'[s].redeemed /\ ~sale'[s].overtaken =>
                               sale'[s].used = sale'[s].planned
    OBVIOUS
  <2>2. ~overdrawn' => points' >= MinPointsReserve
    <3>1. ~overdrawn' => job[r].used <= points - MinPointsReserve
      BY <1>2 DEF PointsInv, ReserveFits, Redeemable
    <3>2. points \in Nat
      BY DEF RowsInv, TypeOK
    <3>3. QED
      BY <1>1, <1>2, <3>1, <3>2, Limits
  <2>3. QED
    BY <1>2, <2>1, <2>2 DEF PointsPaidFor
<1>10. QED
  BY <1>7, <1>8, <1>9 DEF PointsInv

LEMMA RedemptionsKeepPoints ==
  ASSUME RowsInv, RowsInv', PointsInv, NEW r \in Requests
  PROVE  /\ RedeemPointsForSale(r) => PointsInv'
         /\ RedeemPoints(r) => PointsInv'
<1>1. PromisesFit
  BY DEF PointsInv
<1>2. ASSUME RedeemPointsForSale(r)
      PROVE  PointsInv'
  <2> DEFINE s == job[r].sale
  <2>1. /\ s \in Invoices /\ ~sale[s].redeemed /\ r \in Working("sale_points")
        /\ sale'[s].redeemed /\ sale'[s].used = job[r].used
        /\ sale'[s].overtaken = sale[s].overtaken /\ sale'[s].planned = sale[s].planned
        /\ \A t \in Sales \ {s} : sale'[t] = Overtake(s)[t]
        /\ Invoices' = Invoices /\ Redeem(r) /\ direct' = direct
    BY <1>1, <1>2, SaleRedeemed DEF Alike
  <2>2. ~sale[s].overtaken => sale'[s].used = sale'[s].planned
    BY <2>1 DEF PointsInv, PromisesFit
  <2> HIDE DEF s
  <2>3. ASSUME NEW t \in Invoices, t # s
        PROVE  \/ sale[t].redeemed /\ sale'[t] = sale[t]
               \/ ~sale[t].redeemed /\ ~sale'[t].redeemed /\ sale'[t].overtaken
    <3>1. sale'[t] = Overtake(s)[t]
      BY <2>1, <2>3 DEF Invoices
    <3>2. CASE sale[t].redeemed
      BY <3>1, <3>2, OvertakeIs DEF RowsInv
    <3>3. CASE ~sale[t].redeemed
      <4>1. Overtake(s)[t].overtaken /\ Overtake(s)[t].redeemed = sale[t].redeemed
        BY <2>3, <3>3, OvertakeIs DEF RowsInv
      <4>2. QED
        BY <3>1, <3>3, <4>1
    <3>4. QED
      BY <3>2, <3>3
  <2>4. ASSUME NEW t \in Invoices
        PROVE  \/ sale'[t].redeemed /\ (~sale'[t].overtaken => sale'[t].used = sale'[t].planned)
               \/ ~sale'[t].redeemed /\ sale'[t].overtaken
    <3>1. CASE t = s
      BY <2>1, <2>2, <3>1
    <3>2. CASE t # s
      BY <2>3, <3>2 DEF PointsInv, PointsPaidFor
    <3>3. QED
      BY <3>1, <3>2
  <2>5. ASSUME NEW q \in Working("sale_points"), q # r
        PROVE  ~sale'[job[q].sale].redeemed /\ sale'[job[q].sale].overtaken
    <3>1. job[q].sale \in Invoices /\ ~sale[job[q].sale].redeemed /\ job[q].sale # s
      BY <2>1, <2>5 DEF PointsInv, PromisesFit, s
    <3>2. QED
      BY <2>3, <3>1
  <2>6. r \in Redeeming /\ direct' \in Nat
    BY <2>1 DEF Redeeming, RowsInv, TypeOK
  <2>7. QED
    BY <2>1, <2>4, <2>5, <2>6, PointsTaken
<1>3. ASSUME RedeemPoints(r)
      PROVE  PointsInv'
  <2>1. /\ r \in Working("direct") /\ sale' = Overtake(NoSale)
        /\ Invoices' = Invoices /\ Redeem(r) /\ direct' = direct + 1
    BY <1>3, DirectRedeemed
  <2>2. ASSUME NEW t \in Invoices
        PROVE  \/ sale[t].redeemed /\ sale'[t] = sale[t]
               \/ ~sale[t].redeemed /\ ~sale'[t].redeemed /\ sale'[t].overtaken
    <3>1. t # NoSale
      BY CustomerAccountsConstants DEF Invoices
    <3>2. QED
      BY <2>1, <3>1, OvertakeIs DEF RowsInv
  <2>3. \A t \in Invoices :
          \/ sale'[t].redeemed /\ (~sale'[t].overtaken => sale'[t].used = sale'[t].planned)
          \/ ~sale'[t].redeemed /\ sale'[t].overtaken
    BY <2>2 DEF PointsInv, PointsPaidFor
  <2>4. \A q \in Working("sale_points") : ~sale'[job[q].sale].redeemed /\ sale'[job[q].sale].overtaken
    BY <2>2 DEF PointsInv, PromisesFit
  <2>5. r \in Redeeming /\ direct' \in Nat
    BY <2>1 DEF Redeeming, RowsInv, TypeOK
  <2>6. QED
    BY <2>1, <2>3, <2>4, <2>5, PointsTaken
<1>4. QED
  BY <1>2, <1>3

----------------------------------------------------------------------------
(* The invariant and the theorems                                          *)

LEMMA AccountInitially ==
  ASSUME Init
  PROVE  AccountInv
<1>1. Invoices = {}
  BY DEF Init, Invoices
<1>2. \A op \in {"checkout", "collect", "sale_points", "direct"} : Working(op) = {}
  BY DEF Init, Working, Idle
<1>3. RowsInv
  <2>1. Invoices = 1 .. 0 /\ 0 \in 0 .. Cardinality(Sales)
    BY <1>1, SalesFinite
  <2>2. Numbered
    BY <2>1 DEF Numbered
  <2>3. Idle \in JobRecord
    BY DEF JobRecord
  <2>4. TypeOK
    BY <1>1, <2>3 DEF TypeOK, Init
  <2>5. QED
    BY <1>2, <2>2, <2>4 DEF RowsInv
<1>4. LimitInv
  <2>1. \A s \in Sales : OwedOn(sale)[s] = 0
    BY DEF Init, OwedOn
  <2>2. SumOf(OwedOn(sale), Sales) = 0
    BY <2>1, SalesFinite, SumOfZeros
  <2>3. Outstanding = 0
    <3>1. MapThenSumSet(LAMBDA s : sale[s].total - sale[s].paid - sale[s].refunded
                                     + sale[s].repaid, {s \in Sales : sale[s] # NoSale})
            = SumOf(OwedOn(sale), Sales)
      BY <1>3, OwedOnRows DEF RowsInv, TypeOK
    <3>2. QED
      BY <2>2, <3>1 DEF Outstanding, Due, Open, Invoices, MapThenSumSet, MapThenFoldSet
  <2>4. QED
    BY <1>1, <1>2, <2>3, Limits DEF LimitInv
<1>5. LinksInv
  BY <1>1, <1>2 DEF Init, LinksInv, LinksFit, HandsOut, PaidFor
<1>6. PointsInv
  <2>1. TierOf(0) = 0
    <3>1. \A m \in Tiers : ~(m <= 0)
      <4>1. Tiers \subseteq Nat \ {0}
        BY CustomerAccountsConstants
      <4>2. QED
        BY <4>1
    <3>2. {0} \cup {m \in Tiers : m <= 0} = {0}
      BY <3>1
    <3>3. IsFiniteSet({0}) /\ {0} \subseteq Int /\ {0} # {}
      BY FS_Singleton
    <3>4. Max({0}) \in {0}
      BY <3>3, Greatest
    <3>5. QED
      BY <3>2, <3>4 DEF TierOf
  <2>2. PointsPaidFor
    BY <1>1, <2>1 DEF Init, PointsPaidFor
  <2>3. QED
    BY <1>1, <1>2, <2>2 DEF PointsInv, PromisesFit, ReserveFits, Redeeming
<1>7. QED
  BY <1>3, <1>4, <1>5, <1>6 DEF AccountInv

LEMMA AccountKept ==
  ASSUME AccountInv, Next
  PROVE  AccountInv'
<1>1. RowsInv /\ LimitInv /\ LinksInv /\ LinksFit /\ PointsInv /\ PromisesFit
  BY DEF AccountInv, LinksInv, PointsInv
<1>2. ASSUME NEW r \in Requests, RollBack(r) PROVE AccountInv'
  <2>1. RowsInv'
    BY <1>1, <1>2, RollBackTyped
  <2>2. QED
    BY <1>1, <1>2, <2>1, RequestsKeepLimit, RequestsKeepLinks, RestKeepsPoints DEF AccountInv
<1>3. ASSUME NEW r \in Requests, Checkout(r) PROVE AccountInv'
  <2>1. RowsInv'
    BY <1>1, <1>3, CheckoutTyped
  <2>2. QED
    BY <1>1, <1>3, <2>1, CheckoutKeepsLimit, SalesAndDeletionsKeepLinks, SalesKeepPoints
    DEF AccountInv
<1>4. ASSUME NEW r \in Requests, CreateCollection(r) PROVE AccountInv'
  <2>1. RowsInv'
    BY <1>1, <1>4, CreateCollectionTyped
  <2>2. QED
    BY <1>1, <1>4, <2>1, CollectionsKeepLimit, CreateCollectionKeepsLinks, RestKeepsPoints
    DEF AccountInv
<1>5. ASSUME NEW r \in Requests, RedeemPointsForSale(r) \/ RedeemPoints(r) PROVE AccountInv'
  <2>1. RowsInv'
    BY <1>1, <1>5, SaleRedeemedTyped, DirectRedeemedTyped
  <2>2. LimitInv'
    BY <1>1, <1>5, <2>1, RedemptionsKeepLimit
  <2>3. LinksInv'
    BY <1>1, <1>5, <2>1, RedemptionsKeepLinks
  <2>4. PointsInv'
    BY <1>1, <1>5, <2>1, RedemptionsKeepPoints
  <2>5. QED
    BY <2>1, <2>2, <2>3, <2>4 DEF AccountInv
<1>6. ASSUME NEW r \in Requests, NEW s \in Sales, BeginSaleRedemption(r, s) PROVE AccountInv'
  <2>1. RowsInv'
    BY <1>1, <1>6, BeginRedemptionsTyped
  <2>2. QED
    BY <1>1, <1>6, <2>1, RequestsKeepLimit, RequestsKeepLinks, BeginningsKeepPoints
    DEF AccountInv
<1>7. ASSUME NEW r \in Requests, NEW total \in Totals, NEW paid \in 0 .. MaxTotal,
             NEW wanted \in 0 .. MaxTotal, BeginCheckout(r, total, paid, wanted)
      PROVE  AccountInv'
  <2>1. RowsInv'
    BY <1>1, <1>7, BeginCheckoutTyped
  <2>2. QED
    BY <1>1, <1>7, <2>1, BeginCheckoutKeepsLimit, RequestsKeepLinks, BeginningsKeepPoints
    DEF AccountInv
<1>8. ASSUME NEW r \in Requests, NEW c \in Collections, NEW n \in Amounts,
             BeginAnyCollection(r, c, n)
      PROVE  AccountInv'
  <2>1. RowsInv'
    BY <1>1, <1>8, BeginCollectionTyped
  <2>2. QED
    BY <1>1, <1>8, <2>1, RequestsKeepLimit, BeginCollectionKeepsLinks, RestKeepsPoints
    DEF AccountInv
<1>9. ASSUME NEW r \in Requests, NEW n \in Amounts, NEW gift \in BOOLEAN,
             BeginDirectRedemption(r, n, gift)
      PROVE  AccountInv'
  <2>1. RowsInv'
    BY <1>1, <1>9, BeginRedemptionsTyped
  <2>2. QED
    BY <1>1, <1>9, <2>1, RequestsKeepLimit, RequestsKeepLinks, BeginningsKeepPoints
    DEF AccountInv
<1>10. ASSUME NEW s \in Sales, AwardPoints(s) PROVE AccountInv'
  <2>1. RowsInv'
    BY <1>1, <1>10, AwardTyped
  <2>2. QED
    BY <1>1, <1>10, <2>1, RestKeepsLimit, RestKeepsLinks, RestKeepsPoints DEF AccountInv
<1>11. ASSUME NEW s \in Sales, NEW n \in Amounts, CreateRefundInvoice(s, n) PROVE AccountInv'
  <2>1. RowsInv'
    BY <1>1, <1>11, RefundTyped
  <2>2. QED
    BY <1>1, <1>11, <2>1, RestKeepsLimit, RestKeepsLinks, RestKeepsPoints DEF AccountInv
<1>12. ASSUME NEW total \in Totals, NEW paid \in 0 .. MaxTotal, CreateSale(total, paid)
       PROVE  AccountInv'
  <2>1. RowsInv'
    BY <1>1, <1>12, CreateSaleTyped
  <2>2. QED
    BY <1>1, <1>12, <2>1, CreateSaleKeepsLimit, SalesAndDeletionsKeepLinks, SalesKeepPoints
    DEF AccountInv
<1>13. ASSUME NEW c \in Collections, DeleteCollection(c) PROVE AccountInv'
  <2>1. RowsInv'
    BY <1>1, <1>13, DeleteCollectionTyped
  <2>2. QED
    BY <1>1, <1>13, <2>1, CollectionsKeepLimit, SalesAndDeletionsKeepLinks, RestKeepsPoints
    DEF AccountInv
<1>14. QED
  BY <1>2, <1>3, <1>4, <1>5, <1>6, <1>7, <1>8, <1>9, <1>10, <1>11, <1>12, <1>13, Zenon DEF Next

\* Nothing of the account changes while the customer is offered promotions.
LEMMA AccountRests ==
  ASSUME AccountInv, UNCHANGED vars
  PROVE  AccountInv'
<1>1. /\ sale' = sale /\ collection' = collection /\ points' = points /\ tier' = tier
      /\ job' = job /\ direct' = direct /\ excused' = excused /\ overdrawn' = overdrawn
      /\ contended' = contended
  BY DEF vars, account
<1>2. RowsInv'
  BY <1>1 DEF AccountInv, RowsInv, TypeOK, Numbered, Invoices, Working
<1>3. Invoices' = Invoices
  BY <1>1 DEF Invoices
<1>4. RowsInv /\ LimitInv /\ LinksInv /\ PointsInv
  BY DEF AccountInv
<1>5. LimitInv'
  BY <1>1, <1>2, <1>4, OthersKeepLimit
<1>6. LinksInv'
  BY <1>1, <1>2, <1>3, <1>4, OthersKeepLinks
<1>7. PointsInv'
  <2>1. points >= points /\ tier = TierOf(points)
    <3>1. points \in Nat
      BY <1>4 DEF RowsInv, TypeOK
    <3>2. QED
      BY <1>4, <3>1 DEF PointsInv, PointsPaidFor
  <2>2. points' >= points /\ tier' = TierOf(points')
    BY <1>1, <2>1
  <2>3. QED
    BY <1>1, <1>2, <1>3, <1>4, <2>2, PointsFrame
<1>8. QED
  BY <1>2, <1>5, <1>6, <1>7 DEF AccountInv

\* What holds of a customer's account at every moment (AccountInv).
THEOREM AccountsHold == CustomersSpec => []AccountInv
<1>1. CustomersInit => AccountInv
  BY AccountInitially DEF CustomersInit
<1>2. AccountInv /\ [CustomersNext]_<<part, vars, offers>> => AccountInv'
  <2> SUFFICES ASSUME AccountInv, [CustomersNext]_<<part, vars, offers>>
               PROVE  AccountInv'
    OBVIOUS
  <2>1. Next \/ UNCHANGED vars
    BY Zenon DEF CustomersNext
  <2>2. QED
    BY <2>1, AccountKept, AccountRests
<1>3. QED
  BY <1>1, <1>2, PTL DEF CustomersSpec

\* A row of sales never counts as paid or refunded more than its total, and the balance
\* of points is never below zero (sales_paid_amount_check, chk_loyalty_points_positive).
THEOREM AccountsTyped == CustomersSpec => []TypeOK
<1>1. AccountInv => TypeOK
  BY DEF AccountInv, RowsInv
<1>2. QED
  BY <1>1, AccountsHold, PTL

\* One checkout at a time keeps a customer within his credit limit
\* (enforceCustomerCreditLimit).
THEOREM LimitAlwaysKept == CustomersSpec => []LimitKept
<1>1. AccountInv => LimitKept
  BY DEF AccountInv, LimitInv, LimitKept
<1>2. QED
  BY <1>1, AccountsHold, PTL

\* What is collected of an invoice counts once, unless two collections met on it
\* (CreateCollection).
THEOREM CollectionsCountOnce == CustomersSpec => []CollectedOnce
<1>1. AccountInv => CollectedOnce
  BY Collected DEF AccountInv, RowsInv, LinksInv
<1>2. QED
  BY <1>1, AccountsHold, PTL

\* The discount of a sale and the points taken for it agree (RedeemPointsForSale).
THEOREM PointsArePaidFor == CustomersSpec => []PointsPaidFor
<1>1. AccountInv => PointsPaidFor
  BY DEF AccountInv, PointsInv
<1>2. QED
  BY <1>1, AccountsHold, PTL

----------------------------------------------------------------------------
(* Promotions, coupons and raffles: values                                 *)

SetToSell ==
  /\ series \in Offers!SeriesRecord
  /\ promotions \in Seq(Offers!PromotionRecord)
  /\ raffles \in Seq(Offers!RaffleRecord)

TicketRecord == [raffle : Nat, fill : BOOLEAN, filled : BOOLEAN]

LEMMA OfferConstants ==
  /\ Nobody \notin Customers /\ NoCollection \notin Collections
  /\ IsFiniteSet(Collections) /\ IsFiniteSet(Goods)
  /\ SeriesSettings \subseteq Offers!SeriesRecord
  /\ PromotionSettings \subseteq Seq(Offers!PromotionRecord)
  /\ RaffleSettings \subseteq Seq(Offers!RaffleRecord)
  /\ Carts \subseteq Offers!CartRecord
BY CustomersConstants, Zenon DEF Offers!PromotionsConstants, Offers!IsFiniteSet, IsFiniteSet

LEMMA OfferCardinality == \A S : Offers!Cardinality(S) = Cardinality(S)
BY Zenon DEF Cardinality, Offers!Cardinality

LEMMA TotalIs ==
  ASSUME NEW f, IsFiniteSet(DOMAIN f), \A i \in DOMAIN f : f[i] \in Int
  PROVE  Offers!Total(f) \in Int
<1>1. Offers!Total(f) = SumOf(f, DOMAIN f)
  BY DEF Offers!Total, Offers!MapThenSumSet, Offers!MapThenFoldSet, SumOf, MapThenSumSet,
         MapThenFoldSet
<1>2. QED
  BY <1>1, SumType

LEMMA OffByIs ==
  ASSUME NEW kind \in Offers!Kinds, NEW value \in Int, NEW amount \in Int
  PROVE  Offers!OffBy(kind, value, amount) \in Int
<1>1. (amount * value) \div 100 \in Int
  OBVIOUS
<1>2. QED
  BY <1>1 DEF Offers!OffBy, Offers!Kinds

LEMMA ItemAmountIs ==
  ASSUME NEW cart \in Offers!CartRecord
  PROVE  Offers!ItemAmount(cart) \in Int
<1>1. cart.goods \subseteq Goods /\ cart.goods # {} /\ cart.amount \in Nat
  BY DEF Offers!CartRecord
<1>2. IsFiniteSet(cart.goods)
  BY <1>1, OfferConstants, FS_Subset
<1>3. Cardinality(cart.goods) \in Nat \ {0}
  BY <1>1, <1>2, FS_CardinalityType, FS_EmptySet
<1>4. QED
  BY <1>1, <1>3, OfferCardinality DEF Offers!ItemAmount

LEMMA OffIs ==
  ASSUME NEW promotion \in Offers!PromotionRecord, NEW cart \in Offers!CartRecord
  PROVE  Offers!Off(promotion, cart) \in Int
<1> DEFINE matched == cart.goods \cap promotion.goods
           rules == promotion.rules
           each == [i \in DOMAIN rules |->
                     IF rules[i].good \notin matched \/ rules[i].quantity > 1 THEN 0
                     ELSE Offers!OffBy(rules[i].kind, rules[i].value, Offers!ItemAmount(cart))]
           target == IF promotion.item
                     THEN Offers!ItemAmount(cart) * Offers!Cardinality(matched)
                     ELSE cart.amount
<1>1. Offers!ItemAmount(cart) \in Int
  BY ItemAmountIs
<1>2. rules \in Seq(Offers!RuleRecord) /\ promotion.kind \in Offers!Kinds
      /\ promotion.value \in Int /\ cart.goods \subseteq Goods /\ cart.amount \in Int
  BY DEF Offers!PromotionRecord, Offers!CartRecord
<1>3. \A i \in DOMAIN rules : rules[i].kind \in Offers!Kinds /\ rules[i].value \in Int
  <2>1. \A i \in DOMAIN rules : rules[i] \in Offers!RuleRecord
    BY <1>2
  <2>2. QED
    BY <2>1 DEF Offers!RuleRecord
<1>4. Offers!Total(each) \in Int
  <2>1. \A i \in DOMAIN each : each[i] \in Int
    BY <1>1, <1>3, OffByIs
  <2>2. IsFiniteSet(DOMAIN each)
    BY <1>2, IndexesAreFew
  <2> HIDE DEF each
  <2>3. QED
    BY <2>1, <2>2, TotalIs
<1>5. target \in Int
  <2>1. IsFiniteSet(matched)
    BY <1>2, OfferConstants, FS_Subset
  <2>2. Offers!Cardinality(matched) \in Int
    BY <2>1, FS_CardinalityType, OfferCardinality
  <2>3. QED
    BY <1>1, <1>2, <2>2
<1>6. Offers!OffBy(promotion.kind, promotion.value, target) \in Int
  BY <1>2, <1>5, OffByIs
<1>7. Offers!Off(promotion, cart) \in {0, Offers!Total(each),
        Offers!OffBy(promotion.kind, promotion.value, target)}
  BY DEF Offers!Off
<1>8. QED
  BY <1>4, <1>6, <1>7

LEMMA PromotionDiscountIs ==
  ASSUME SetToSell, NEW customer, NEW cart \in Offers!CartRecord
  PROVE  Offers!PromotionDiscount(customer, cart) \in Int
<1> DEFINE each == [i \in DOMAIN promotions |-> Offers!Off(promotions[i], cart)]
<1>1. \A i \in DOMAIN each : each[i] \in Int
  BY OffIs DEF SetToSell
<1>2. IsFiniteSet(DOMAIN each)
  BY IndexesAreFew DEF SetToSell
<1> HIDE DEF each
<1>3. Offers!Total(each) \in Int
  BY <1>1, <1>2, TotalIs
<1>4. QED
  BY <1>3 DEF Offers!PromotionDiscount, each

LEMMA WorthIs ==
  ASSUME SetToSell, NEW amount \in Int
  PROVE  Offers!Worth(amount) \in Int
<1>1. series.value \in Int /\ series.most \in Int
  BY DEF SetToSell, Offers!SeriesRecord
<1>2. (amount * series.value) \div 100 \in Int
  BY <1>1
<1>3. QED
  BY <1>1, <1>2 DEF Offers!Worth, Offers!Least

LEMMA TicketCountIs ==
  ASSUME NEW raffle \in Offers!RaffleRecord, NEW total \in Int
  PROVE  Offers!TicketCount(raffle, total) \in Nat
<1>1. raffle.trigger \in Int /\ raffle.coupons \in Int /\ raffle.most \in Int
  BY DEF Offers!RaffleRecord
<1>2. CASE raffle.trigger <= 0
  BY <1>2 DEF Offers!TicketCount
<1>3. CASE ~(raffle.trigger <= 0)
  <2> DEFINE n == total \div raffle.trigger
  <2>1. n \in Int
    BY <1>1, <1>3
  <2> HIDE DEF n
  <2>2. n * raffle.coupons \in Int
    BY <1>1, <2>1
  <2>3. Offers!Least(n * raffle.coupons, raffle.most) \in Int
    BY <1>1, <2>2 DEF Offers!Least
  <2>4. QED
    BY <2>3 DEF Offers!TicketCount, n
<1>4. QED
  BY <1>2, <1>3

----------------------------------------------------------------------------
(* Tickets                                                                 *)

LEMMA FlattenSteps ==
  ASSUME NEW T, NEW q \in Seq(Seq(T))
  PROVE  \E f : /\ f[0] = <<>>
                /\ \A i \in 1 .. Len(q) : f[i] = f[i - 1] \o q[i]
                /\ \A i \in 0 .. Len(q) : f[i] \in Seq(T)
                /\ Offers!FlattenSeq(q) = f[Len(q)]
<1>1. Offers!FlattenSeq(q) = Flat(q)
  BY DEF Offers!FlattenSeq, Flat
<1>2. QED
  BY <1>1, FlatSteps

\* The tickets u of the raffles up to k, raffle by raffle: tickets[i] is one of raffle i, of
\* which there are many[i].
InOrder(u, k, tickets, many) ==
  /\ \A m \in DOMAIN u : u[m].raffle \in 1 .. k /\ u[m] = tickets[u[m].raffle]
  /\ \A m, n \in DOMAIN u : u[m].raffle < u[n].raffle => m < n
  /\ \A i \in 1 .. k : Cardinality({m \in DOMAIN u : u[m].raffle = i}) = many[i]

LEMMA OneRaffleMore ==
  ASSUME NEW u \in Seq(TicketRecord), NEW k \in Nat, NEW tickets, NEW many,
         InOrder(u, k, tickets, many), many[k + 1] \in Nat,
         tickets[k + 1] \in TicketRecord, tickets[k + 1].raffle = k + 1,
         NEW v \in Seq(TicketRecord), v = [m \in 1 .. many[k + 1] |-> tickets[k + 1]]
  PROVE  InOrder(u \o v, k + 1, tickets, many)
<1> DEFINE w == u \o v
           n == Len(u)
           c == many[k + 1]
           new == tickets[k + 1]
<1>1. n \in Nat /\ DOMAIN u = 1 .. n /\ DOMAIN w = 1 .. n + Len(v)
      /\ (\A i \in 1 .. n : w[i] = u[i]) /\ (\A i \in 1 .. Len(v) : w[n + i] = v[i])
  BY Joined
<1>2. Len(v) = c /\ c \in Nat /\ \A i \in 1 .. c : v[i] = new
  OBVIOUS
<1>3. new.raffle = k + 1 /\ \A m \in 1 .. n : u[m].raffle \in 1 .. k
  BY <1>1 DEF InOrder
<1> HIDE DEF w, n, c, new
<1>4. \A m \in 1 .. n : w[m] = u[m] /\ w[m].raffle \in 1 .. k /\ w[m] = tickets[w[m].raffle]
  <2> DEFINE Low == 1 .. n
  <2>1. \A m \in Low : w[m] = u[m] /\ u[m].raffle \in 1 .. k /\ u[m] = tickets[u[m].raffle]
    BY <1>1, <1>3 DEF InOrder
  <2> HIDE DEF Low
  <2>2. \A m \in Low : w[m] = u[m] /\ w[m].raffle \in 1 .. k /\ w[m] = tickets[w[m].raffle]
    BY <2>1
  <2>3. QED
    BY <2>2 DEF Low
<1>5. \A m \in n + 1 .. n + c : w[m] = new
  <2> SUFFICES ASSUME NEW m \in n + 1 .. n + c PROVE w[m] = new
    OBVIOUS
  <2>1. m - n \in 1 .. c /\ n + (m - n) = m
    BY <1>1, <1>2
  <2>2. QED
    BY <1>1, <1>2, <2>1
<1>6. \A m \in 1 .. n + c : m \in 1 .. n \/ m \in n + 1 .. n + c
  BY <1>1, <1>2
<1>7. DOMAIN w = 1 .. n + c
  BY <1>1, <1>2
<1>8. \A m \in DOMAIN w : w[m].raffle \in 1 .. k + 1 /\ w[m] = tickets[w[m].raffle]
  <2>1. ASSUME NEW m \in 1 .. n PROVE w[m].raffle \in 1 .. k + 1 /\ w[m] = tickets[w[m].raffle]
    BY <1>4
  <2>2. ASSUME NEW m \in n + 1 .. n + c
        PROVE  w[m].raffle \in 1 .. k + 1 /\ w[m] = tickets[w[m].raffle]
    BY <1>3, <1>5 DEF new
  <2>3. QED
    BY <1>6, <1>7, <2>1, <2>2
<1>9. ASSUME NEW m \in DOMAIN w, NEW o \in DOMAIN w, w[m].raffle < w[o].raffle PROVE m < o
  <2>1. \A j \in 1 .. n : w[j] = u[j] /\ w[j].raffle <= k
    BY <1>4
  <2>2. \A j \in n + 1 .. n + c : w[j].raffle = k + 1
    BY <1>3, <1>5
  <2>3. CASE m \in 1 .. n /\ o \in 1 .. n
    BY <1>1, <1>9, <2>1, <2>3 DEF InOrder
  <2>4. CASE m \in 1 .. n /\ o \in n + 1 .. n + c
    BY <1>1, <1>2, <2>4
  <2>5. CASE m \in n + 1 .. n + c /\ o \in 1 .. n
    <3>1. w[o].raffle \in 1 .. k
      BY <1>1, <1>3, <2>5
    <3>2. QED
      BY <1>9, <2>2, <2>5, <3>1
  <2>6. CASE m \in n + 1 .. n + c /\ o \in n + 1 .. n + c
    BY <1>9, <2>2, <2>6
  <2>7. QED
    BY <1>6, <1>7, <2>3, <2>4, <2>5, <2>6
<1>10. ASSUME NEW i \in 1 .. k + 1
      PROVE  Cardinality({m \in DOMAIN w : w[m].raffle = i}) = many[i]
  <2>1. CASE i = k + 1
    <3>1. {m \in DOMAIN w : w[m].raffle = i} = n + 1 .. n + c
      <4>1. \A m \in 1 .. n : w[m].raffle # i
        BY <1>4, <2>1
      <4>2. \A m \in n + 1 .. n + c : w[m].raffle = i /\ m \in 1 .. n + c
        BY <1>1, <1>2, <1>3, <1>5, <2>1
      <4>3. QED
        BY <1>6, <1>7, <4>1, <4>2
    <3>2. Cardinality(n + 1 .. n + c) = c
      <4> DEFINE low == n + 1
                 high == n + c
      <4>1. low \in Int /\ high \in Int
        BY <1>1, <1>2
      <4>2. (low > high => c = 0) /\ (~(low > high) => high - low + 1 = c)
        BY <1>1, <1>2
      <4> HIDE DEF low, high
      <4>3. Cardinality(low .. high) = IF low > high THEN 0 ELSE high - low + 1
        BY <4>1, FS_Interval
      <4>4. QED
        BY <4>2, <4>3 DEF low, high
    <3>3. QED
      BY <2>1, <3>1, <3>2 DEF c
  <2>2. CASE i # k + 1
    <3>1. i \in 1 .. k
      BY <2>2
    <3>2. {m \in DOMAIN w : w[m].raffle = i} = {m \in DOMAIN u : u[m].raffle = i}
      <4>1. \A m \in n + 1 .. n + c : w[m].raffle # i
        BY <1>3, <1>5, <2>2
      <4>2. \A m \in 1 .. n : m \in 1 .. n + c
        BY <1>1, <1>2
      <4>3. QED
        BY <1>1, <1>6, <1>7, <4>1, <4>2
    <3>3. QED
      BY <3>1, <3>2 DEF InOrder
  <2>3. QED
    BY <2>1, <2>2
<1>11. InOrder(w, k + 1, tickets, many)
  BY <1>8, <1>9, <1>10 DEF InOrder
<1>12. QED
  BY <1>11 DEF w

\* The tickets of a sale: as many of each raffle as its total earns, and with the customer's
\* data unless an earlier raffle does not fill.
Earned(terms, tickets, total, customer) ==
  /\ \A i \in DOMAIN terms :
       Cardinality({n \in DOMAIN tickets : tickets[n].raffle = i})
         = Offers!TicketCount(terms[i], total)
  /\ \A n \in DOMAIN tickets :
       tickets[n].fill /\ customer # Nobody /\ ~tickets[n].filled =>
         \E m \in 1 .. n - 1 : ~tickets[m].fill

LEMMA TicketsAre ==
  ASSUME SetToSell, NEW total \in Int, NEW customer
  PROVE  /\ Offers!Tickets(total, customer) \in Seq(TicketRecord)
         /\ Earned(raffles, Offers!Tickets(total, customer), total, customer)
<1> DEFINE issuing(i) == Offers!TicketCount(raffles[i], total) > 0
           known(i) == /\ customer # Nobody
                       /\ \A j \in 1 .. i - 1 : issuing(j) => raffles[j].fill
           ticket(i) == [raffle |-> i, fill |-> raffles[i].fill,
                         filled |-> raffles[i].fill /\ known(i)]
           D == DOMAIN raffles
           tickets == [i \in D |-> ticket(i)]
           many == [i \in D |-> Offers!TicketCount(raffles[i], total)]
           q == [i \in D |-> [n \in 1 .. Offers!TicketCount(raffles[i], total) |-> ticket(i)]]
           N == Len(raffles)
<1>1. N \in Nat /\ D = 1 .. N /\ \A i \in 1 .. N : raffles[i] \in Offers!RaffleRecord
  BY DEF SetToSell
<1>2. \A i \in 1 .. N : raffles[i].fill \in BOOLEAN
  BY <1>1 DEF Offers!RaffleRecord
<1>3. Offers!Tickets(total, customer) = Offers!FlattenSeq(q)
  BY DEF Offers!Tickets
<1> HIDE DEF N, issuing
<1>4. \A i \in 1 .. N : /\ tickets[i] = ticket(i) /\ many[i] = Offers!TicketCount(raffles[i], total)
                        /\ q[i] = [n \in 1 .. many[i] |-> tickets[i]]
  BY <1>1
<1>5. \A i \in 1 .. N : ticket(i) \in TicketRecord
  <2>1. \A i \in 1 .. N : known(i) \in BOOLEAN /\ i \in Nat
    BY <1>1
  <2> HIDE DEF known
  <2>2. QED
    BY <1>2, <2>1 DEF TicketRecord
<1>6. \A i \in 1 .. N : many[i] \in Nat
  BY <1>1, <1>4, TicketCountIs
<1>7. \A i \in 1 .. N : tickets[i].raffle = i /\ tickets[i].fill = raffles[i].fill
                        /\ (raffles[i].fill /\ known(i) => tickets[i].filled)
  <2> HIDE DEF known, tickets
  <2>1. \A i : ticket(i).raffle = i /\ ticket(i).fill = raffles[i].fill
    OBVIOUS
  <2>2. \A i : raffles[i].fill /\ known(i) => ticket(i).filled
    OBVIOUS
  <2> HIDE DEF ticket
  <2>3. \A i \in 1 .. N : tickets[i] = ticket(i)
    BY <1>4
  <2>4. QED
    BY <2>1, <2>2, <2>3
<1>8. DOMAIN q = 1 .. N
  BY <1>1
<1> HIDE DEF tickets, many, q, known, ticket
<1>9. \A i \in 1 .. N : q[i] \in Seq(TicketRecord)
  <2> SUFFICES ASSUME NEW i \in 1 .. N PROVE q[i] \in Seq(TicketRecord)
    OBVIOUS
  <2> DEFINE c == many[i]
             x == tickets[i]
  <2>1. c \in Nat /\ x \in TicketRecord /\ q[i] = [n \in 1 .. c |-> x]
    BY <1>4, <1>5, <1>6
  <2> HIDE DEF c, x
  <2>2. QED
    BY <2>1
<1>10. q \in Seq(Seq(TicketRecord)) /\ Len(q) = N
  <2>1. q = [i \in 1 .. N |-> q[i]]
    BY <1>8 DEF q
  <2> DEFINE Q == Seq(TicketRecord)
  <2>2. q \in [1 .. N -> Q]
    BY <1>9, <2>1
  <2> HIDE DEF Q
  <2>3. q \in Seq(Q) /\ Len(q) = N
    BY <1>1, <2>2
  <2>4. QED
    BY <2>3 DEF Q
<1>11. PICK f : /\ f[0] = <<>>
                /\ \A i \in 1 .. N : f[i] = f[i - 1] \o q[i]
                /\ \A i \in 0 .. N : f[i] \in Seq(TicketRecord)
                /\ Offers!FlattenSeq(q) = f[N]
  BY <1>10, FlattenSteps
<1> DEFINE Good == {k \in 0 .. N : InOrder(f[k], k, tickets, many)}
<1>12. 0 \in Good
  <2>1. InOrder(<<>>, 0, tickets, many)
    BY DEF InOrder
  <2>2. QED
    BY <1>1, <1>11, <2>1
<1>13. ASSUME NEW k \in 0 .. N - 1, k \in Good PROVE k + 1 \in Good
  <2>1. k \in Nat /\ k + 1 \in 1 .. N /\ k + 1 \in 0 .. N /\ k \in 0 .. N /\ (k + 1) - 1 = k
    BY <1>1
  <2>2. InOrder(f[k], k, tickets, many) /\ f[k] \in Seq(TicketRecord)
    BY <1>11, <1>13, <2>1
  <2>3. f[k + 1] = f[k] \o q[k + 1]
    BY <1>11, <2>1
  <2>4. InOrder(f[k] \o q[k + 1], k + 1, tickets, many)
    BY <1>4, <1>5, <1>6, <1>7, <1>9, <2>1, <2>2, OneRaffleMore
  <2>5. QED
    BY <2>1, <2>3, <2>4
<1>14. InOrder(f[N], N, tickets, many)
  <2> HIDE DEF Good
  <2>1. 0 .. N \subseteq Good
    BY <1>1, <1>12, <1>13, UpTo, Zenon
  <2>2. N \in Good
    BY <1>1, <2>1
  <2>3. QED
    BY <2>2 DEF Good
<1> DEFINE t == Offers!Tickets(total, customer)
<1>15. t \in Seq(TicketRecord) /\ InOrder(t, N, tickets, many)
  BY <1>1, <1>3, <1>11, <1>14
<1> HIDE DEF t
<1>16. \A i \in DOMAIN raffles :
         Cardinality({n \in DOMAIN t : t[n].raffle = i}) = Offers!TicketCount(raffles[i], total)
  BY <1>1, <1>4, <1>15 DEF InOrder
<1>17. ASSUME NEW n \in DOMAIN t, t[n].fill, customer # Nobody, ~t[n].filled
       PROVE  \E m \in 1 .. n - 1 : ~t[m].fill
  <2>1. PICK i \in 1 .. N : i = t[n].raffle /\ t[n] = tickets[i]
    BY <1>15 DEF InOrder
  <2>2. PICK j \in 1 .. i - 1 : issuing(j) /\ ~raffles[j].fill
    <3>1. ~known(i)
      BY <1>7, <1>17, <2>1
    <3>2. QED
      BY <1>17, <3>1 DEF known
  <2>3. j \in 1 .. N /\ j < i
    BY <1>1, <2>1
  <2> DEFINE own == {m \in DOMAIN t : t[m].raffle = j}
  <2>4. Cardinality(own) = many[j] /\ many[j] > 0
    BY <1>4, <1>15, <2>2, <2>3 DEF InOrder, issuing
  <2>5. own # {}
    <3> HIDE DEF own
    <3>1. QED
      BY <1>6, <2>3, <2>4, FS_EmptySet
  <2>6. PICK m \in DOMAIN t : t[m].raffle = j
    BY <2>5
  <2>7. m < n
    BY <1>15, <2>1, <2>3, <2>6 DEF InOrder
  <2>8. DOMAIN t = 1 .. Len(t) /\ Len(t) \in Nat
    BY <1>15
  <2>9. m \in 1 .. n - 1
    BY <2>6, <2>7, <2>8
  <2>10. ~t[m].fill
    BY <1>7, <1>15, <2>2, <2>3, <2>6 DEF InOrder
  <2>11. QED
    BY <2>9, <2>10
<1>18. Earned(raffles, t, total, customer)
  BY <1>16, <1>17 DEF Earned
<1>19. QED
  BY <1>15, <1>18 DEF t

----------------------------------------------------------------------------
(* Promotions, coupons and raffles: the inductive invariant                *)

CodeRow == [count : Nat, customer : Customers \cup {Nobody}, sale : Nat]
SoldRow ==
  [customer : Customers \cup {Nobody}, coupon : Collections \cup {NoCollection}, total : Int,
   redeemed : BOOLEAN, settled : BOOLEAN, refused : BOOLEAN, overtaken : BOOLEAN,
   tickets : Seq(TicketRecord), drawn : BOOLEAN]
WalkRow == [op : {"none", "coupon", "raffle"}, sale : Nat, tickets : Seq(TicketRecord)]

OffersTyped ==
  /\ SetToSell
  /\ code \in [Collections -> CodeRow]
  /\ sold \in Seq(SoldRow)
  /\ walk \in [Requests -> WalkRow]
  /\ \A w \in Requests : walk[w].op # "none" => walk[w].sale \in DOMAIN sold
  /\ set \in Nat /\ raced \in BOOLEAN

\* What ValidateCoupon asks of the terms of the series and the codes, and of the amount.
UsedIn(codes, customer) ==
  {k \in Collections : codes[k].customer = customer /\ codes[k].count > 0}
Spare(terms, codes, k, customer) ==
  /\ terms.active
  /\ terms.perCode > 0 => codes[k].count < terms.perCode
  /\ customer # Nobody /\ terms.perCustomer > 0 =>
       Cardinality(UsedIn(codes, customer)) < terms.perCustomer
WorthIn(terms, amount) ==
  LET off == IF terms.kind = "PERCENTAGE" THEN (amount * terms.value) \div 100 ELSE terms.value
  IN Offers!Least(Offers!Least(off, terms.most), amount)
Pays(terms, amount) == amount >= terms.minimum /\ WorthIn(terms, amount) > 0

Alone(op) == \A v, w \in Requests : walk[v].op = op /\ walk[w].op = op => v = w

\* The last sale of a code has redeemed it.
CodesFit == \A k \in Collections :
  /\ code[k].count = 0 => code[k].customer = Nobody
  /\ code[k].sale # 0 => code[k].sale \in DOMAIN sold /\ sold[code[k].sale].redeemed

\* A redemption is still right when it commits.
RedemptionsFit == \A w \in Requests : walk[w].op = "coupon" =>
  LET s == walk[w].sale
      k == sold[s].coupon
  IN /\ k # NoCollection /\ ~sold[s].settled /\ code[k].sale # s
     /\ set = 0 \/ ~sold[s].overtaken =>
          Spare(series, code, k, sold[s].customer) /\ Pays(series, sold[s].total)

\* Until a sale is overtaken, the code of its coupon is left for it or redeemed by it, and
\* nothing but its total is a reason to refuse.
PromiseStands(s) ==
  LET k == sold[s].coupon
  IN /\ ~sold[s].overtaken /\ ~sold[s].settled /\ k # NoCollection =>
          IF sold[s].redeemed THEN code[k].sale = s
          ELSE Spare(series, code, k, sold[s].customer)
     /\ sold[s].refused /\ ~sold[s].overtaken =>
          /\ k # NoCollection /\ ~sold[s].settled /\ ~sold[s].redeemed
          /\ ~Pays(series, sold[s].total)

\* Codes of one use are each of one sale.
RedeemedOnce(s) == sold[s].redeemed =>
  LET k == sold[s].coupon
  IN /\ k # NoCollection /\ code[k].sale = s /\ code[k].count > 0
     /\ sold[s].customer # Nobody => code[k].customer = sold[s].customer
UsedOnce == set = 0 /\ series.perCode = 1 =>
  /\ \A s \in DOMAIN sold : RedeemedOnce(s)
  /\ series.perCustomer > 0 =>
       \A c \in Customers : Cardinality(UsedIn(code, c)) <= series.perCustomer

CouponsInv ==
  /\ Alone("coupon") /\ CodesFit /\ RedemptionsFit /\ UsedOnce
  /\ \A s \in DOMAIN sold : PromiseStands(s)

\* A sale is drawn for once, and the tickets it gets are what it earns.
RafflesInv ==
  /\ Alone("raffle")
  /\ \A w \in Requests : walk[w].op = "raffle" =>
       LET s == walk[w].sale
       IN /\ sold[s].tickets = <<>>
          /\ set = 0 => Earned(raffles, walk[w].tickets, sold[s].total, sold[s].customer)
  /\ set = 0 => \A s \in DOMAIN sold : sold[s].tickets # <<>> =>
       Earned(raffles, sold[s].tickets, sold[s].total, sold[s].customer)

OffersInv == OffersTyped /\ (~raced => CouponsInv /\ RafflesInv)

----------------------------------------------------------------------------
(* Promotions, coupons and raffles: steps                                  *)

LEMMA ValidateIs ==
  ASSUME NEW k, NEW customer, NEW amount
  PROVE  Offers!ValidateCoupon(k, customer, amount)
           <=> Spare(series, code, k, customer) /\ Pays(series, amount)
<1>1. Offers!UsedBy(customer) = UsedIn(code, customer)
  BY DEF Offers!UsedBy, UsedIn
<1>2. Offers!Worth(amount) = WorthIn(series, amount)
  BY DEF Offers!Worth, WorthIn
<1>3. Offers!Cardinality(UsedIn(code, customer)) = Cardinality(UsedIn(code, customer))
  BY OfferCardinality
<1>4. QED
  BY <1>1, <1>2, <1>3, Zenon DEF Offers!ValidateCoupon, Spare, Pays

LEMMA SoldIs ==
  ASSUME OffersTyped
  PROVE  /\ Len(sold) \in Nat /\ DOMAIN sold = 1 .. Len(sold)
         /\ \A s \in DOMAIN sold : sold[s] \in SoldRow
BY DEF OffersTyped

LEMMA FieldsAre ==
  ASSUME NEW r \in SoldRow
  PROVE  /\ r.customer \in Customers \cup {Nobody} /\ r.coupon \in Collections \cup {NoCollection}
         /\ r.total \in Int /\ r.redeemed \in BOOLEAN /\ r.settled \in BOOLEAN
         /\ r.refused \in BOOLEAN /\ r.overtaken \in BOOLEAN
         /\ r.tickets \in Seq(TicketRecord) /\ r.drawn \in BOOLEAN
BY DEF SoldRow

\* One row of the sales is written.
LEMMA SoldRowWritten ==
  ASSUME OffersTyped, NEW s \in DOMAIN sold, NEW r \in SoldRow, sold' = [sold EXCEPT ![s] = r]
  PROVE  /\ sold' \in Seq(SoldRow) /\ DOMAIN sold' = DOMAIN sold /\ sold'[s] = r
         /\ \A o \in DOMAIN sold : o # s => sold'[o] = sold[o]
<1>1. sold \in Seq(SoldRow)
  BY DEF OffersTyped
<1>2. QED
  BY <1>1

\* One walk is written.
LEMMA WalkWritten ==
  ASSUME OffersTyped, NEW w \in Requests, NEW r \in WalkRow, walk' = [walk EXCEPT ![w] = r]
  PROVE  /\ walk' \in [Requests -> WalkRow] /\ walk'[w] = r
         /\ \A v \in Requests : v # w => walk'[v] = walk[v]
BY DEF OffersTyped

LEMMA RestingIs == Offers!Resting \in WalkRow /\ Offers!Resting.op = "none"
<1>1. <<>> \in Seq(TicketRecord)
  OBVIOUS
<1>2. QED
  BY <1>1 DEF Offers!Resting, WalkRow

\* A walk that begins: two of a kind race.
LEMMA Begins ==
  ASSUME OffersTyped, NEW w \in Requests, NEW op \in {"coupon", "raffle"},
         NEW s \in DOMAIN sold, NEW tickets \in Seq(TicketRecord),
         walk[w] = Offers!Resting, Offers!Begin(w, op, s, tickets)
  PROVE  /\ walk' \in [Requests -> WalkRow] /\ raced' \in BOOLEAN
         /\ walk'[w] = [op |-> op, sale |-> s, tickets |-> tickets]
         /\ \A v \in Requests : v # w => walk'[v] = walk[v]
         /\ ~raced' => \A v \in Requests : walk[v].op # op
         /\ series' = series /\ promotions' = promotions /\ raffles' = raffles
         /\ code' = code /\ set' = set
<1> DEFINE r == [op |-> op, sale |-> s, tickets |-> tickets]
<1>1. r \in WalkRow
  BY SoldIs DEF WalkRow
<1>2. walk' = [walk EXCEPT ![w] = r] /\ raced' = (raced \/ Offers!Walking(op) # {})
      /\ series' = series /\ promotions' = promotions /\ raffles' = raffles
      /\ code' = code /\ set' = set
  BY DEF Offers!Begin, Offers!settings
<1> HIDE DEF r
<1>3. ~raced' => \A v \in Requests : walk[v].op # op
  BY <1>2 DEF Offers!Walking
<1>4. raced' \in BOOLEAN
  BY <1>2 DEF OffersTyped
<1>5. QED
  BY <1>1, <1>2, <1>3, <1>4, WalkWritten DEF r

\* Every sale that is not settled, but one, is overtaken.
LEMMA OvertakenAre ==
  ASSUME OffersTyped, NEW but \in Nat
  PROVE  /\ Offers!Overtaken(but) \in Seq(SoldRow)
         /\ DOMAIN Offers!Overtaken(but) = DOMAIN sold
         /\ \A s \in DOMAIN sold :
              IF s = but \/ sold[s].settled THEN Offers!Overtaken(but)[s] = sold[s]
              ELSE Offers!Overtaken(but)[s] = [sold[s] EXCEPT !.overtaken = TRUE]
<1>1. \A s \in DOMAIN sold : [sold[s] EXCEPT !.overtaken = TRUE] \in SoldRow
  BY SoldIs DEF SoldRow
<1>2. \A s \in DOMAIN sold :
        Offers!Overtaken(but)[s] = IF s = but \/ sold[s].settled THEN sold[s]
                                   ELSE [sold[s] EXCEPT !.overtaken = TRUE]
  BY DEF Offers!Overtaken
<1>3. DOMAIN Offers!Overtaken(but) = 1 .. Len(sold)
  BY SoldIs DEF Offers!Overtaken
<1>4. Offers!Overtaken(but) = [s \in 1 .. Len(sold) |-> Offers!Overtaken(but)[s]]
  BY <1>3 DEF Offers!Overtaken
<1>5. \A s \in 1 .. Len(sold) : Offers!Overtaken(but)[s] \in SoldRow
  BY <1>1, <1>2, SoldIs
<1> DEFINE rows == Offers!Overtaken(but)
<1> HIDE DEF rows
<1>6. rows \in Seq(SoldRow)
  BY <1>4, <1>5, SoldIs DEF rows
<1>7. QED
  BY <1>2, <1>3, <1>6, SoldIs DEF rows

SameCoupon(r, q) ==
  /\ q.customer = r.customer /\ q.coupon = r.coupon /\ q.total = r.total
  /\ q.redeemed = r.redeemed /\ q.settled = r.settled /\ q.refused = r.refused
  /\ q.overtaken = r.overtaken

\* Nothing changes for the coupons.
LEMMA CouponsFrame ==
  ASSUME OffersTyped, CouponsInv, series' = series, code' = code, set' = set,
         DOMAIN sold' = DOMAIN sold,
         \A s \in DOMAIN sold : SameCoupon(sold[s], sold'[s]),
         \A w \in Requests : walk'[w].op = "coupon" => walk'[w] = walk[w]
  PROVE  CouponsInv'
<1>1. Alone("coupon")'
  BY DEF CouponsInv, Alone
<1>2. CodesFit'
  BY DEF CouponsInv, CodesFit, SameCoupon
<1>3. RedemptionsFit'
  <2> SUFFICES ASSUME NEW w \in Requests, walk'[w].op = "coupon"
               PROVE  LET s == walk'[w].sale
                          k == sold'[s].coupon
                      IN /\ k # NoCollection /\ ~sold'[s].settled /\ code'[k].sale # s
                         /\ set' = 0 \/ ~sold'[s].overtaken =>
                              /\ Spare(series', code', k, sold'[s].customer)
                              /\ Pays(series', sold'[s].total)
    BY DEF RedemptionsFit
  <2>1. walk'[w] = walk[w] /\ walk[w].sale \in DOMAIN sold
    BY DEF OffersTyped
  <2>2. SameCoupon(sold[walk[w].sale], sold'[walk[w].sale])
    BY <2>1
  <2>3. QED
    BY <2>1, <2>2 DEF CouponsInv, RedemptionsFit, SameCoupon
<1>4. UsedOnce'
  <2> SUFFICES ASSUME set = 0, series.perCode = 1 PROVE UsedOnce'
    BY DEF UsedOnce
  <2>1. UsedOnce
    BY DEF CouponsInv
  <2>2. \A s \in DOMAIN sold : RedeemedOnce(s)'
    BY <2>1 DEF UsedOnce, RedeemedOnce, SameCoupon
  <2>3. QED
    BY <2>1, <2>2 DEF UsedOnce
<1>5. \A s \in DOMAIN sold : PromiseStands(s)'
  <2> SUFFICES ASSUME NEW s \in DOMAIN sold PROVE PromiseStands(s)'
    OBVIOUS
  <2>1. PromiseStands(s) /\ SameCoupon(sold[s], sold'[s])
    BY DEF CouponsInv
  <2>2. QED
    BY <2>1 DEF PromiseStands, SameCoupon
<1>6. QED
  BY <1>1, <1>2, <1>3, <1>4, <1>5 DEF CouponsInv

\* Nothing changes for the raffles; a sale may be new.
LEMMA RafflesFrame ==
  ASSUME OffersTyped, RafflesInv, raffles' = raffles, set' = set,
         DOMAIN sold \subseteq DOMAIN sold',
         \A s \in DOMAIN sold : /\ sold'[s].customer = sold[s].customer
                                /\ sold'[s].total = sold[s].total
                                /\ sold'[s].tickets = sold[s].tickets,
         \A s \in DOMAIN sold' : s \notin DOMAIN sold => sold'[s].tickets = <<>>,
         \A w \in Requests : walk'[w].op = "raffle" => walk'[w] = walk[w]
  PROVE  RafflesInv'
<1>1. Alone("raffle")'
  BY DEF RafflesInv, Alone
<1>2. ASSUME NEW w \in Requests, walk'[w].op = "raffle"
      PROVE  LET s == walk'[w].sale
             IN /\ sold'[s].tickets = <<>>
                /\ set' = 0 =>
                     Earned(raffles', walk'[w].tickets, sold'[s].total, sold'[s].customer)
  <2>1. walk'[w] = walk[w] /\ walk[w].sale \in DOMAIN sold
    BY <1>2 DEF OffersTyped
  <2>2. QED
    BY <1>2, <2>1 DEF RafflesInv
<1>3. ASSUME set' = 0, NEW s \in DOMAIN sold', sold'[s].tickets # <<>>
      PROVE  Earned(raffles', sold'[s].tickets, sold'[s].total, sold'[s].customer)
  <2>1. s \in DOMAIN sold
    BY <1>3
  <2>2. QED
    BY <1>3, <2>1 DEF RafflesInv
<1>4. QED
  BY <1>1, <1>2, <1>3 DEF RafflesInv

----------------------------------------------------------------------------
(* Each step                                                               *)

LEMMA CheckoutOffers ==
  ASSUME OffersTyped, CouponsInv, RafflesInv,
         NEW customer \in Customers \cup {Nobody}, NEW cart \in Carts,
         NEW k \in Collections \cup {NoCollection}, Offers!Checkout(customer, cart, k)
  PROVE  OffersTyped' /\ CouponsInv' /\ RafflesInv'
<1> DEFINE coupon == IF k = NoCollection THEN 0 ELSE Offers!Worth(cart.amount)
           total == cart.amount - coupon - Offers!PromotionDiscount(customer, cart)
           r == Offers!Sale(customer, k, total)
<1>1. /\ k # NoCollection => Offers!ValidateCoupon(k, customer, cart.amount)
      /\ sold' = Append(sold, r)
      /\ series' = series /\ promotions' = promotions /\ raffles' = raffles
      /\ code' = code /\ walk' = walk /\ set' = set /\ raced' = raced
  BY DEF Offers!Checkout, Offers!settings
<1>2. total \in Int
  <2>1. cart \in Offers!CartRecord /\ cart.amount \in Int
    BY OfferConstants DEF Offers!CartRecord
  <2>2. Offers!PromotionDiscount(customer, cart) \in Int /\ coupon \in Int
    BY <2>1, PromotionDiscountIs, WorthIs DEF OffersTyped
  <2> HIDE DEF coupon
  <2>3. QED
    BY <2>1, <2>2
<1> HIDE DEF total
<1>3. /\ r \in SoldRow /\ r.customer = customer /\ r.coupon = k /\ r.total = total
      /\ ~r.redeemed /\ ~r.settled /\ ~r.refused /\ ~r.overtaken /\ r.tickets = <<>>
  <2>1. <<>> \in Seq(TicketRecord)
    OBVIOUS
  <2>2. QED
    BY <1>2, <2>1 DEF Offers!Sale, SoldRow
<1> HIDE DEF r
<1>4. PICK n \in Nat : n = Len(sold)
  BY SoldIs
<1>5. /\ DOMAIN sold = 1 .. n /\ DOMAIN sold' = 1 .. n + 1
      /\ sold' \in Seq(SoldRow) /\ sold'[n + 1] = r
      /\ \A s \in 1 .. n : sold'[s] = sold[s]
  BY <1>1, <1>3, <1>4 DEF OffersTyped
<1>6. DOMAIN sold \subseteq DOMAIN sold' /\ n + 1 \notin DOMAIN sold
      /\ \A s \in DOMAIN sold' : s \in DOMAIN sold \/ s = n + 1
  BY <1>5
<1>7. OffersTyped'
  BY <1>1, <1>5, <1>6 DEF OffersTyped, SetToSell
<1>8. RafflesInv'
  BY <1>1, <1>3, <1>5, <1>6, RafflesFrame
<1>9. Alone("coupon")' /\ CodesFit'
  <2>1. CodesFit /\ Alone("coupon")
    BY DEF CouponsInv
  <2>2. QED
    BY <1>1, <1>5, <1>6, <2>1 DEF CodesFit, Alone
<1>10. RedemptionsFit'
  <2>1. RedemptionsFit
    BY DEF CouponsInv
  <2>2. \A w \in Requests : walk[w].op = "coupon" =>
          walk[w].sale \in DOMAIN sold /\ sold'[walk[w].sale] = sold[walk[w].sale]
    BY <1>5 DEF OffersTyped
  <2>3. QED
    BY <1>1, <2>1, <2>2 DEF RedemptionsFit
<1>11. UsedOnce'
  <2> SUFFICES ASSUME set = 0, series.perCode = 1 PROVE UsedOnce'
    BY <1>1 DEF UsedOnce
  <2>1. UsedOnce
    BY DEF CouponsInv
  <2>2. \A s \in DOMAIN sold : RedeemedOnce(s)'
    BY <1>1, <1>5, <2>1 DEF UsedOnce, RedeemedOnce
  <2>3. RedeemedOnce(n + 1)'
    BY <1>3, <1>5 DEF RedeemedOnce
  <2>4. QED
    BY <1>1, <1>6, <2>1, <2>2, <2>3 DEF UsedOnce
<1>12. \A s \in DOMAIN sold' : PromiseStands(s)'
  <2>1. \A s \in DOMAIN sold : PromiseStands(s)'
    BY <1>1, <1>5 DEF CouponsInv, PromiseStands
  <2>2. PromiseStands(n + 1)'
    <3>1. k # NoCollection => Spare(series, code, k, customer)
      BY <1>1, ValidateIs
    <3>2. QED
      BY <1>1, <1>3, <1>5, <3>1 DEF PromiseStands
  <2>3. QED
    BY <1>6, <2>1, <2>2
<1>13. QED
  BY <1>7, <1>8, <1>9, <1>10, <1>11, <1>12 DEF CouponsInv

\* A sale is settled, refused or drawn, or has its tickets: the codes stay as they are.
LEMMA Marked ==
  ASSUME OffersTyped, NEW s \in DOMAIN sold, NEW r \in SoldRow, sold' = [sold EXCEPT ![s] = r],
         series' = series, promotions' = promotions, raffles' = raffles, code' = code,
         set' = set, raced' \in BOOLEAN, walk' \in [Requests -> WalkRow],
         \A w \in Requests : walk'[w].op # "none" => walk'[w] = walk[w]
  PROVE  OffersTyped'
<1>1. sold' \in Seq(SoldRow) /\ DOMAIN sold' = DOMAIN sold
  BY SoldRowWritten
<1>2. QED
  BY <1>1 DEF OffersTyped, SetToSell

LEMMA BeginRedeemOffers ==
  ASSUME OffersTyped, CouponsInv, RafflesInv, NEW w \in Requests, NEW s \in DOMAIN sold,
         Offers!BeginRedeem(w, s)
  PROVE  OffersTyped' /\ (~raced' => CouponsInv' /\ RafflesInv')
<1> DEFINE k == sold[s].coupon
           x == sold[s]
<1>1. walk[w] = Offers!Resting /\ x.coupon # NoCollection /\ ~x.settled
  BY DEF Offers!BeginRedeem
<1>2. x \in SoldRow /\ s \in Nat \ {0} /\ x.coupon \in Collections
  <2>1. x \in SoldRow /\ s \in Nat \ {0}
    BY SoldIs
  <2>2. QED
    BY <1>1, <2>1, FieldsAre
<1>3. CASE /\ code[x.coupon].sale = s
           /\ sold' = [sold EXCEPT ![s].settled = TRUE]
           /\ UNCHANGED <<Offers!settings, code, walk, set, raced>>
  <2> DEFINE r == [x EXCEPT !.settled = TRUE]
  <2>1. r \in SoldRow /\ r.customer = x.customer /\ r.coupon = x.coupon /\ r.total = x.total
        /\ r.redeemed = x.redeemed /\ r.settled = TRUE /\ r.refused = x.refused
        /\ r.overtaken = x.overtaken /\ r.tickets = x.tickets
    BY <1>2 DEF SoldRow
  <2>2. sold' = [sold EXCEPT ![s] = r]
    BY <1>3
  <2> HIDE DEF r
  <2>3. /\ series' = series /\ promotions' = promotions /\ raffles' = raffles
        /\ code' = code /\ walk' = walk /\ set' = set /\ raced' = raced
    BY <1>3 DEF Offers!settings
  <2>4. /\ DOMAIN sold' = DOMAIN sold /\ sold'[s] = r
        /\ \A o \in DOMAIN sold : o # s => sold'[o] = sold[o]
    BY <2>1, <2>2, SoldRowWritten
  <2>5. OffersTyped'
    BY <2>1, <2>2, <2>3, Marked DEF OffersTyped
  <2>6. RafflesInv'
    BY <2>1, <2>3, <2>4, RafflesFrame
  <2>7. CodesFit /\ RedemptionsFit /\ UsedOnce /\ Alone("coupon") /\ PromiseStands(s)
    BY DEF CouponsInv
  <2>8. Alone("coupon")' /\ CodesFit'
    BY <2>1, <2>3, <2>4, <2>7 DEF Alone, CodesFit
  <2>9. RedemptionsFit'
    <3>1. \A v \in Requests : walk[v].op = "coupon" =>
            walk[v].sale # s /\ walk[v].sale \in DOMAIN sold
      BY <1>3, <2>7 DEF RedemptionsFit, OffersTyped
    <3>2. QED
      BY <2>3, <2>4, <2>7, <3>1 DEF RedemptionsFit
  <2>10. UsedOnce'
    <3>1. \A o \in DOMAIN sold : RedeemedOnce(o) => RedeemedOnce(o)'
      BY <2>1, <2>3, <2>4 DEF RedeemedOnce
    <3>2. QED
      BY <2>3, <2>4, <2>7, <3>1 DEF UsedOnce
  <2>11. \A o \in DOMAIN sold : PromiseStands(o)'
    <3>1. x.redeemed
      BY <1>2, <1>3, <2>7 DEF CodesFit
    <3>2. PromiseStands(s)'
      BY <1>2, <2>1, <2>3, <2>4, <2>7, <3>1 DEF PromiseStands
    <3>3. \A o \in DOMAIN sold : o # s => PromiseStands(o)'
      BY <2>3, <2>4 DEF CouponsInv, PromiseStands
    <3>4. QED
      BY <3>2, <3>3
  <2>12. QED
    BY <2>4, <2>5, <2>6, <2>8, <2>9, <2>10, <2>11 DEF CouponsInv
<1>4. CASE /\ code[x.coupon].sale # s /\ ~Offers!ValidateCoupon(x.coupon, x.customer, x.total)
           /\ sold' = [sold EXCEPT ![s].refused = TRUE]
           /\ UNCHANGED <<Offers!settings, code, walk, set, raced>>
  <2> DEFINE r == [x EXCEPT !.refused = TRUE]
  <2>1. r \in SoldRow /\ r.customer = x.customer /\ r.coupon = x.coupon /\ r.total = x.total
        /\ r.redeemed = x.redeemed /\ r.settled = x.settled /\ r.refused = TRUE
        /\ r.overtaken = x.overtaken /\ r.tickets = x.tickets
    BY <1>2 DEF SoldRow
  <2>2. sold' = [sold EXCEPT ![s] = r]
    BY <1>4
  <2> HIDE DEF r
  <2>3. /\ series' = series /\ promotions' = promotions /\ raffles' = raffles
        /\ code' = code /\ walk' = walk /\ set' = set /\ raced' = raced
    BY <1>4 DEF Offers!settings
  <2>4. /\ DOMAIN sold' = DOMAIN sold /\ sold'[s] = r
        /\ \A o \in DOMAIN sold : o # s => sold'[o] = sold[o]
    BY <2>1, <2>2, SoldRowWritten
  <2>5. OffersTyped'
    BY <2>1, <2>2, <2>3, Marked DEF OffersTyped
  <2>6. RafflesInv'
    BY <2>1, <2>3, <2>4, RafflesFrame
  <2>7. CodesFit /\ RedemptionsFit /\ UsedOnce /\ Alone("coupon") /\ PromiseStands(s)
    BY DEF CouponsInv
  <2>8. Alone("coupon")' /\ CodesFit'
    BY <2>1, <2>3, <2>4, <2>7 DEF Alone, CodesFit
  <2>9. RedemptionsFit'
    <3>1. \A v \in Requests : walk[v].op = "coupon" => walk[v].sale \in DOMAIN sold
      BY DEF OffersTyped
    <3>2. QED
      BY <2>1, <2>3, <2>4, <2>7, <3>1 DEF RedemptionsFit
  <2>10. UsedOnce'
    <3>1. \A o \in DOMAIN sold : RedeemedOnce(o) => RedeemedOnce(o)'
      BY <2>1, <2>3, <2>4 DEF RedeemedOnce
    <3>2. QED
      BY <2>3, <2>4, <2>7, <3>1 DEF UsedOnce
  <2>11. \A o \in DOMAIN sold : PromiseStands(o)'
    <3>1. ~(Spare(series, code, x.coupon, x.customer) /\ Pays(series, x.total))
      BY <1>4, ValidateIs
    <3>2. PromiseStands(s)'
      BY <1>1, <1>4, <2>1, <2>3, <2>4, <2>7, <3>1 DEF PromiseStands
    <3>3. \A o \in DOMAIN sold : o # s => PromiseStands(o)'
      BY <2>3, <2>4 DEF CouponsInv, PromiseStands
    <3>4. QED
      BY <3>2, <3>3
  <2>12. QED
    BY <2>4, <2>5, <2>6, <2>8, <2>9, <2>10, <2>11 DEF CouponsInv
<1>5. CASE /\ code[x.coupon].sale # s /\ Offers!ValidateCoupon(x.coupon, x.customer, x.total)
           /\ Offers!Begin(w, "coupon", s, <<>>) /\ sold' = sold
  <2>1. <<>> \in Seq(TicketRecord)
    OBVIOUS
  <2>2. /\ walk' \in [Requests -> WalkRow] /\ raced' \in BOOLEAN
        /\ walk'[w] = [op |-> "coupon", sale |-> s, tickets |-> <<>>]
        /\ \A v \in Requests : v # w => walk'[v] = walk[v]
        /\ ~raced' => \A v \in Requests : walk[v].op # "coupon"
        /\ series' = series /\ promotions' = promotions /\ raffles' = raffles
        /\ code' = code /\ set' = set
    BY <1>1, <1>5, <2>1, Begins
  <2>3. walk'[w].op = "coupon" /\ walk'[w].sale = s
    BY <2>2
  <2>4. OffersTyped'
    BY <1>5, <2>2, <2>3 DEF OffersTyped, SetToSell
  <2>5. RafflesInv'
    BY <1>5, <2>2, <2>3, RafflesFrame
  <2>6. ASSUME ~raced' PROVE CouponsInv'
    <3>1. CodesFit /\ UsedOnce
      BY DEF CouponsInv
    <3>2. Alone("coupon")'
      BY <2>2, <2>6 DEF Alone
    <3>3. CodesFit'
      BY <1>5, <2>2, <3>1 DEF CodesFit
    <3>4. UsedOnce'
      BY <1>5, <2>2, <3>1 DEF UsedOnce, RedeemedOnce
    <3>5. RedemptionsFit'
      <4>1. Spare(series, code, x.coupon, x.customer) /\ Pays(series, x.total)
        BY <1>5, ValidateIs
      <4>2. \A v \in Requests : walk'[v].op = "coupon" => v = w
        BY <2>2, <2>6
      <4>3. QED
        BY <1>1, <1>5, <2>2, <2>3, <4>1, <4>2 DEF RedemptionsFit
    <3>6. \A o \in DOMAIN sold : PromiseStands(o)'
      BY <1>5, <2>2 DEF CouponsInv, PromiseStands
    <3>7. QED
      BY <1>5, <3>2, <3>3, <3>4, <3>5, <3>6 DEF CouponsInv
  <2>7. QED
    BY <2>4, <2>5, <2>6
<1>6. QED
  BY <1>3, <1>4, <1>5, Zenon DEF Offers!BeginRedeem

LEMMA BeginRaffleOffers ==
  ASSUME OffersTyped, CouponsInv, RafflesInv, NEW w \in Requests, NEW s \in DOMAIN sold,
         Offers!BeginRaffle(w, s)
  PROVE  OffersTyped' /\ (~raced' => CouponsInv' /\ RafflesInv')
<1> DEFINE x == sold[s]
<1>1. walk[w] = Offers!Resting /\ x \in SoldRow
  BY SoldIs DEF Offers!BeginRaffle
<1>2. CASE x.tickets # <<>>
  <2> DEFINE r == [x EXCEPT !.drawn = TRUE]
  <2>1. r \in SoldRow /\ SameCoupon(x, r) /\ r.tickets = x.tickets
    BY <1>1 DEF SoldRow, SameCoupon
  <2>2. sold' = [sold EXCEPT ![s] = r]
    BY <1>2 DEF Offers!BeginRaffle
  <2> HIDE DEF r
  <2>3. /\ series' = series /\ promotions' = promotions /\ raffles' = raffles
        /\ code' = code /\ walk' = walk /\ set' = set /\ raced' = raced
    BY <1>2 DEF Offers!BeginRaffle, Offers!settings
  <2>4. /\ DOMAIN sold' = DOMAIN sold /\ sold'[s] = r
        /\ \A o \in DOMAIN sold : o # s => sold'[o] = sold[o]
    BY <2>1, <2>2, SoldRowWritten
  <2>5. OffersTyped'
    BY <2>1, <2>2, <2>3, Marked DEF OffersTyped
  <2>6. \A o \in DOMAIN sold : SameCoupon(sold[o], sold'[o]) /\ sold'[o].tickets = sold[o].tickets
    BY <2>1, <2>4 DEF SameCoupon
  <2>7. CouponsInv'
    BY <2>3, <2>4, <2>6, CouponsFrame
  <2>8. RafflesInv'
    BY <2>3, <2>4, <2>6, RafflesFrame DEF SameCoupon
  <2>9. QED
    BY <2>5, <2>7, <2>8
<1>3. CASE x.tickets = <<>>
  <2> DEFINE tickets == Offers!Tickets(x.total, x.customer)
  <2>1. tickets \in Seq(TicketRecord) /\ Earned(raffles, tickets, x.total, x.customer)
    BY <1>1, FieldsAre, TicketsAre DEF OffersTyped
  <2>2. Offers!Begin(w, "raffle", s, tickets) /\ sold' = sold
    BY <1>3 DEF Offers!BeginRaffle
  <2> HIDE DEF tickets
  <2>3. /\ walk' \in [Requests -> WalkRow] /\ raced' \in BOOLEAN
        /\ walk'[w] = [op |-> "raffle", sale |-> s, tickets |-> tickets]
        /\ \A v \in Requests : v # w => walk'[v] = walk[v]
        /\ ~raced' => \A v \in Requests : walk[v].op # "raffle"
        /\ series' = series /\ promotions' = promotions /\ raffles' = raffles
        /\ code' = code /\ set' = set
    BY <1>1, <2>1, <2>2, Begins
  <2>4. walk'[w].op = "raffle" /\ walk'[w].sale = s /\ walk'[w].tickets = tickets
    BY <2>3
  <2>5. OffersTyped'
    BY <2>2, <2>3, <2>4 DEF OffersTyped, SetToSell
  <2>6. CouponsInv'
    BY <2>2, <2>3, <2>4, CouponsFrame DEF SameCoupon
  <2>7. ASSUME ~raced' PROVE RafflesInv'
    <3>1. \A v \in Requests : walk'[v].op = "raffle" => v = w
      BY <2>3, <2>7
    <3>2. QED
      BY <1>3, <2>1, <2>2, <2>3, <2>4, <3>1 DEF RafflesInv, Alone
  <2>8. QED
    BY <2>5, <2>6, <2>7
<1>4. QED
  BY <1>2, <1>3

LEMMA IssueOffers ==
  ASSUME OffersTyped, CouponsInv, RafflesInv, NEW w \in Requests, NEW marked \in BOOLEAN,
         Offers!IssueRaffleCoupons(w, marked)
  PROVE  OffersTyped' /\ CouponsInv' /\ RafflesInv'
<1>1. PICK s \in DOMAIN sold : s = walk[w].sale /\ walk[w].op = "raffle"
  BY DEF Offers!IssueRaffleCoupons, OffersTyped
<1> DEFINE x == sold[s]
           tickets == walk[w].tickets
           r == [x EXCEPT !.tickets = @ \o tickets, !.drawn = marked]
<1>2. x \in SoldRow /\ tickets \in Seq(TicketRecord) /\ x.tickets = <<>>
  BY <1>1, SoldIs DEF RafflesInv, OffersTyped, WalkRow
<1>3. x.tickets \o tickets = tickets
  BY <1>2, Joined
<1>4. r = [x EXCEPT !.tickets = tickets, !.drawn = marked]
  BY <1>3
<1>5. sold' = [sold EXCEPT ![s] = r] /\ walk' = [walk EXCEPT ![w] = Offers!Resting]
  BY <1>1 DEF Offers!IssueRaffleCoupons
<1> HIDE DEF r, tickets
<1>6. r \in SoldRow /\ SameCoupon(x, r) /\ r.tickets = tickets
  BY <1>2, <1>4 DEF SoldRow, SameCoupon
<1>7. /\ series' = series /\ promotions' = promotions /\ raffles' = raffles
      /\ code' = code /\ set' = set /\ raced' = raced
  BY DEF Offers!IssueRaffleCoupons, Offers!settings
<1>8. /\ DOMAIN sold' = DOMAIN sold /\ sold'[s] = r
      /\ \A o \in DOMAIN sold : o # s => sold'[o] = sold[o]
  BY <1>5, <1>6, SoldRowWritten
<1>9. /\ walk' \in [Requests -> WalkRow] /\ walk'[w].op = "none"
      /\ \A v \in Requests : v # w => walk'[v] = walk[v]
  BY <1>5, RestingIs, WalkWritten
<1>10. \A v \in Requests : walk'[v].op # "none" => v # w /\ walk'[v] = walk[v]
  BY <1>9
<1>11. OffersTyped'
  BY <1>5, <1>6, <1>7, <1>9, <1>10, Marked DEF OffersTyped
<1>12. \A o \in DOMAIN sold : SameCoupon(sold[o], sold'[o])
  BY <1>6, <1>8 DEF SameCoupon
<1>13. CouponsInv'
  BY <1>7, <1>8, <1>10, <1>12, CouponsFrame
<1>14. Alone("raffle") /\ \A v \in Requests : walk'[v].op # "raffle"
  BY <1>1, <1>9, <1>10 DEF RafflesInv, Alone
<1>15. RafflesInv'
  <2>1. Alone("raffle")'
    BY <1>14 DEF Alone
  <2>2. ASSUME set' = 0, NEW o \in DOMAIN sold, sold'[o].tickets # <<>>
        PROVE  Earned(raffles', sold'[o].tickets, sold'[o].total, sold'[o].customer)
    <3>1. CASE o = s
      BY <1>1, <1>6, <1>7, <1>8, <2>2, <3>1 DEF RafflesInv, SameCoupon, tickets
    <3>2. CASE o # s
      BY <1>7, <1>8, <2>2, <3>2 DEF RafflesInv
    <3>3. QED
      BY <3>1, <3>2
  <2>3. QED
    BY <1>8, <1>14, <2>1, <2>2 DEF RafflesInv
<1>16. QED
  BY <1>11, <1>13, <1>15

LEMMA StopOffers ==
  ASSUME OffersTyped, CouponsInv, RafflesInv, NEW w \in Requests, Offers!Stop(w)
  PROVE  OffersTyped' /\ CouponsInv' /\ RafflesInv'
<1>1. /\ series' = series /\ promotions' = promotions /\ raffles' = raffles
      /\ code' = code /\ sold' = sold /\ set' = set /\ raced' = raced
      /\ walk' = [walk EXCEPT ![w] = Offers!Resting]
  BY DEF Offers!Stop, Offers!settings
<1>2. /\ walk' \in [Requests -> WalkRow] /\ walk'[w].op = "none"
      /\ \A v \in Requests : v # w => walk'[v] = walk[v]
  BY <1>1, RestingIs, WalkWritten
<1>3. \A v \in Requests : walk'[v].op # "none" => walk'[v] = walk[v]
  BY <1>2
<1>4. OffersTyped'
  BY <1>1, <1>2, <1>3 DEF OffersTyped, SetToSell
<1>5. CouponsInv'
  BY <1>1, <1>3, CouponsFrame DEF SameCoupon
<1>6. RafflesInv'
  BY <1>1, <1>3, RafflesFrame
<1>7. QED
  BY <1>4, <1>5, <1>6

LEMMA FewUsed == ASSUME NEW codes, NEW c
                 PROVE  IsFiniteSet(UsedIn(codes, c)) /\ Cardinality(UsedIn(codes, c)) \in Nat
<1>1. UsedIn(codes, c) \subseteq Collections
  BY DEF UsedIn
<1>2. QED
  BY <1>1, OfferConstants, FS_Subset, FS_CardinalityType

\* What the transaction of a redemption writes.
RedemptionWrites(w, s, k, marked) ==
  LET customer == IF sold[s].customer = Nobody THEN code[k].customer ELSE sold[s].customer
      r == [sold[s] EXCEPT !.redeemed = TRUE, !.settled = marked]
  IN /\ OffersTyped'
     /\ DOMAIN sold' = DOMAIN sold /\ sold'[s] = r
     /\ \A o \in DOMAIN sold : o # s =>
          IF sold[o].settled THEN sold'[o] = sold[o]
          ELSE sold'[o] = [sold[o] EXCEPT !.overtaken = TRUE]
     /\ code' \in [Collections -> CodeRow]
     /\ code'[k].count = code[k].count + 1 /\ code'[k].customer = customer
     /\ code'[k].sale = s
     /\ \A j \in Collections : j # k => code'[j] = code[j]
     /\ walk'[w].op = "none" /\ \A v \in Requests : v # w => walk'[v] = walk[v]
     /\ series' = series /\ raffles' = raffles /\ set' = set

LEMMA RedeemWritesOffers ==
  ASSUME OffersTyped, NEW w \in Requests, NEW marked \in BOOLEAN, Offers!Redeem(w, marked),
         NEW s \in DOMAIN sold, s = walk[w].sale, NEW k \in Collections, k = sold[s].coupon
  PROVE  RedemptionWrites(w, s, k, marked)
<1> DEFINE customer == IF sold[s].customer = Nobody THEN code[k].customer ELSE sold[s].customer
           r == [sold[s] EXCEPT !.redeemed = TRUE, !.settled = marked]
           row == [count |-> code[k].count + 1, customer |-> customer, sale |-> s]
           rows == Offers!Overtaken(s)
<1>1. /\ code' = [code EXCEPT ![k] = row]
      /\ sold' = [rows EXCEPT ![s].redeemed = TRUE, ![s].settled = marked]
      /\ walk' = [walk EXCEPT ![w] = Offers!Resting]
      /\ series' = series /\ promotions' = promotions /\ raffles' = raffles
      /\ set' = set /\ raced' = raced
  BY DEF Offers!Redeem, Offers!settings
<1>2. s \in Nat /\ sold[s] \in SoldRow
  BY SoldIs
<1>3. /\ rows \in Seq(SoldRow) /\ DOMAIN rows = DOMAIN sold /\ rows[s] = sold[s]
      /\ \A o \in DOMAIN sold : o # s =>
           IF sold[o].settled THEN rows[o] = sold[o]
           ELSE rows[o] = [sold[o] EXCEPT !.overtaken = TRUE]
  BY <1>2, OvertakenAre
<1> HIDE DEF rows
<1>4. sold' = [rows EXCEPT ![s] = [rows[s] EXCEPT !.redeemed = TRUE, !.settled = marked]]
  BY <1>1, <1>3
<1>5. sold' = [rows EXCEPT ![s] = r]
  BY <1>3, <1>4
<1>6. r \in SoldRow
  BY <1>2 DEF SoldRow
<1> HIDE DEF r
<1>7. /\ sold' \in Seq(SoldRow) /\ DOMAIN sold' = DOMAIN sold /\ sold'[s] = r
      /\ \A o \in DOMAIN sold : o # s => sold'[o] = rows[o]
  BY <1>3, <1>5, <1>6
<1>8. code \in [Collections -> CodeRow]
  BY DEF OffersTyped
<1>9. row \in CodeRow
  <2>1. code[k] \in CodeRow /\ sold[s].customer \in Customers \cup {Nobody}
    BY <1>2, <1>8, FieldsAre
  <2>2. customer \in Customers \cup {Nobody} /\ code[k].count + 1 \in Nat
    BY <2>1 DEF CodeRow
  <2> HIDE DEF customer
  <2>3. QED
    BY <1>2, <2>2 DEF CodeRow
<1>10. row.count = code[k].count + 1 /\ row.customer = customer /\ row.sale = s
  OBVIOUS
<1> HIDE DEF row, customer
<1>11. /\ code' \in [Collections -> CodeRow] /\ code'[k] = row
       /\ \A j \in Collections : j # k => code'[j] = code[j]
  BY <1>1, <1>8, <1>9
<1>12. /\ walk' \in [Requests -> WalkRow] /\ walk'[w].op = "none"
       /\ \A v \in Requests : v # w => walk'[v] = walk[v]
  BY <1>1, RestingIs, WalkWritten
<1>13. OffersTyped'
  BY <1>1, <1>7, <1>11, <1>12 DEF OffersTyped, SetToSell
<1>14. QED
  BY <1>1, <1>3, <1>7, <1>10, <1>11, <1>12, <1>13 DEF RedemptionWrites, customer, r

LEMMA RedeemOffers ==
  ASSUME OffersTyped, CouponsInv, RafflesInv, NEW w \in Requests, NEW marked \in BOOLEAN,
         Offers!Redeem(w, marked)
  PROVE  OffersTyped' /\ CouponsInv' /\ RafflesInv'
<1>1. PICK s \in DOMAIN sold : s = walk[w].sale /\ walk[w].op = "coupon"
  BY DEF Offers!Redeem, OffersTyped
<1>2. PICK k \in Collections : k = sold[s].coupon
  <2>1. sold[s].coupon # NoCollection
    BY <1>1 DEF CouponsInv, RedemptionsFit
  <2>2. QED
    BY <2>1, SoldIs, FieldsAre
<1> DEFINE x == sold[s]
           customer == IF x.customer = Nobody THEN code[k].customer ELSE x.customer
           r == [x EXCEPT !.redeemed = TRUE, !.settled = marked]
<1>3. /\ OffersTyped' /\ DOMAIN sold' = DOMAIN sold /\ sold'[s] = r
      /\ \A o \in DOMAIN sold : o # s =>
           IF sold[o].settled THEN sold'[o] = sold[o]
           ELSE sold'[o] = [sold[o] EXCEPT !.overtaken = TRUE]
      /\ code' \in [Collections -> CodeRow]
      /\ code'[k].count = code[k].count + 1 /\ code'[k].customer = customer
      /\ code'[k].sale = s
      /\ \A j \in Collections : j # k => code'[j] = code[j]
      /\ walk'[w].op = "none" /\ \A v \in Requests : v # w => walk'[v] = walk[v]
      /\ series' = series /\ raffles' = raffles /\ set' = set
  <2>1. RedemptionWrites(w, s, k, marked)
    BY <1>1, <1>2, RedeemWritesOffers
  <2>2. QED
    BY <2>1, Zenon DEF RedemptionWrites
<1>4. x \in SoldRow /\ \A o \in DOMAIN sold : sold[o] \in SoldRow
  BY SoldIs
<1>5. /\ r.customer = x.customer /\ r.coupon = k /\ r.total = x.total /\ r.redeemed
      /\ r.refused = x.refused /\ r.overtaken = x.overtaken /\ r.tickets = x.tickets
  BY <1>2, <1>4 DEF SoldRow
<1> HIDE DEF r
<1>6. \A o \in DOMAIN sold : o # s =>
        /\ sold'[o].customer = sold[o].customer /\ sold'[o].coupon = sold[o].coupon
        /\ sold'[o].total = sold[o].total /\ sold'[o].redeemed = sold[o].redeemed
        /\ sold'[o].settled = sold[o].settled /\ sold'[o].refused = sold[o].refused
        /\ sold'[o].tickets = sold[o].tickets
        /\ sold'[o].overtaken = (sold[o].overtaken \/ ~sold[o].settled)
  <2> SUFFICES ASSUME NEW o \in DOMAIN sold, o # s
               PROVE  /\ sold'[o].customer = sold[o].customer
                      /\ sold'[o].coupon = sold[o].coupon
                      /\ sold'[o].total = sold[o].total /\ sold'[o].redeemed = sold[o].redeemed
                      /\ sold'[o].settled = sold[o].settled /\ sold'[o].refused = sold[o].refused
                      /\ sold'[o].tickets = sold[o].tickets
                      /\ sold'[o].overtaken = (sold[o].overtaken \/ ~sold[o].settled)
    OBVIOUS
  <2>1. CASE sold[o].settled
    BY <1>3, <1>4, <2>1 DEF SoldRow
  <2>2. CASE ~sold[o].settled
    BY <1>3, <1>4, <2>2 DEF SoldRow
  <2>3. QED
    BY <2>1, <2>2
<1>7. Alone("coupon") /\ CodesFit /\ RedemptionsFit /\ UsedOnce
  BY DEF CouponsInv
<1>8. \A v \in Requests : walk'[v].op # "coupon"
  BY <1>1, <1>3, <1>7 DEF Alone
<1>9. /\ ~x.settled /\ code[k].sale # s
      /\ set = 0 \/ ~x.overtaken => Spare(series, code, k, x.customer) /\ Pays(series, x.total)
  BY <1>1, <1>2, <1>7 DEF RedemptionsFit
<1>10. CodesFit'
  <2> SUFFICES ASSUME NEW j \in Collections
               PROVE  /\ code'[j].count = 0 => code'[j].customer = Nobody
                      /\ code'[j].sale # 0 =>
                           code'[j].sale \in DOMAIN sold' /\ sold'[code'[j].sale].redeemed
    BY DEF CodesFit
  <2>1. CASE j = k
    <3>1. code[k].count \in Nat
      BY DEF OffersTyped, CodeRow
    <3>2. QED
      BY <1>3, <1>5, <2>1, <3>1
  <2>2. CASE j # k
    BY <1>3, <1>5, <1>6, <1>7, <2>2 DEF CodesFit
  <2>3. QED
    BY <2>1, <2>2
<1>11. \A o \in DOMAIN sold : PromiseStands(o)'
  <2>1. PromiseStands(s)'
    <3>1. x.refused => x.overtaken
      BY <1>9 DEF CouponsInv, PromiseStands
    <3>2. QED
      BY <1>3, <1>5, <3>1 DEF PromiseStands
  <2>2. ASSUME NEW o \in DOMAIN sold, o # s PROVE PromiseStands(o)'
    <3>1. PromiseStands(o)
      BY DEF CouponsInv
    <3>2. ~sold'[o].overtaken => ~sold[o].overtaken /\ sold[o].settled /\ sold'[o].settled
      BY <1>4, <1>6, <2>2 DEF SoldRow
    <3>3. ~sold'[o].overtaken => ~sold'[o].refused
      BY <1>6, <2>2, <3>1, <3>2 DEF PromiseStands
    <3>4. QED
      BY <3>2, <3>3 DEF PromiseStands
  <2>3. QED
    BY <2>1, <2>2
<1>12. UsedOnce'
  <2> SUFFICES ASSUME set = 0, series.perCode = 1 PROVE UsedOnce'
    BY <1>3 DEF UsedOnce
  <2>1. code[k].count = 0
    <3>1. code[k].count \in Nat /\ code[k].count < 1
      BY <1>9 DEF OffersTyped, CodeRow, Spare
    <3>2. QED
      BY <3>1
  <2>2. RedeemedOnce(s)'
    BY <1>2, <1>3, <1>5, <2>1, OfferConstants DEF RedeemedOnce
  <2>3. ASSUME NEW o \in DOMAIN sold, o # s PROVE RedeemedOnce(o)'
    <3>1. RedeemedOnce(o)
      BY <1>7 DEF UsedOnce
    <3>2. sold[o].redeemed => sold[o].coupon # k /\ sold[o].coupon \in Collections
      BY <1>4, <2>1, <3>1, FieldsAre DEF RedeemedOnce
    <3>3. QED
      BY <1>3, <1>6, <2>3, <3>1, <3>2 DEF RedeemedOnce
  <2>4. ASSUME series.perCustomer > 0, NEW c \in Customers
        PROVE  Cardinality(UsedIn(code', c)) <= series.perCustomer
    <3> DEFINE A == UsedIn(code, c)
               B == UsedIn(code', c)
    <3>1. /\ IsFiniteSet(A) /\ Cardinality(A) \in Nat /\ IsFiniteSet(B) /\ Cardinality(B) \in Nat
          /\ Cardinality(A) <= series.perCustomer /\ series.perCustomer \in Nat
      <4>1. Cardinality(A) <= series.perCustomer
        BY <1>7, <2>4 DEF UsedOnce
      <4>2. series.perCustomer \in Nat
        BY DEF OffersTyped, SetToSell, Offers!SeriesRecord
      <4>3. QED
        BY <4>1, <4>2, FewUsed
    <3>2. code[k].customer = Nobody /\ c # Nobody
      BY <1>7, <2>1, OfferConstants DEF CodesFit
    <3>3. CASE x.customer = c
      <4>1. Cardinality(A) < series.perCustomer
        BY <1>9, <2>4, <3>2, <3>3 DEF Spare
      <4>2. B \subseteq A \cup {k}
        BY <1>3 DEF UsedIn
      <4>3. k \notin A
        BY <3>2 DEF UsedIn
      <4> HIDE DEF A, B
      <4>4. IsFiniteSet(A \cup {k}) /\ Cardinality(A \cup {k}) = Cardinality(A) + 1
        BY <3>1, <4>3, FS_AddElement
      <4>5. Cardinality(B) <= Cardinality(A) + 1
        BY <4>2, <4>4, FS_Subset
      <4>6. QED
        BY <3>1, <4>1, <4>5 DEF B
    <3>4. CASE x.customer # c
      <4>1. customer # c
        BY <3>2, <3>4
      <4>2. B \subseteq A
        BY <1>3, <4>1 DEF UsedIn
      <4> HIDE DEF A, B
      <4>3. Cardinality(B) <= Cardinality(A)
        BY <3>1, <4>2, FS_Subset
      <4>4. QED
        BY <3>1, <4>3 DEF B
    <3>5. QED
      BY <3>3, <3>4
  <2>5. QED
    BY <1>3, <2>2, <2>3, <2>4 DEF UsedOnce
<1>13. CouponsInv'
  BY <1>3, <1>8, <1>10, <1>11, <1>12 DEF CouponsInv, Alone, RedemptionsFit
<1>14. RafflesInv'
  <2>1. \A o \in DOMAIN sold : /\ sold'[o].customer = sold[o].customer
                               /\ sold'[o].total = sold[o].total
                               /\ sold'[o].tickets = sold[o].tickets
    BY <1>3, <1>5, <1>6
  <2>2. \A v \in Requests : walk'[v].op = "raffle" => walk'[v] = walk[v]
    BY <1>3
  <2>3. QED
    BY <1>3, <2>1, <2>2, RafflesFrame
<1>15. QED
  BY <1>3, <1>13, <1>14

LEMMA ChangeOffers ==
  ASSUME OffersTyped, CouponsInv, RafflesInv, Offers!Change,
         series' \in Offers!SeriesRecord, promotions' \in Seq(Offers!PromotionRecord),
         raffles' \in Seq(Offers!RaffleRecord)
  PROVE  OffersTyped' /\ CouponsInv' /\ RafflesInv'
<1>1. /\ set' = set + 1 /\ sold' = Offers!Overtaken(0)
      /\ code' = code /\ walk' = walk /\ raced' = raced
  BY DEF Offers!Change
<1>2. /\ sold' \in Seq(SoldRow) /\ DOMAIN sold' = DOMAIN sold
      /\ \A o \in DOMAIN sold : IF sold[o].settled THEN sold'[o] = sold[o]
                                ELSE sold'[o] = [sold[o] EXCEPT !.overtaken = TRUE]
  <2>1. 0 \in Nat /\ \A o \in DOMAIN sold : o # 0
    BY SoldIs
  <2>2. QED
    BY <1>1, <2>1, OvertakenAre
<1>3. set' \in Nat /\ set' # 0
  BY <1>1 DEF OffersTyped
<1>4. OffersTyped'
  BY <1>1, <1>2, <1>3 DEF OffersTyped, SetToSell
<1>5. \A o \in DOMAIN sold :
        /\ sold'[o].coupon = sold[o].coupon /\ sold'[o].redeemed = sold[o].redeemed
        /\ sold'[o].settled = sold[o].settled /\ sold'[o].refused = sold[o].refused
        /\ sold'[o].tickets = sold[o].tickets
        /\ ~sold'[o].overtaken => ~sold[o].overtaken /\ sold[o].settled
  <2> SUFFICES ASSUME NEW o \in DOMAIN sold
               PROVE  /\ sold'[o].coupon = sold[o].coupon
                      /\ sold'[o].redeemed = sold[o].redeemed
                      /\ sold'[o].settled = sold[o].settled
                      /\ sold'[o].refused = sold[o].refused
                      /\ sold'[o].tickets = sold[o].tickets
                      /\ ~sold'[o].overtaken => ~sold[o].overtaken /\ sold[o].settled
    OBVIOUS
  <2>1. sold[o] \in SoldRow
    BY SoldIs
  <2>2. CASE sold[o].settled
    BY <1>2, <2>1, <2>2 DEF SoldRow
  <2>3. CASE ~sold[o].settled
    BY <1>2, <2>1, <2>3 DEF SoldRow
  <2>4. QED
    BY <2>2, <2>3
<1>6. CodesFit /\ RedemptionsFit /\ Alone("coupon")
  BY DEF CouponsInv
<1>7. Alone("coupon")' /\ CodesFit' /\ UsedOnce'
  BY <1>1, <1>2, <1>3, <1>5, <1>6 DEF Alone, CodesFit, UsedOnce
<1>8. RedemptionsFit'
  <2>1. \A v \in Requests : walk[v].op = "coupon" => walk[v].sale \in DOMAIN sold
    BY DEF OffersTyped
  <2>2. QED
    BY <1>1, <1>3, <1>5, <1>6, <2>1 DEF RedemptionsFit
<1>9. \A o \in DOMAIN sold : PromiseStands(o)'
  BY <1>5 DEF CouponsInv, PromiseStands
<1>10. RafflesInv'
  <2>1. \A v \in Requests : walk[v].op = "raffle" => walk[v].sale \in DOMAIN sold
    BY DEF OffersTyped
  <2>2. QED
    BY <1>1, <1>3, <1>5, <2>1 DEF RafflesInv, Alone
<1>11. QED
  BY <1>2, <1>4, <1>7, <1>8, <1>9, <1>10 DEF CouponsInv

----------------------------------------------------------------------------
(* Promotions, coupons and raffles: the invariant and the theorem          *)

LEMMA OffersInitially ==
  ASSUME Offers!PromotionsInit
  PROVE  OffersInv
<1>1. /\ series \in SeriesSettings /\ promotions \in PromotionSettings
      /\ raffles \in RaffleSettings /\ sold = <<>> /\ set = 0 /\ raced = FALSE
      /\ code = [k \in Collections |-> [count |-> 0, customer |-> Nobody, sale |-> 0]]
      /\ walk = [w \in Requests |-> Offers!Resting]
  BY DEF Offers!PromotionsInit
<1>2. SetToSell
  BY <1>1, OfferConstants DEF SetToSell
<1>3. \A w \in Requests : walk[w] \in WalkRow /\ walk[w].op = "none"
  BY <1>1, RestingIs
<1>4. sold \in Seq(SoldRow) /\ DOMAIN sold = {}
  BY <1>1
<1>5. OffersTyped
  <2>1. walk \in [Requests -> WalkRow]
    BY <1>1, <1>3
  <2>2. code \in [Collections -> CodeRow]
    BY <1>1 DEF CodeRow
  <2>3. QED
    BY <1>1, <1>2, <1>3, <1>4, <2>1, <2>2 DEF OffersTyped
<1>6. \A k \in Collections : code[k].count = 0 /\ code[k].customer = Nobody /\ code[k].sale = 0
  BY <1>1
<1>7. CouponsInv
  <2>1. CodesFit
    BY <1>6 DEF CodesFit
  <2>2. UsedOnce
    <3> SUFFICES ASSUME series.perCustomer > 0, NEW c \in Customers
                 PROVE  Cardinality(UsedIn(code, c)) <= series.perCustomer
      BY <1>4 DEF UsedOnce
    <3>1. UsedIn(code, c) = {}
      BY <1>6 DEF UsedIn
    <3>2. Cardinality(UsedIn(code, c)) = 0
      BY <3>1, FS_EmptySet
    <3>3. series.perCustomer \in Nat
      BY <1>2 DEF SetToSell, Offers!SeriesRecord
    <3>4. QED
      BY <3>2, <3>3
  <2>3. QED
    BY <1>3, <1>4, <2>1, <2>2 DEF CouponsInv, Alone, RedemptionsFit
<1>8. RafflesInv
  BY <1>3, <1>4 DEF RafflesInv, Alone
<1>9. QED
  BY <1>5, <1>7, <1>8 DEF OffersInv

LEMMA OffersKept ==
  ASSUME OffersInv, ~raced, Offers!PromotionsNext
  PROVE  OffersInv'
<1>1. OffersTyped /\ CouponsInv /\ RafflesInv
  BY DEF OffersInv
<1>2. ASSUME NEW customer \in Customers \cup {Nobody}, NEW cart \in Carts,
             NEW k \in Collections \cup {NoCollection}, Offers!Checkout(customer, cart, k)
      PROVE  OffersInv'
  BY <1>1, <1>2, CheckoutOffers DEF OffersInv
<1>3. ASSUME NEW w \in Requests, NEW s \in DOMAIN sold,
             Offers!BeginRedeem(w, s) \/ Offers!BeginRaffle(w, s)
      PROVE  OffersInv'
  BY <1>1, <1>3, BeginRedeemOffers, BeginRaffleOffers DEF OffersInv
<1>4. ASSUME NEW w \in Requests, NEW marked \in BOOLEAN,
             Offers!Redeem(w, marked) \/ Offers!IssueRaffleCoupons(w, marked)
      PROVE  OffersInv'
  BY <1>1, <1>4, RedeemOffers, IssueOffers DEF OffersInv
<1>5. ASSUME NEW w \in Requests, Offers!Stop(w) PROVE OffersInv'
  BY <1>1, <1>5, StopOffers DEF OffersInv
<1>6. series \in Offers!SeriesRecord /\ promotions \in Seq(Offers!PromotionRecord)
      /\ raffles \in Seq(Offers!RaffleRecord)
  BY <1>1 DEF OffersTyped, SetToSell
<1>7. CASE Offers!DeleteCouponSeries
  <2>1. [series EXCEPT !.active = FALSE] \in Offers!SeriesRecord
    BY <1>6 DEF Offers!SeriesRecord
  <2>2. Offers!Change /\ series' = [series EXCEPT !.active = FALSE]
        /\ promotions' = promotions /\ raffles' = raffles
    BY <1>7 DEF Offers!DeleteCouponSeries
  <2>3. QED
    BY <1>1, <1>6, <2>1, <2>2, ChangeOffers DEF OffersInv
<1>8. ASSUME NEW new \in SeriesSettings, Offers!UpdateCouponSeries(new) PROVE OffersInv'
  BY <1>1, <1>6, <1>8, OfferConstants, ChangeOffers DEF OffersInv, Offers!UpdateCouponSeries
<1>9. ASSUME NEW new \in PromotionSettings, Offers!UpdatePromotions(new) PROVE OffersInv'
  BY <1>1, <1>6, <1>9, OfferConstants, ChangeOffers DEF OffersInv, Offers!UpdatePromotions
<1>10. ASSUME NEW new \in RaffleSettings, Offers!UpdateRaffles(new) PROVE OffersInv'
  BY <1>1, <1>6, <1>10, OfferConstants, ChangeOffers DEF OffersInv, Offers!UpdateRaffles
<1>11. QED
  BY <1>2, <1>3, <1>4, <1>5, <1>7, <1>8, <1>9, <1>10, Zenon DEF Offers!PromotionsNext

\* Nothing is offered while the account changes.
LEMMA OffersRest ==
  ASSUME OffersInv, UNCHANGED offers
  PROVE  OffersInv'
<1>1. /\ series' = series /\ promotions' = promotions /\ raffles' = raffles
      /\ code' = code /\ sold' = sold /\ walk' = walk /\ set' = set /\ raced' = raced
  BY DEF offers
<1>2. OffersTyped'
  BY <1>1 DEF OffersInv, OffersTyped, SetToSell
<1>3. ASSUME ~raced' PROVE CouponsInv' /\ RafflesInv'
  <2>1. OffersTyped /\ CouponsInv /\ RafflesInv
    BY <1>1, <1>3 DEF OffersInv
  <2>2. CouponsInv'
    BY <1>1, <2>1, CouponsFrame DEF SameCoupon
  <2>3. RafflesInv'
    BY <1>1, <2>1, RafflesFrame
  <2>4. QED
    BY <2>2, <2>3
<1>4. QED
  BY <1>2, <1>3 DEF OffersInv

LEMMA OffersKeepPromises ==
  ASSUME OffersInv
  PROVE  PromisesKept
<1>1. ASSUME ~raced, set = 0, series.perCode = 1, series.perCustomer > 0, NEW c \in Customers
      PROVE  Offers!Cardinality(Offers!RedeemedBy(c)) <= series.perCustomer
  <2> DEFINE A == Offers!RedeemedBy(c)
             B == UsedIn(code, c)
             f == [s \in A |-> sold[s].coupon]
  <2>1. Cardinality(B) <= series.perCustomer /\ \A s \in DOMAIN sold : RedeemedOnce(s)
    BY <1>1 DEF OffersInv, CouponsInv, UsedOnce
  <2>2. c # Nobody /\ OffersTyped
    BY OfferConstants DEF OffersInv
  <2>3. \A s \in A : s \in DOMAIN sold /\ sold[s].customer = c /\ sold[s].redeemed
    BY DEF Offers!RedeemedBy
  <2>4. \A s \in A : f[s] \in Collections /\ f[s] \in B /\ code[f[s]].sale = s
    BY <2>1, <2>2, <2>3, SoldIs, FieldsAre DEF RedeemedOnce, UsedIn
  <2> HIDE DEF A, B, f
  <2>5. f \in [A -> B]
    <3>1. f = [s \in A |-> f[s]]
      BY DEF f
    <3>2. QED
      BY <2>4, <3>1
  <2>6. f \in Injection(A, B)
    BY <2>4, <2>5 DEF Injection, IsInjective
  <2>7. IsFiniteSet(B) /\ Cardinality(B) \in Nat
    BY FewUsed DEF B
  <2>8. Cardinality(A) <= Cardinality(B) /\ IsFiniteSet(A)
    BY <2>6, <2>7, FS_Injection
  <2>9. Cardinality(A) \in Nat /\ series.perCustomer \in Nat
    BY <2>2, <2>8, FS_CardinalityType DEF OffersTyped, SetToSell, Offers!SeriesRecord
  <2>10. Cardinality(A) <= series.perCustomer
    BY <2>1, <2>7, <2>8, <2>9 DEF B
  <2>11. QED
    BY <2>10, OfferCardinality DEF A
<1>2. ASSUME ~raced, NEW s \in DOMAIN sold, sold[s].refused, ~sold[s].overtaken
      PROVE  sold[s].total < series.minimum \/ Offers!Worth(sold[s].total) <= 0
  <2>1. ~Pays(series, sold[s].total)
    BY <1>2 DEF OffersInv, CouponsInv, PromiseStands
  <2>2. sold[s].total \in Int /\ SetToSell
    BY SoldIs, FieldsAre DEF OffersInv, OffersTyped
  <2>3. series.minimum \in Int /\ Offers!Worth(sold[s].total) \in Int
    BY <2>2, WorthIs DEF SetToSell, Offers!SeriesRecord
  <2>4. Offers!Worth(sold[s].total) = WorthIn(series, sold[s].total)
    BY DEF Offers!Worth, WorthIn
  <2>5. QED
    BY <2>1, <2>2, <2>3, <2>4 DEF Pays
<1>3. ASSUME ~raced, NEW s \in DOMAIN sold, sold[s].tickets # <<>>, set = 0
      PROVE  Earned(raffles, sold[s].tickets, sold[s].total, sold[s].customer)
  BY <1>3 DEF OffersInv, RafflesInv
<1>4. ASSUME ~raced, NEW s \in DOMAIN sold
      PROVE  LET x == sold[s] IN
             /\ x.refused /\ ~x.overtaken =>
                  x.total < series.minimum \/ Offers!Worth(x.total) <= 0
             /\ x.tickets # <<>> /\ set = 0 =>
                  /\ \A i \in DOMAIN raffles :
                       Offers!Cardinality({n \in DOMAIN x.tickets : x.tickets[n].raffle = i})
                         = Offers!TicketCount(raffles[i], x.total)
                  /\ \A n \in DOMAIN x.tickets :
                       LET t == x.tickets[n] IN
                       t.fill /\ x.customer # Nobody /\ ~t.filled =>
                         \E m \in 1 .. n - 1 : ~x.tickets[m].fill
  BY <1>2, <1>3, <1>4, OfferCardinality DEF Earned
<1>5. QED
  BY <1>1, <1>4, Zenon DEF PromisesKept, Offers!PromisesKept

\* Coupons and raffle coupons are what the sales earn, until two redemptions, or two issues,
\* of the outbox overlapped (ValidateCouponCode, RedeemCouponCode,
\* IssueRaffleCouponsForSale).
THEOREM PromisesAreKept == CustomersSpec => []PromisesKept
<1>1. CustomersInit => OffersInv
  BY OffersInitially DEF CustomersInit
<1>2. OffersInv /\ [CustomersNext]_<<part, vars, offers>> => OffersInv'
  <2> SUFFICES ASSUME OffersInv, [CustomersNext]_<<part, vars, offers>>
               PROVE  OffersInv'
    OBVIOUS
  <2>1. (~raced /\ Offers!PromotionsNext) \/ UNCHANGED offers
    BY Zenon DEF CustomersNext
  <2>2. QED
    BY <2>1, OffersKept, OffersRest
<1>3. OffersInv => PromisesKept
  BY OffersKeepPromises
<1>4. QED
  BY <1>1, <1>2, <1>3, PTL DEF CustomersSpec
=============================================================================
