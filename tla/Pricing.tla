------------------------------ MODULE Pricing -------------------------------
(***************************************************************************)
(* The amounts of a sale: its totals, its lines, what is given back for    *)
(* them and the taxes they contain                                         *)
(* (go_backend_rmt/internal/services/sales_service.go,                     *)
(* combo_sale_support.go, tax_settings_support.go, sales_profit_guard.go,  *)
(* tax_service.go).                                                        *)
(*                                                                         *)
(* The totals are computed before the transaction of the sale, the lines   *)
(* in it, from the taxes and the price mode of that moment; every column   *)
(* is rounded to cents by itself; refunds are computed from the rounded    *)
(* lines, and the breakdown of the tax from the taxes when it is read.     *)
(*                                                                         *)
(* Simplifications: a request names no tax of its own, asks for whole      *)
(* quantities and takes no more than all off an item; stock costs what     *)
(* Cost says; a refund is made by CreateRefundInvoice; amounts are         *)
(* computed to 1/Fine of a cent instead of a float64.                      *)
(***************************************************************************)
EXTENDS Integers, Sequences, FiniteSets, SequencesExt

CONSTANTS
  Taxes,
  Sellable,    \* products and combos
  Weights,     \* Weights[g]: what each component of combo g weighs, <<>> for a product
  Cost,        \* Cost[g]: cents of one unit, or of each component
  Rates,       \* percentages of a tax
  Baskets,     \* items of a request: [good, quantity, price, off]
  Discounts,   \* cents off the whole sale
  AllowLoss,   \* negative_profit_policy
  Tills,       \* concurrent requests
  MaxSales,    \* bound: sales made
  MaxChanges,  \* bound: changes of settings
  Fine

ItemRecord == [good : Sellable, quantity : Nat \ {0}, price : Nat \ {0}, off : 0..100]

PricingConstants ==
  /\ Weights \in [Sellable -> Seq(Nat \ {0})] /\ Cost \in [Sellable -> Nat]
  /\ Baskets \subseteq Seq(ItemRecord) \ {<<>>}
  /\ Rates \subseteq 0..100 /\ Discounts \subseteq Nat
  /\ AllowLoss \in BOOLEAN
  /\ {MaxSales, MaxChanges} \subseteq Nat /\ Fine \in Nat \ {0}

VARIABLES
  rate,      \* rate[t]: its percentage
  parts,     \* parts[t]: those of its components
  taxOf,     \* taxOf[g]
  inclusive, \* price_mode
  sold,      \* the sales, with the refund invoices of each
  till,      \* till[r]: the checkout of r
  changes,
  skewed     \* history: taxes whose percentage was set without their components

settings == <<rate, parts, taxOf, inclusive>>
pricingVars == <<rate, parts, taxOf, inclusive, sold, till, changes, skewed>>

Closed == [basket |-> <<>>, head |-> <<>>, stale |-> FALSE]

PricingInit ==
  /\ rate \in [Taxes -> Rates]
  /\ parts \in [Taxes -> {<<>>} \cup (Rates \X Rates)]
  /\ \A t \in Taxes : parts[t] # <<>> => parts[t][1] + parts[t][2] = rate[t]
  /\ taxOf \in [Sellable -> Taxes]
  /\ inclusive \in BOOLEAN
  /\ sold = <<>>
  /\ till = [r \in Tills |-> Closed]
  /\ changes = 0
  /\ skewed = {}

----------------------------------------------------------------------------
(* Amounts, in 1/Fine of a cent                                            *)

Half(x) == (2 * x + Fine) \div (2 * Fine)

\* NUMERIC(12,2): to the nearest cent, halves away from zero.
Cents(x) == IF x < 0 THEN -Half(-x) ELSE Half(x)

\* computeTaxLine.
TaxLine(item, percent) ==
  LET gross == item.quantity * item.price * Fine
      after == gross - (gross * item.off) \div 100
      net == IF inclusive THEN (after * 100) \div (100 + percent) ELSE after
  IN [net |-> net,
      tax |-> IF inclusive THEN after - net ELSE (after * percent) \div 100]

Total(amounts) == MapThenSumSet(LAMBDA i : amounts[i], DOMAIN amounts)

Pick(lines, field) == [i \in DOMAIN lines |-> lines[i][field]]

Priced(basket) ==
  [i \in DOMAIN basket |-> TaxLine(basket[i], rate[taxOf[basket[i].good]])]

\* CalculateTotals, of what the items come to.
Totals(amounts, discount) ==
  LET net == Total(Pick(amounts, "net"))
      tax == Total(Pick(amounts, "tax"))
  IN [subtotal |-> net, tax |-> tax, discount |-> discount,
      total |-> net + tax - discount]

\* Fault: what the others got is not taken off what is left.
Fault_Share(amount, weights, i) ==
  IF i < Len(weights) THEN (amount * weights[i]) \div Total(weights) ELSE amount

\* The share of component i; the last one gets what is left.
Share(amount, weights, i) ==
  LET of(j) == (amount * weights[j]) \div Total(weights)
  IN IF i < Len(weights) THEN of(i)
     ELSE amount - Total([j \in 1 .. Len(weights) - 1 |-> of(j)])

\* prepareStandardSaleDetail or expandComboSaleItem.
LinesOf(item, amounts) ==
  LET g == item.good
      line(net, tax) == [net |-> net, tax |-> tax, by |-> taxOf[g],
        quantity |-> item.quantity, cost |-> item.quantity * Cost[g] * Fine]
  IN IF Weights[g] = <<>> THEN <<line(amounts.net, amounts.tax)>>
     ELSE [i \in DOMAIN Weights[g] |->
             line(Share(amounts.net, Weights[g], i), Share(amounts.tax, Weights[g], i))]

\* prepareSaleDetailsTx.
PrepareSaleDetails(basket) ==
  FlattenSeq([i \in DOMAIN basket |-> LinesOf(basket[i], Priced(basket)[i])])

\* buildProfitGuardDetails: only lines that are paid for count, and the discount only
\* if there are any.
Profit(lines, discount) ==
  LET charged == {i \in DOMAIN lines : lines[i].net > 0}
  IN IF charged = {} THEN 0
     ELSE Total([i \in charged |-> lines[i].net - lines[i].cost]) - discount

\* enforceNegativeProfitPolicyTx.
ProfitAllowed(lines, discount) == AllowLoss \/ Profit(lines, discount) >= 0

----------------------------------------------------------------------------
(* Sales                                                                   *)

Stored(head) == [f \in DOMAIN head |-> Cents(head[f])]

Written(lines) ==
  [i \in DOMAIN lines |-> [lines[i] EXCEPT !.net = Cents(@), !.tax = Cents(@)]]

\* CreateSaleWithOptions, before its transaction: nothing or something was paid, as the
\* sign of the total allows.
Checkout(r, basket, discount) ==
  /\ till[r] = Closed
  /\ till' = [till EXCEPT ![r] =
       [basket |-> basket, head |-> Totals(Priced(basket), discount * Fine),
        stale |-> FALSE]]
  /\ UNCHANGED <<settings, sold, changes, skewed>>

\* Its transaction.
Sell(r) ==
  LET job == till[r]
      lines == PrepareSaleDetails(job.basket)
  IN /\ job # Closed
     /\ Len(sold) < MaxSales
     /\ ProfitAllowed(lines, job.head.discount)
     /\ sold' = Append(sold,
          [head |-> Stored(job.head), lines |-> Written(lines),
           stale |-> job.stale, refunds |-> <<>>])
     /\ till' = [till EXCEPT ![r] = Closed]
     /\ UNCHANGED <<settings, changes, skewed>>

\* A refusal, or a rollback.
Abandon(r) ==
  /\ till[r] # Closed
  /\ till' = [till EXCEPT ![r] = Closed]
  /\ UNCHANGED <<settings, sold, changes, skewed>>

Returned(sale, i) == Total([k \in DOMAIN sale.refunds |-> sale.refunds[k].lines[i].quantity])

\* Fault: the discount of the sale is kept.
Fault_DiscountShare(sale, gross) == 0

\* What of the discount of the sale the lines refunded had.
DiscountShare(sale, gross) ==
  LET all == (sale.head.subtotal + sale.head.tax) * Fine
  IN IF sale.head.discount > 0 /\ all > 0 /\ gross > 0
     THEN (sale.head.discount * Fine * gross) \div all ELSE 0

\* The lines of a refund of quantity[i] of each, in amounts without their sign.
RefundLines(sale, quantity) ==
  LET part(i, field) ==
        (sale.lines[i][field] * Fine * quantity[i]) \div sale.lines[i].quantity
  IN [i \in DOMAIN sale.lines |->
        [net |-> part(i, "net"), tax |-> part(i, "tax"), quantity |-> quantity[i]]]

RefundTotals(sale, lines) ==
  Totals(lines, DiscountShare(sale, Total(Pick(lines, "net")) + Total(Pick(lines, "tax"))))

\* CreateRefundInvoice.
CreateRefundInvoice(s, quantity) ==
  LET sale == sold[s]
      lines == RefundLines(sale, quantity)
      head == RefundTotals(sale, lines)
  IN /\ \A i \in DOMAIN sale.lines :
          quantity[i] <= sale.lines[i].quantity - Returned(sale, i)
     /\ head.total > 0
     /\ sold' = [sold EXCEPT ![s].refunds =
          Append(@, [head |-> Stored(head), lines |-> Written(lines)])]
     /\ UNCHANGED <<settings, till, changes, skewed>>

----------------------------------------------------------------------------
(* Settings                                                                *)

Change ==
  /\ changes < MaxChanges
  /\ changes' = changes + 1
  /\ till' = [r \in Tills |->
       IF till[r] = Closed THEN Closed ELSE [till[r] EXCEPT !.stale = TRUE]]
  /\ UNCHANGED sold

\* UpdateTax with new components: the percentage is their sum, unless there are none.
ReplaceComponents(t, new) ==
  /\ Change
  /\ new = <<>> \/ Total(new) <= 100
  /\ parts' = [parts EXCEPT ![t] = new]
  /\ rate' = IF new = <<>> THEN rate ELSE [rate EXCEPT ![t] = Total(new)]
  /\ skewed' = skewed \ {t}
  /\ UNCHANGED <<taxOf, inclusive>>

\* UpdateTax of the percentage alone leaves the components.
SetPercentage(t, percent) ==
  /\ Change /\ percent # rate[t]
  /\ rate' = [rate EXCEPT ![t] = percent]
  /\ skewed' = IF parts[t] # <<>> THEN skewed \cup {t} ELSE skewed
  /\ UNCHANGED <<parts, taxOf, inclusive>>

\* The tax of a product or combo is another one, or the price mode is.
AssignTax(g, t) ==
  /\ Change /\ t # taxOf[g]
  /\ taxOf' = [taxOf EXCEPT ![g] = t]
  /\ UNCHANGED <<rate, parts, inclusive, skewed>>

SetPriceMode ==
  /\ Change
  /\ inclusive' = ~inclusive
  /\ UNCHANGED <<rate, parts, taxOf, skewed>>

PricingNext ==
  \/ \E r \in Tills :
       \/ \E basket \in Baskets, discount \in Discounts : Checkout(r, basket, discount)
       \/ Sell(r) \/ Abandon(r)
  \/ \E s \in DOMAIN sold :
       \E quantity \in [DOMAIN sold[s].lines -> 0 .. Total(Pick(sold[s].lines, "quantity"))] :
         CreateRefundInvoice(s, quantity)
  \/ \E t \in Taxes :
       \/ \E a, b \in Rates : ReplaceComponents(t, <<a, b>>)
       \/ ReplaceComponents(t, <<>>)
       \/ \E percent \in Rates : SetPercentage(t, percent)
       \/ \E g \in Sellable : AssignTax(g, t)
  \/ SetPriceMode

PricingSpec == PricingInit /\ [][PricingNext]_pricingVars

----------------------------------------------------------------------------
(* Properties                                                              *)

Abs(x) == IF x < 0 THEN -x ELSE x

\* a and b differ by no more than n roundings.
Within(a, b, n) == 2 * Abs(a - b) <= n

\* The head of a document is the sum of its lines.
HeadIsLines(doc) ==
  LET n == Len(doc.lines)
  IN /\ Within(doc.head.subtotal, Total(Pick(doc.lines, "net")), n + 1)
     /\ Within(doc.head.tax, Total(Pick(doc.lines, "tax")), n + 1)
     /\ Within(doc.head.total, doc.head.subtotal + doc.head.tax - doc.head.discount, 4)

\* computeSaleTaxBreakdown: what it shows of the tax of a line, a component at a time.
Breakdown(line) ==
  LET p == parts[line.by]
  IN IF p # <<>> /\ rate[line.by] > 0
     THEN Total([i \in DOMAIN p |-> line.tax * Fine * p[i]]) \div rate[line.by]
     ELSE line.tax * Fine

AllBack(sale) == \A i \in DOMAIN sale.lines : Returned(sale, i) = sale.lines[i].quantity

\* All refunds of the sale together give back its total, but for the roundings of its own
\* columns and of a total each, and a unit of Fine for each amount computed.
GivesBack(sale) ==
  LET n == Len(sale.lines)
      k == Len(sale.refunds)
      back == Total([j \in 1 .. k |-> sale.refunds[j].head.total])
  IN 2 * Fine * Abs(back - sale.head.total) <= Fine * (2 * n + 1 + k) + 2 * k * (2 * n + 1)

\* Unless a setting changed between the totals of a sale and its lines, the totals are
\* the sums of the lines, all of its refunds together give back its total, each of these
\* within half a cent for each column rounded, and it was not sold at a loss where that is
\* not allowed; refund invoices add up in any case, and the breakdown of a tax adds up
\* unless its percentage was changed without its components (CreateSaleWithOptions,
\* CreateRefundInvoice, computeSaleTaxBreakdown, enforceNegativeProfitPolicyTx).
AmountsAddUp ==
  \A s \in DOMAIN sold :
    LET sale == sold[s]
        n == Len(sale.lines)
        charged == {i \in 1 .. n : sale.lines[i].net > 0}
    IN /\ \A k \in DOMAIN sale.refunds : HeadIsLines(sale.refunds[k])
       /\ \A i \in 1 .. n : sale.lines[i].tax > 0 /\ sale.lines[i].by \notin skewed =>
            Breakdown(sale.lines[i]) = sale.lines[i].tax * Fine
       /\ ~sale.stale =>
            /\ HeadIsLines(sale)
            /\ AllBack(sale) => GivesBack(sale)
            /\ AllowLoss \/ charged = {} \/
                 sale.head.subtotal - sale.head.discount + n >=
                   Total([i \in charged |-> sale.lines[i].cost]) \div Fine
=============================================================================
