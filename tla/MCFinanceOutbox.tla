-------------------------- MODULE MCFinanceOutbox --------------------------
(* Instances of FinanceOutbox for TLC.                                     *)
EXTENDS FinanceOutbox, TLC

CONSTANTS d1, d2, d3

\* One cash sale to a loyalty customer.
CashSale == d1 :> {"ledger", "cash", "award"}

\* A sale, that of a customer with the same coupon code, and a held sale waiting to
\* be finalized.
SalesAndHeld ==
  (d1 :> {"ledger", "coupon"}) @@ (d2 :> {"ledger", "coupon", "award"})
    @@ (d3 :> {"ledger"})

\* A cash sale, and a held sale waiting to be finalized.
CashSaleAndHeld == (d1 :> {"ledger", "cash"}) @@ (d2 :> {"ledger"})

\* A supplier payment in cash.
CashPayment == d1 :> {"ledger", "cash"}

\* Two sales with the same coupon code.
CouponSales == [d \in {d1, d2} |-> {"ledger", "coupon"}]

WorkerSymmetry == Permutations(Workers)
=============================================================================
