----------------------------- MODULE Promotions -----------------------------
(***************************************************************************)
(* Promotions, coupons and raffles of a sale                               *)
(* (go_backend_rmt/internal/services/promotions_management.go,             *)
(* loyalty_service.go, pos_service.go).                                    *)
(*                                                                         *)
(* A checkout checks a coupon against what is to pay and takes its         *)
(* discount off; the sale takes the promotions off as well; the coupon is  *)
(* redeemed and the raffle coupons are issued later, from the outbox, for  *)
(* the total that is left.                                                 *)
(*                                                                         *)
(* Simplifications: one series of coupons, all of whose codes exist; dates *)
(* and activity of promotions are in what is set at a time; no manual      *)
(* discount and no points; tiers, customer lists and categories of a       *)
(* promotion are left out, barcodes of its rules too.                      *)
(***************************************************************************)
EXTENDS Integers, Sequences, FiniteSets, SequencesExt

CONSTANTS
  Customers, Nobody,
  Coupons,           \* codes of the series
  NoCoupon,
  Goods,
  SeriesSettings,    \* [active, perCode, perCustomer, minimum, kind, value, most]
  PromotionSettings, \* sequences of [minimum, goods, item, kind, value, rules]
  RaffleSettings,    \* sequences of [trigger, coupons, most, fill]
  Carts,             \* [goods, amount]
  MaxSales,          \* bound
  MaxSettings,       \* bound: changes of settings
  Walkers            \* walks of the outbox

Kinds == {"PERCENTAGE", "FIXED", "FIXED_PRICE"}

SeriesRecord ==
  [active : BOOLEAN, perCode : Nat, perCustomer : Nat, minimum : Int, kind : Kinds,
   value : Int, most : Int]
RuleRecord == [good : Goods, kind : Kinds, value : Int, quantity : Int]
PromotionRecord ==
  [minimum : Int, goods : SUBSET Goods, item : BOOLEAN, kind : Kinds, value : Int,
   rules : Seq(RuleRecord)]
RaffleRecord == [trigger : Int, coupons : Int, most : Int, fill : BOOLEAN]
CartRecord == [goods : (SUBSET Goods) \ {{}}, amount : Nat]

PromotionsConstants ==
  /\ Nobody \notin Customers /\ NoCoupon \notin Coupons
  /\ IsFiniteSet(Coupons) /\ IsFiniteSet(Goods)
  /\ SeriesSettings \subseteq SeriesRecord
  /\ PromotionSettings \subseteq Seq(PromotionRecord)
  /\ RaffleSettings \subseteq Seq(RaffleRecord)
  /\ Carts \subseteq CartRecord
  /\ {MaxSales, MaxSettings} \subseteq Nat

VARIABLES
  series, promotions, raffles, \* what is set
  code,     \* code[k]: times redeemed, the last customer and the last sale
  sold,     \* the sales
  walk,     \* walk[w]: what w is about to commit
  set,      \* changes of settings
  raced     \* history: two redemptions, or two issues, overlapped

settings == <<series, promotions, raffles>>
promotionVars == <<series, promotions, raffles, code, sold, walk, set, raced>>

Resting == [op |-> "none", sale |-> 0, tickets |-> <<>>]

PromotionsInit ==
  /\ series \in SeriesSettings
  /\ promotions \in PromotionSettings
  /\ raffles \in RaffleSettings
  /\ code = [k \in Coupons |-> [count |-> 0, customer |-> Nobody, sale |-> 0]]
  /\ sold = <<>>
  /\ walk = [w \in Walkers |-> Resting]
  /\ set = 0
  /\ raced = FALSE

Total(numbers) == MapThenSumSet(LAMBDA i : numbers[i], DOMAIN numbers)

Least(a, b) == IF a < b THEN a ELSE b

----------------------------------------------------------------------------
(* What a promotion takes off                                              *)

OffBy(kind, value, amount) ==
  CASE kind = "PERCENTAGE" -> (amount * value) \div 100
    [] kind = "FIXED" -> value
    [] kind = "FIXED_PRICE" -> IF amount > value THEN amount - value ELSE 0

\* The items as CreateSaleWithOptions describes them: one of each product, at an equal
\* share of the amount.
ItemAmount(cart) == cart.amount \div Cardinality(cart.goods)

\* One promotion of EvaluatePromotionEligibility: by its rules, or as a whole.
Off(promotion, cart) ==
  LET matched == cart.goods \cap promotion.goods
      rules == promotion.rules
      target == IF promotion.item THEN ItemAmount(cart) * Cardinality(matched) ELSE cart.amount
  IN CASE cart.amount < promotion.minimum -> 0
       [] promotion.rules # <<>> ->
            Total([i \in DOMAIN rules |->
              IF rules[i].good \notin matched \/ rules[i].quantity > 1 THEN 0
              ELSE OffBy(rules[i].kind, rules[i].value, ItemAmount(cart))])
       [] matched = {} -> 0
       [] OTHER -> OffBy(promotion.kind, promotion.value, target)

\* EvaluatePromotionEligibility, for a customer only.
PromotionDiscount(customer, cart) ==
  IF customer = Nobody THEN 0
  ELSE Total([i \in DOMAIN promotions |-> Off(promotions[i], cart)])

----------------------------------------------------------------------------
(* Coupons                                                                 *)

\* The codes that count as used by the customer: those he redeemed last.
UsedBy(customer) == {k \in Coupons : code[k].customer = customer /\ code[k].count > 0}

\* What ValidateCouponCode takes off the amount; 0 if it refuses.
Worth(amount) ==
  LET off == IF series.kind = "PERCENTAGE" THEN (amount * series.value) \div 100
             ELSE series.value
  IN Least(Least(off, series.most), amount)

\* Fault: what a customer used is not counted.
Fault_ValidateCoupon(k, customer, amount) ==
  /\ series.active
  /\ series.perCode > 0 => code[k].count < series.perCode
  /\ amount >= series.minimum
  /\ Worth(amount) > 0

\* ValidateCouponCode.
ValidateCoupon(k, customer, amount) ==
  /\ series.active
  /\ series.perCode > 0 => code[k].count < series.perCode
  /\ amount >= series.minimum
  /\ customer # Nobody /\ series.perCustomer > 0 =>
       Cardinality(UsedBy(customer)) < series.perCustomer
  /\ Worth(amount) > 0

\* A sale with its coupon and raffle rows.
Sale(customer, k, total) ==
  [customer |-> customer, coupon |-> k, total |-> total, redeemed |-> FALSE,
   settled |-> FALSE, refused |-> FALSE, overtaken |-> FALSE,
   tickets |-> <<>>, drawn |-> FALSE]

\* ProcessCheckout and CreateSaleWithOptions: promotions come on top of the coupon.
Checkout(customer, cart, k) ==
  LET coupon == IF k = NoCoupon THEN 0 ELSE Worth(cart.amount)
      total == cart.amount - coupon - PromotionDiscount(customer, cart)
  IN /\ Len(sold) < MaxSales
     /\ k # NoCoupon => ValidateCoupon(k, customer, cart.amount)
     /\ sold' = Append(sold, Sale(customer, k, total))
     /\ UNCHANGED <<settings, code, walk, set, raced>>

Walking(op) == {w \in Walkers : walk[w].op = op}

\* A walk takes up the row of a sale; redemptions and issues of one sale may overlap.
Begin(w, op, s, tickets) ==
  /\ walk' = [walk EXCEPT ![w] = [op |-> op, sale |-> s, tickets |-> tickets]]
  /\ raced' = (raced \/ Walking(op) # {})
  /\ UNCHANGED <<settings, code, set>>

\* RedeemCouponCode up to its transaction: what is compared is the total of the sale.  A
\* refusal leaves the row for another walk.
BeginRedeem(w, s) ==
  LET sale == sold[s]
      k == sale.coupon
  IN /\ walk[w] = Resting /\ k # NoCoupon /\ ~sale.settled
     /\ \/ /\ code[k].sale = s
           /\ sold' = [sold EXCEPT ![s].settled = TRUE]
           /\ UNCHANGED <<settings, code, walk, set, raced>>
        \/ /\ code[k].sale # s
           /\ ~ValidateCoupon(k, sale.customer, sale.total)
           /\ sold' = [sold EXCEPT ![s].refused = TRUE]
           /\ UNCHANGED <<settings, code, walk, set, raced>>
        \/ /\ code[k].sale # s
           /\ ValidateCoupon(k, sale.customer, sale.total)
           /\ Begin(w, "coupon", s, <<>>)
           /\ UNCHANGED sold

\* Sales that were checked before something of the series changed.
Overtaken(but) == [s \in DOMAIN sold |->
  IF s = but \/ sold[s].settled THEN sold[s] ELSE [sold[s] EXCEPT !.overtaken = TRUE]]

\* Its transaction counts on, whatever the count is by then; the row may stay open.
Redeem(w, marked) ==
  LET s == walk[w].sale
      k == sold[s].coupon
      customer == IF sold[s].customer = Nobody THEN code[k].customer ELSE sold[s].customer
  IN /\ walk[w].op = "coupon"
     /\ code' = [code EXCEPT ![k] =
          [count |-> @.count + 1, customer |-> customer, sale |-> s]]
     /\ sold' = [Overtaken(s) EXCEPT ![s].redeemed = TRUE, ![s].settled = marked]
     /\ walk' = [walk EXCEPT ![w] = Resting]
     /\ UNCHANGED <<settings, set, raced>>

----------------------------------------------------------------------------
(* Raffles                                                                 *)

\* raffleCouponCount.
TicketCount(raffle, total) ==
  LET count == Least((total \div raffle.trigger) * raffle.coupons, raffle.most)
  IN IF raffle.trigger <= 0 \/ total < raffle.trigger \/ count < 0 THEN 0 ELSE count

\* Fault: the coupons of all definitions together are capped.
Fault_Tickets(total, customer) ==
  FlattenSeq([i \in DOMAIN raffles |->
    [n \in 1 .. Least(TicketCount(raffles[i], total), 1) |->
      [raffle |-> i, fill |-> raffles[i].fill, filled |-> raffles[i].fill]]])

\* The coupons of a sale. An INSERT returns the customer's data into the variables the
\* next one is filled from: after a definition that does not fill, they are empty.
Tickets(total, customer) ==
  LET issuing(i) == TicketCount(raffles[i], total) > 0
      known(i) == /\ customer # Nobody
                  /\ \A j \in 1 .. i - 1 : issuing(j) => raffles[j].fill
  IN FlattenSeq([i \in DOMAIN raffles |->
       [n \in 1 .. TicketCount(raffles[i], total) |->
         [raffle |-> i, fill |-> raffles[i].fill,
          filled |-> raffles[i].fill /\ known(i)]]])

\* IssueRaffleCouponsForSale: those it has, or new ones.
BeginRaffle(w, s) ==
  /\ walk[w] = Resting /\ ~sold[s].drawn
  /\ IF sold[s].tickets # <<>>
     THEN /\ sold' = [sold EXCEPT ![s].drawn = TRUE]
          /\ UNCHANGED <<settings, code, walk, set, raced>>
     ELSE /\ Begin(w, "raffle", s, Tickets(sold[s].total, sold[s].customer))
          /\ UNCHANGED sold

IssueRaffleCoupons(w, marked) ==
  LET s == walk[w].sale
  IN /\ walk[w].op = "raffle"
     /\ sold' = [sold EXCEPT ![s].tickets = @ \o walk[w].tickets, ![s].drawn = marked]
     /\ walk' = [walk EXCEPT ![w] = Resting]
     /\ UNCHANGED <<settings, code, set, raced>>

\* The walk ends before its commit; the row is taken up again.
Stop(w) ==
  /\ walk[w] # Resting
  /\ walk' = [walk EXCEPT ![w] = Resting]
  /\ UNCHANGED <<settings, code, sold, set, raced>>

----------------------------------------------------------------------------
(* Settings                                                                *)

Change ==
  /\ set < MaxSettings
  /\ set' = set + 1
  /\ sold' = Overtaken(0)
  /\ UNCHANGED <<code, walk, raced>>

UpdateCouponSeries(new) ==
  Change /\ series' = new /\ UNCHANGED <<promotions, raffles>>

DeleteCouponSeries ==
  Change /\ series' = [series EXCEPT !.active = FALSE] /\ UNCHANGED <<promotions, raffles>>

\* CreatePromotion, UpdatePromotion, DeletePromotion.
UpdatePromotions(new) ==
  Change /\ promotions' = new /\ UNCHANGED <<series, raffles>>

\* CreateRaffleDefinition, UpdateRaffleDefinition, DeleteRaffleDefinition.
UpdateRaffles(new) ==
  Change /\ raffles' = new /\ UNCHANGED <<series, promotions>>

PromotionsNext ==
  \/ \E customer \in Customers \cup {Nobody}, cart \in Carts, k \in Coupons \cup {NoCoupon} :
       Checkout(customer, cart, k)
  \/ \E w \in Walkers :
       \/ \E s \in DOMAIN sold : BeginRedeem(w, s) \/ BeginRaffle(w, s)
       \/ \E marked \in BOOLEAN : Redeem(w, marked) \/ IssueRaffleCoupons(w, marked)
       \/ Stop(w)
  \/ DeleteCouponSeries
  \/ \E new \in SeriesSettings : UpdateCouponSeries(new)
  \/ \E new \in PromotionSettings : UpdatePromotions(new)
  \/ \E new \in RaffleSettings : UpdateRaffles(new)

PromotionsSpec == PromotionsInit /\ [][PromotionsNext]_promotionVars

----------------------------------------------------------------------------
(* Properties                                                              *)

RedeemedBy(customer) ==
  {s \in DOMAIN sold : sold[s].customer = customer /\ sold[s].redeemed}

\* Unless two walks overlapped or a setting changed: a customer redeems no more coupons of
\* a series whose codes are used once than it allows him; and a coupon whose discount a
\* sale gave is redeemed, no other redemption having come between, unless the total that
\* is left is below its minimum or nothing; a sale gets the raffle coupons its total
\* earns under each definition once; those to be filled have the customer's data unless
\* an earlier definition did not fill (ValidateCouponCode, RedeemCouponCode,
\* IssueRaffleCouponsForSale).
PromisesKept ==
  /\ ~raced /\ set = 0 /\ series.perCode = 1 /\ series.perCustomer > 0 =>
       \A c \in Customers : Cardinality(RedeemedBy(c)) <= series.perCustomer
  /\ ~raced => \A s \in DOMAIN sold :
       LET sale == sold[s] IN
       /\ sale.refused /\ ~sale.overtaken =>
            sale.total < series.minimum \/ Worth(sale.total) <= 0
       /\ sale.tickets # <<>> /\ set = 0 =>
            /\ \A i \in DOMAIN raffles :
                 Cardinality({n \in DOMAIN sale.tickets : sale.tickets[n].raffle = i})
                   = TicketCount(raffles[i], sale.total)
            /\ \A n \in DOMAIN sale.tickets :
                 LET t == sale.tickets[n] IN
                 t.fill /\ sale.customer # Nobody /\ ~t.filled =>
                   \E m \in 1 .. n - 1 : ~sale.tickets[m].fill
=============================================================================
