------------------------- MODULE MCCustomerAccounts -------------------------
(***************************************************************************)
(* One instance for TLC of the modules about a customer: what he owes and  *)
(* his points (CustomerAccounts), and promotions, coupons and raffles      *)
(* (Promotions). A behaviour is of one of them, its part, and the other    *)
(* rests.                                                                  *)
(***************************************************************************)
EXTENDS CustomerAccounts, TLC

CONSTANTS
  c1, c2, r1, r2,      \* model values
  Customers, Nobody, Goods,
  SeriesSettings, PromotionSettings, RaffleSettings, Carts,
  MaxSales, MaxSettings

VARIABLES
  part, series, promotions, raffles, code, sold, walk, set, raced

\* A series of [active, perCode, perCustomer, minimum, kind, value, most], a promotion by
\* its rules or as a whole, and a definition of a raffle.
CouponSeries(perCode, minimum, kind, value) ==
  [active |-> TRUE, perCode |-> perCode, perCustomer |-> 1, minimum |-> minimum,
   kind |-> kind, value |-> value, most |-> 50]

OfItem == [minimum |-> 50, goods |-> {"pot"}, item |-> TRUE, kind |-> "PERCENTAGE",
           value |-> 20, rules |-> <<>>]
ByRule == [minimum |-> 0, goods |-> {"tea", "pot"}, item |-> FALSE, kind |-> "FIXED",
           value |-> 0,
           rules |-> <<[good |-> "tea", kind |-> "FIXED_PRICE", value |-> 30, quantity |-> 0]>>]

OfLarge == [OfItem EXCEPT !.minimum = 150]

Raffle(trigger, coupons, fill) ==
  [trigger |-> trigger, coupons |-> coupons, most |-> 3, fill |-> fill]

\* The promotions leave a total below 60; the dearest raffle comes first.
OnceOrTwice == {CouponSeries(1, 60, "PERCENTAGE", 20), CouponSeries(2, 0, "FIXED", 20)}
NoneOrAll == {<<>>, <<OfItem, ByRule, OfLarge>>}
ThreeRaffles == {<<Raffle(40, 1, TRUE), Raffle(30, 2, FALSE), Raffle(10, 1, TRUE)>>}
OneOfEach == {[goods |-> Goods, amount |-> 100]}

Offers == INSTANCE Promotions WITH
  Coupons <- Collections, NoCoupon <- NoCollection, Walkers <- Requests

ASSUME CustomersConstants == Offers!PromotionsConstants

offers == <<series, promotions, raffles, code, sold, walk, set, raced>>

CustomersInit ==
  /\ Init /\ Offers!PromotionsInit
  /\ part \in {"accounts", "offers"}
  /\ promotions = <<>> /\ series.perCode = 1

\* Nothing is claimed of walks that overlapped, so nothing follows them; and
\* little is left to claim of an account that is excused and overdrawn, so it ends too.
CustomersNext ==
  /\ UNCHANGED part
  /\ \/ part = "accounts" /\ ~(excused /\ overdrawn) /\ Next /\ UNCHANGED offers
     \/ part = "offers" /\ ~raced /\ Offers!PromotionsNext /\ UNCHANGED vars

CustomersSpec == CustomersInit /\ [][CustomersNext]_<<part, vars, offers>>

AccountSymmetry == Permutations({r1, r2}) \cup Permutations({c1, c2})

\* Coupons and raffle coupons are what the sales earn (RedeemCouponCode,
\* IssueRaffleCouponsForSale); Promotions explains it.
PromisesKept == Offers!PromisesKept
=============================================================================
