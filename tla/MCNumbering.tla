---------------------------- MODULE MCNumbering ----------------------------
(* Instances of Numbering for TLC.                                         *)
EXTENDS Numbering, TLC

CONSTANTS l1, l2, till1, till2, clerk1

\* Two tills and the back office of one shop.
OneShop == [x \in {till1, till2, clerk1} |-> l1]

\* A till of each of two shops, and the back office of the first.
TwoShops == [x \in {till1, till2, clerk1} |-> IF x = till2 THEN l2 ELSE l1]

TillSymmetry == Permutations({till1, till2})
=============================================================================
