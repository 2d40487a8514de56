--------------------------- MODULE MCClientOutbox ---------------------------
(* Instances of ClientOutbox for TLC.                                      *)
EXTENDS ClientOutbox, TLC

CONSTANTS s1, s2

SaleSymmetry == Permutations({s1, s2})
=============================================================================
