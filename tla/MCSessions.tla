----------------------------- MODULE MCSessions -----------------------------
(* Instances of Sessions for TLC.                                          *)
EXTENDS Sessions, TLC
CONSTANTS a, b, x, c1, c2
=============================================================================
