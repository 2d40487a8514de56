--------------------------- MODULE MCProcurement ---------------------------
(* Instances of QuickReceipt, with all of Procurement, for TLC.            *)
EXTENDS QuickReceipt, TLC

CONSTANTS l1, pen, phone, s1, p1, p2, r1, r2, k1

ProcurementSymmetry == Permutations({r1, r2}) \cup Permutations({p1, p2})
=============================================================================
