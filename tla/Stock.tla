------------------------------- MODULE Stock -------------------------------
(***************************************************************************)
(* Stock on hand, lots and serial numbers                                  *)
(* (go_backend_rmt/internal/services/inventory_tracking_service.go).       *)
(*                                                                         *)
(* Every document that moves stock does it through the two operations of   *)
(* this module, inside its own transaction: Issue and Receive.  Each keeps *)
(* five tables in step: the balance of the variant, the aggregate of the   *)
(* product, the lots, the movements and the serials.                       *)
(*                                                                         *)
(* Simplifications:                                                        *)
(*   - a product has one variant, and one product is serialized;           *)
(*   - the lots of a variant at a location are the sum of what remains in  *)
(*     them, the movements the sum of their quantities: which lot is used  *)
(*     first, and what it cost, is left out;                               *)
(*   - a line of serials has one serial;                                   *)
(*   - Issue locks the lots, then the balance, Receive the balance, and    *)
(*     they keep them to the end of the transaction: what a transaction    *)
(*     does to stock is one step, at its commit.                           *)
(*                                                                         *)
(* Operators named Fault_... are used by no action: each is a wrong form   *)
(* of the definition after it, and some property must refute it.           *)
(***************************************************************************)
EXTENDS Integers, FiniteSets

CONSTANTS
  Locations,
  Plain,         \* variants without serial numbers
  BatchTracked,  \* those of them whose batches are chosen by hand
  Serialized,    \* the serialized variant
  Serials,       \* its serial numbers
  CompanyPolicies, \* bound: the policies companies may have
  Nowhere

Variants == Plain \cup {Serialized}
Places == Locations \X Variants
Policies == {"DONT_ALLOW", "ALLOW", "ALLOW_WITH_APPROVAL"}

ASSUME StockConstants ==
  /\ BatchTracked \subseteq Plain
  /\ Serialized \notin Plain
  /\ Serials \cap Plain = {}
  /\ IsFiniteSet(Serials) /\ IsFiniteSet(Locations)
  /\ Nowhere \notin Locations
  /\ CompanyPolicies \subseteq Policies

VARIABLES
  policy,     \* negative_stock_policy of the company
  onHand,     \* onHand[l, v]: stock_variants.quantity
  aggregate,  \* aggregate[l, v]: stock.quantity of its product
  lots,       \* lots[l, v]: what remains in its lots
  moved,      \* moved[l, v]: the sum of its movements
  uncovered,  \* history: what was issued without a lot
  serial      \* serial[s]: status and place of a serial number

balances == <<onHand, aggregate, lots, moved, uncovered>>
stock == <<policy, balances, serial>>

\* A line of a document names a plain variant or a serial number.
Items == Plain \cup Serials
VariantOf(i) == IF i \in Serials THEN Serialized ELSE i

SerialStatus ==
  {"UNKNOWN", "IN_STOCK", "SOLD", "TRANSFER_IN_TRANSIT", "ADJUSTED_OUT"}
SerialRecord == [status : SerialStatus, at : Locations \cup {Nowhere}]

StockInit ==
  /\ policy \in CompanyPolicies
  /\ onHand = [k \in Places |-> 0]
  /\ aggregate = [k \in Places |-> 0]
  /\ lots = [k \in Places |-> 0]
  /\ moved = [k \in Places |-> 0]
  /\ uncovered = [k \in Places |-> 0]
  /\ serial = [s \in Serials |-> [status |-> "UNKNOWN", at |-> Nowhere]]

----------------------------------------------------------------------------
(* Issue *)

\* validateNegativeStockPolicyTx: may a balance become negative?
Permitted(approved) ==
  \/ policy = "ALLOW"
  \/ policy = "ALLOW_WITH_APPROVAL" /\ approved

\* IssueStockTx refuses a quantity that its serial does not make up, a serial that is
\* not in stock at the location, a batch that does not cover the quantity, and a
\* shortage the policy does not permit.
MayIssue(l, i, q, approved) ==
  LET k == <<l, VariantOf(i)>>
  IN /\ i \in Serials => q = 1 /\ serial[i] = [status |-> "IN_STOCK", at |-> l]
     /\ lots[k] < q => i \in Plain \ BatchTracked
     /\ lots[k] < q \/ onHand[k] < q => Permitted(approved)

\* What the lots of k cover of a quantity.
Covered(k, q) == IF lots[k] < q THEN lots[k] ELSE q

\* Fault: the movement is written for what the lots covered only.
Fault_Issue(l, i, q, status) ==
  LET k == <<l, VariantOf(i)>>
  IN /\ onHand' = [onHand EXCEPT ![k] = @ - q]
     /\ aggregate' = [aggregate EXCEPT ![k] = onHand[k] - q]
     /\ lots' = [lots EXCEPT ![k] = @ - Covered(k, q)]
     /\ uncovered' = [uncovered EXCEPT ![k] = @ + q - Covered(k, q)]
     /\ moved' = [moved EXCEPT ![k] = @ - Covered(k, q)]
     /\ serial' = [s \in Serials |->
          IF s = i THEN [status |-> status, at |-> Nowhere] ELSE serial[s]]
     /\ UNCHANGED policy

\* The lots are consumed, a shortage is a movement without a lot, the balance
\* falls, the aggregate is the sum of the balances again; status is what
\* serialStatusForMovement gives a serial.
Issue(l, i, q, status) ==
  LET k == <<l, VariantOf(i)>>
  IN /\ onHand' = [onHand EXCEPT ![k] = @ - q]
     /\ aggregate' = [aggregate EXCEPT ![k] = onHand[k] - q]
     /\ lots' = [lots EXCEPT ![k] = @ - Covered(k, q)]
     /\ uncovered' = [uncovered EXCEPT ![k] = @ + q - Covered(k, q)]
     /\ moved' = [moved EXCEPT ![k] = @ - q]
     /\ serial' = [s \in Serials |->
          IF s = i THEN [status |-> status, at |-> Nowhere] ELSE serial[s]]
     /\ UNCHANGED policy

----------------------------------------------------------------------------
(* Receive *)

\* What every receipt does: the balance and the aggregate rise, a lot of the
\* whole quantity is created, a movement is written, a serial is in stock.
Stocked(l, i, q) ==
  LET k == <<l, VariantOf(i)>>
  IN /\ onHand' = [onHand EXCEPT ![k] = @ + q]
     /\ aggregate' = [aggregate EXCEPT ![k] = onHand[k] + q]
     /\ lots' = [lots EXCEPT ![k] = @ + q]
     /\ moved' = [moved EXCEPT ![k] = @ + q]
     /\ serial' = [s \in Serials |->
          IF s = i THEN [status |-> "IN_STOCK", at |-> l] ELSE serial[s]]
     /\ UNCHANGED <<policy, uncovered>>

\* Fault: a serial that is known already is taken in again.
Fault_MayReceive(i, q) == i \in Serials => q = 1

\* ReceiveStockTx inserts a serial for each unit; the unique index on the company's
\* serial numbers refuses one that it has already had.
MayReceive(i, q) == i \in Serials => q = 1 /\ serial[i].status = "UNKNOWN"

----------------------------------------------------------------------------
(* What the tables say of each other *)

StockTypeOK ==
  /\ policy \in Policies
  /\ onHand \in [Places -> Int]
  /\ aggregate \in [Places -> Int]
  /\ lots \in [Places -> Nat]
  /\ moved \in [Places -> Int]
  /\ uncovered \in [Places -> Nat]
  /\ serial \in [Serials -> SerialRecord]

\* The serials that are in stock at a location are as many as its balance says.
InStock(l) == {s \in Serials : serial[s] = [status |-> "IN_STOCK", at |-> l]}

SerialsCounted ==
  \A l \in Locations : onHand[<<l, Serialized>>] = Cardinality(InStock(l))

\* A balance is the sum of its movements, what remains in its lots less what was
\* issued without one, and of serials their number (IssueStockTx, ReceiveStockTx);
\* a lot is missing only if the policy lets a balance be short, never of serialized
\* or batch-tracked variants.
BooksAgree ==
  /\ \A k \in Places :
       /\ onHand[k] = moved[k]
       /\ onHand[k] = lots[k] - uncovered[k]
       /\ policy = "DONT_ALLOW" \/ k[2] \notin Plain \ BatchTracked => uncovered[k] = 0
  /\ SerialsCounted

\* The aggregate of a product is the sum of its variants' balances.
AggregateFollows == aggregate = onHand
=============================================================================
