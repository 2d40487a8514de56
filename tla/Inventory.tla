----------------------------- MODULE Inventory -----------------------------
(***************************************************************************)
(* Stock adjustments and transfers between locations                       *)
(* (go_backend_rmt/internal/services/inventory_service.go).                *)
(*                                                                         *)
(* A transfer is PENDING until its source approves it, which issues the    *)
(* stock, then IN_TRANSIT until its destination completes it, which        *)
(* receives it.  A PENDING one can be cancelled.  Each of the three reads  *)
(* the status without a lock at the start of its transaction, and updates  *)
(* it at the end whatever it is by then: a request is a look and a commit, *)
(* and two requests on one transfer may overlap.                           *)
(*                                                                         *)
(* Simplification: a transfer, and an adjustment document, has one line.   *)
(***************************************************************************)
EXTENDS Stock, FiniteSetsExt

CONSTANTS
  Transfers,
  Requests,       \* concurrent requests on transfers
  MaxLine,        \* bound: quantity of a line
  MaxAdjustments, \* bound: adjustments
  NoTransfer

VARIABLES
  transfer,    \* transfer[t]: its row and its line
  job,         \* job[r]: the request r has begun, on the status it has read
  overlapped,  \* history: transfers on which two requests overlapped
  net,         \* history: net[v], what adjustments brought in less what they took out
  adjustments

vars == <<stock, transfer, job, overlapped, net, adjustments>>

TransferRecord ==
  [status : {"PENDING", "IN_TRANSIT", "COMPLETED", "CANCELLED"},
   from : Locations, to : Locations, item : Items, qty : 1..MaxLine]

InventoryConstants ==
  /\ MaxLine \in Nat \ {0} /\ MaxAdjustments \in Nat
  /\ IsFiniteSet(Transfers) /\ NoTransfer \notin TransferRecord

Lines == [item : Plain, qty : 1..MaxLine] \cup [item : Serials, qty : {1}]

Idle == [op |-> "none", on |-> NoTransfer, approved |-> FALSE]

TransfersInit ==
  /\ transfer = [t \in Transfers |-> NoTransfer]
  /\ job = [r \in Requests |-> Idle]
  /\ overlapped = {}
  /\ net = [v \in Variants |-> 0]
  /\ adjustments = 0

Init == StockInit /\ TransfersInit

----------------------------------------------------------------------------
(* Adjustments: AdjustStock, and CreateStockAdjustmentDocument             *)

AdjustIn(l, line) ==
  /\ adjustments < MaxAdjustments
  /\ MayReceive(line.item, line.qty)
  /\ Stocked(l, line.item, line.qty)
  /\ net' = [net EXCEPT ![VariantOf(line.item)] = @ + line.qty]
  /\ adjustments' = adjustments + 1
  /\ UNCHANGED <<transfer, job, overlapped>>

AdjustOut(l, line, approved) ==
  /\ adjustments < MaxAdjustments
  /\ MayIssue(l, line.item, line.qty, approved)
  /\ Issue(l, line.item, line.qty, "ADJUSTED_OUT")
  /\ net' = [net EXCEPT ![VariantOf(line.item)] = @ - line.qty]
  /\ adjustments' = adjustments + 1
  /\ UNCHANGED <<transfer, job, overlapped>>

----------------------------------------------------------------------------
(* Transfers *)

\* CreateStockTransfer moves nothing yet; the two locations differ only if the
\* caller says so.
CreateStockTransfer(t, from, to, line) ==
  /\ transfer[t] = NoTransfer
  /\ transfer' = [transfer EXCEPT ![t] =
       [status |-> "PENDING", from |-> from, to |-> to,
        item |-> line.item, qty |-> line.qty]]
  /\ UNCHANGED <<stock, job, overlapped, net, adjustments>>

\* The beginning of a request: its reading of the status, and the check on it.
Look(r, op, t, status, approved) ==
  /\ job[r] = Idle
  /\ transfer[t] # NoTransfer
  /\ transfer[t].status = status
  /\ job' = [job EXCEPT ![r] = [op |-> op, on |-> t, approved |-> approved]]
  /\ overlapped' = IF \E other \in Requests : job[other].on = t
                     THEN overlapped \cup {t} ELSE overlapped
  /\ UNCHANGED <<stock, transfer, net, adjustments>>

BeginApprove(r, t, approved) == Look(r, "approve", t, "PENDING", approved)
BeginComplete(r, t)          == Look(r, "complete", t, "IN_TRANSIT", FALSE)
BeginCancel(r, t)            == Look(r, "cancel", t, "PENDING", FALSE)

\* Fault: a transfer that is approved stays PENDING, and can be approved again.
Fault_Finish(r, status) ==
  /\ transfer' = [transfer EXCEPT ![job[r].on].status =
                    IF status = "IN_TRANSIT" THEN @ ELSE status]
  /\ job' = [job EXCEPT ![r] = Idle]
  /\ UNCHANGED <<overlapped, net, adjustments>>

\* The end of one: the UPDATE of the status has no condition on it.
Finish(r, status) ==
  /\ transfer' = [transfer EXCEPT ![job[r].on].status = status]
  /\ job' = [job EXCEPT ![r] = Idle]
  /\ UNCHANGED <<overlapped, net, adjustments>>

\* issueTransferTrackedStockTx at the source, then IN_TRANSIT.
ApproveStockTransfer(r) ==
  LET t == transfer[job[r].on]
  IN /\ job[r].op = "approve"
     /\ MayIssue(t.from, t.item, t.qty, job[r].approved)
     /\ Issue(t.from, t.item, t.qty, "TRANSFER_IN_TRANSIT")
     /\ Finish(r, "IN_TRANSIT")

\* receiveTransferTrackedStockTx at the destination, then COMPLETED: a serial has
\* to be in transit, the quantity of a plain line is received whatever happened.
CompleteStockTransfer(r) ==
  LET t == transfer[job[r].on]
  IN /\ job[r].op = "complete"
     /\ t.item \in Serials => t.qty = 1 /\ serial[t.item].status = "TRANSFER_IN_TRANSIT"
     /\ Stocked(t.to, t.item, t.qty)
     /\ Finish(r, "COMPLETED")

CancelStockTransfer(r) ==
  /\ job[r].op = "cancel"
  /\ Finish(r, "CANCELLED")
  /\ UNCHANGED stock

\* A request that is refused, or whose transaction fails, leaves nothing behind.
RollBack(r) ==
  /\ job[r] # Idle
  /\ job' = [job EXCEPT ![r] = Idle]
  /\ UNCHANGED <<stock, transfer, overlapped, net, adjustments>>

----------------------------------------------------------------------------

Adjust ==
  \E l \in Locations, line \in Lines :
    \/ AdjustIn(l, line)
    \/ \E approved \in BOOLEAN : AdjustOut(l, line, approved)

Next ==
  \/ Adjust
  \/ \E t \in Transfers, from, to \in Locations, line \in Lines :
       CreateStockTransfer(t, from, to, line)
  \/ \E r \in Requests, t \in Transfers :
       \/ \E approved \in BOOLEAN : BeginApprove(r, t, approved)
       \/ BeginComplete(r, t)
       \/ BeginCancel(r, t)
  \/ \E r \in Requests :
       \/ ApproveStockTransfer(r)
       \/ CompleteStockTransfer(r)
       \/ CancelStockTransfer(r)
       \/ RollBack(r)

Spec == Init /\ [][Next]_vars

----------------------------------------------------------------------------
(* Properties                                                              *)

TypeOK ==
  /\ StockTypeOK
  /\ transfer \in [Transfers -> TransferRecord \cup {NoTransfer}]
  /\ job \in [Requests -> [op : {"none", "approve", "complete", "cancel"},
                           on : Transfers \cup {NoTransfer}, approved : BOOLEAN]]
  /\ overlapped \subseteq Transfers
  /\ net \in [Variants -> Int]
  /\ adjustments \in 0..MaxAdjustments

Shipped == {t \in Transfers : transfer[t] # NoTransfer /\ transfer[t].status = "IN_TRANSIT"}

\* Quantity of v on the road.
InTransit(v) ==
  MapThenSumSet(LAMBDA t : IF VariantOf(transfer[t].item) = v THEN transfer[t].qty ELSE 0,
                Shipped)

OnShelves(v) == MapThenSumSet(LAMBDA l : onHand[<<l, v>>], Locations)

\* Whatever overlaps: a serial in transit belongs to a transfer that was approved,
\* and a transfer that is IN_TRANSIT has its serial on the road, unless a disputed
\* transfer of the same serial took it.
SerialsOnTheRoad ==
  /\ \A s \in Serials : serial[s].status = "TRANSFER_IN_TRANSIT" =>
       \E t \in Shipped \cup overlapped : transfer[t].item = s
  /\ \A t \in Shipped :
       \/ transfer[t].item \in Plain
       \/ serial[transfer[t].item].status = "TRANSFER_IN_TRANSIT"
       \/ \E o \in overlapped : transfer[o].item = transfer[t].item

\* Transfers neither make nor lose stock: what the company has on its shelves and
\* on the road is what adjustments brought in, as long as no two requests on one
\* transfer overlapped; and serials are on the road with their transfers even then.
Conserved ==
  /\ overlapped = {} => \A v \in Variants : OnShelves(v) + InTransit(v) = net[v]
  /\ SerialsOnTheRoad

\* MODULE_UAT_MATRIX.md:33, "Source and destination quantities update correctly":
\* whatever requests overlap.
AlwaysConserved ==
  \A v \in Variants : OnShelves(v) + InTransit(v) = net[v]

=============================================================================
