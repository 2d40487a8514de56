---------------------------- MODULE Procurement ----------------------------
(***************************************************************************)
(* Purchases, goods receipts, supplier returns, debit notes and payments   *)
(* (go_backend_rmt/internal/services/purchase_service.go,                  *)
(* purchase_return_service.go, purchase_cost_adjustment_service.go,        *)
(* payment_service.go, and the decision of an order's approval in          *)
(* workflow_service.go).                                                   *)
(*                                                                         *)
(* A request that decides on a status or an amount it has read without a   *)
(* lock is in job from the read to its commit.  Receipts, returns, debit   *)
(* notes and add-ons draw their number before they read a quantity or a    *)
(* total, and a counter of a location is locked to the end of the          *)
(* transaction: two of one kind at one location never overlap there.       *)
(*                                                                         *)
(* Simplifications:                                                        *)
(*   - a purchase has one line at price 1; lots cost what was paid;        *)
(*   - units of purchase are units of stock;                               *)
(*   - a statement that PostgreSQL refuses for how its FOR UPDATE is       *)
(*     written (supplier returns, decisions) does what it was written for. *)
(***************************************************************************)
EXTENDS Stock, FiniteSetsExt

CONSTANTS
  Purchases,   \* rows of purchases
  Requests,    \* concurrent requests
  Keys,        \* idempotency keys
  MaxLine,     \* bound: quantity of a line
  MaxLines,    \* bound: how often the lines of a purchase are written
  MaxSettings, \* bound: statuses set by hand and decisions
  NoPurchase,
  NoKey

VARIABLES
  purchase,  \* purchase[p]: the row and its line
  job,       \* job[r]: what a request has read and is about to write
  raced,     \* history: purchases on which two requests overlapped
  reopened,  \* history: purchases whose status was set with goods received
  settings

books == <<purchase, job, raced, reopened, settings>>
vars == <<stock, books>>

\* A row of purchases with its line.
PurchaseRecord ==
  [status : {"PENDING", "APPROVED", "PARTIALLY_RECEIVED", "RECEIVED", "CANCELLED"},
   approval : {"PENDING", "APPROVED", "REJECTED"}, deleted : BOOLEAN,
   at : Locations, key : Keys \cup {NoKey}, item : Items, qty : 1..MaxLine,
   line : 1..MaxLines, received : Nat, returned : Nat, debited : Nat,
   total : Int, paid : Nat]

ASSUME ProcurementConstants ==
  /\ MaxLine \in Nat \ {0} /\ MaxLines \in Nat \ {0} /\ MaxSettings \in Nat
  /\ IsFiniteSet(Purchases)
  /\ NoKey \notin Keys
  /\ NoPurchase \notin Purchases \cup PurchaseRecord

Lines == [item : Plain, qty : 1..MaxLine] \cup [item : Serials, qty : {1}]

Idle == [op |-> "none", on |-> NoPurchase, n |-> 0, line |-> 0]

Init ==
  /\ StockInit
  /\ purchase = [p \in Purchases |-> NoPurchase]
  /\ job = [r \in Requests |-> Idle]
  /\ raced = {}
  /\ reopened = {}
  /\ settings = 0

Rows == {p \in Purchases : purchase[p] # NoPurchase}
Live == {p \in Rows : ~purchase[p].deleted}
Busy(p) == {r \in Requests : job[r].on = p}
Approvals == IF policy = "ALLOW_WITH_APPROVAL" THEN BOOLEAN ELSE {FALSE}

\* The request has read p, and remembers the line it is about.
Begin(r, op, p, n) ==
  /\ job[r] = Idle
  /\ job' = [job EXCEPT ![r] =
       [op |-> op, on |-> p, n |-> n, line |-> purchase[p].line]]
  /\ raced' = IF Busy(p) = {} THEN raced ELSE raced \cup {p}
  /\ UNCHANGED <<stock, purchase, reopened, settings>>

End(r) ==
  /\ job' = [job EXCEPT ![r] = Idle]
  /\ UNCHANGED <<raced, settings>>

\* A request that is refused, or fails, leaves nothing behind.
RollBack(r) ==
  /\ job[r] # Idle
  /\ End(r)
  /\ UNCHANGED <<stock, purchase, reopened>>

----------------------------------------------------------------------------
(* Orders                                                                  *)

\* Fault: the key is looked up, and nothing stops a second row.
Fault_KeyTaken(key) ==
  key # NoKey /\ \E p \in Live : purchase[p].key = key /\ purchase[p].status = "PENDING"

\* The unique index on (location, key), which deleted rows keep.
KeyTaken(key) == key # NoKey /\ \E p \in Rows : purchase[p].key = key

\* CreatePurchase; an approval is asked for in the same transaction.
CreatePurchase(p, l, line, paid, key) ==
  /\ purchase[p] = NoPurchase
  /\ ~KeyTaken(key)
  /\ paid <= line.qty
  /\ purchase' = [purchase EXCEPT ![p] =
       [status |-> "PENDING", approval |-> "PENDING", deleted |-> FALSE, at |-> l,
        key |-> key, item |-> line.item, qty |-> line.qty, line |-> 1,
        received |-> 0, returned |-> 0, debited |-> 0,
        total |-> line.qty, paid |-> paid]]
  /\ UNCHANGED <<stock, job, raced, reopened, settings>>

\* decideRequest locks the request; an approval sets the order APPROVED, whatever it
\* was.  ApprovePurchaseOrder does so even if no request is pending any more.
Approve(p) ==
  /\ settings < MaxSettings
  /\ p \in Live
  /\ purchase' = [purchase EXCEPT ![p].status = "APPROVED", ![p].approval =
       IF @ = "PENDING" THEN "APPROVED" ELSE @]
  /\ reopened' = IF purchase[p].received > 0 THEN reopened \cup {p} ELSE reopened
  /\ settings' = settings + 1
  /\ UNCHANGED <<stock, job, raced>>

\* RejectRequest: the order stays as it is.
Reject(p) ==
  /\ settings < MaxSettings
  /\ p \in Rows
  /\ purchase[p].approval = "PENDING"
  /\ purchase' = [purchase EXCEPT ![p].approval = "REJECTED"]
  /\ settings' = settings + 1
  /\ UNCHANGED <<stock, job, raced, reopened>>

\* UpdatePurchase, DeletePurchase: what they refuse, as of their read.
BeginUpdate(r, p, op) ==
  /\ settings < MaxSettings
  /\ p \in Live
  /\ purchase[p].status \notin {"RECEIVED", "CANCELLED"}
  /\ Begin(r, op, p, 0)

\* Fault: a received purchase is not refused.
Fault_BeginDelete(r, p) == p \in Live /\ Begin(r, "delete", p, 0)

BeginDelete(r, p) ==
  /\ p \in Live
  /\ purchase[p].status # "RECEIVED"
  /\ Begin(r, "delete", p, 0)

\* UpdatePurchase writes the status it was given.
SetStatus(r) ==
  LET p == job[r].on
  IN /\ job[r].op \in {"PENDING", "RECEIVED", "CANCELLED"}
     /\ settings < MaxSettings
     /\ purchase' = [purchase EXCEPT ![p].status = job[r].op]
     /\ reopened' = IF purchase[p].received > 0 THEN reopened \cup {p} ELSE reopened
     /\ job' = [job EXCEPT ![r] = Idle]
     /\ settings' = settings + 1
     /\ UNCHANGED <<stock, raced>>

\* Fault: an adjustment does not hold on to its line.
Fault_Referenced(p) == purchase[p].received > 0

\* A receipt, a return or an adjustment refers to the line (foreign keys).
Referenced(p) == purchase[p].received > 0 \/ purchase[p].debited > 0

\* UpdatePurchase replaces the lines, unless one is referred to, and counts the total
\* anew.
ReplaceLines(r, line) ==
  LET p == job[r].on
  IN /\ job[r].op = "lines"
     /\ purchase[p].line < MaxLines
     /\ ~Referenced(p)
     /\ purchase' = [purchase EXCEPT ![p].item = line.item, ![p].qty = line.qty,
          ![p].line = @ + 1, ![p].total = line.qty]
     /\ End(r)
     /\ UNCHANGED <<stock, reopened>>

DeletePurchase(r) ==
  /\ job[r].op = "delete"
  /\ purchase' = [purchase EXCEPT ![job[r].on].deleted = TRUE]
  /\ End(r)
  /\ UNCHANGED <<stock, reopened>>

----------------------------------------------------------------------------
(* Goods                                                                   *)

\* ReceivePurchase reads the status before it draws its number.
BeginReceipt(r, p, n) ==
  /\ p \in Live
  /\ purchase[p].status \in {"PENDING", "APPROVED", "PARTIALLY_RECEIVED"}
  /\ Begin(r, "receive", p, n)

\* Fault: no number is drawn, or the receipt is numbered last.
Fault_Counting(l, op) == {}

\* Requests of a kind that hold the counter of a location.
Counting(l, op) ==
  {r \in Requests : job[r].op = op /\ purchase[job[r].on].at = l}

\* With its number, the receipt reads what is still to come of its line.
CountReceipt(r) ==
  LET p == job[r].on
  IN /\ job[r].op = "receive"
     /\ Counting(purchase[p].at, "count") = {}
     /\ job[r].line = purchase[p].line
     /\ purchase[p].received + job[r].n <= purchase[p].qty
     /\ job' = [job EXCEPT ![r].op = "count"]
     /\ UNCHANGED <<stock, purchase, raced, reopened, settings>>

\* It adds to the line, unless that was replaced meanwhile, receives the stock, and
\* sets the status whatever it is by then.
ReceivePurchase(r) ==
  LET p == job[r].on
      received == purchase[p].received + job[r].n
  IN /\ job[r].op = "count"
     /\ job[r].line = purchase[p].line
     /\ MayReceive(purchase[p].item, job[r].n)
     /\ Stocked(purchase[p].at, purchase[p].item, job[r].n)
     /\ purchase' = [purchase EXCEPT ![p].received = received, ![p].status =
          IF received >= purchase[p].qty THEN "RECEIVED" ELSE "PARTIALLY_RECEIVED"]
     /\ End(r)
     /\ UNCHANGED reopened

\* Fault: earlier returns are not subtracted.
Fault_Returnable(p) == purchase[p].received

Returnable(p) == purchase[p].received - purchase[p].returned

\* CreatePurchaseReturn draws its number first, then locks the line and sums what
\* was returned: returns wait for each other, and for a receipt of the line.
CreatePurchaseReturn(p, n, approved) ==
  /\ p \in Live
  /\ {r \in Busy(p) : job[r].op = "count"} = {}
  /\ n <= Returnable(p)
  /\ MayIssue(purchase[p].at, purchase[p].item, n, approved)
  /\ Issue(purchase[p].at, purchase[p].item, n, "ADJUSTED_OUT")
  /\ purchase' = [purchase EXCEPT ![p].returned = @ + n]
  /\ UNCHANGED <<job, raced, reopened, settings>>

----------------------------------------------------------------------------
(* Money                                                                   *)

\* updatePurchaseTotalsTx reads the total and wants it to stay above zero; an add-on
\* needs goods received, a debit note that reduces stock does not.
BeginReduction(r, p, op, n) ==
  /\ p \in Live
  /\ Counting(purchase[p].at, op) = {}
  /\ n <= purchase[p].total
  /\ op = "addon" => purchase[p].received > 0
  /\ Begin(r, op, p, n)

\* CreateSupplierDebitNote takes the goods from stock, however many were received.
CreateSupplierDebitNote(r, approved) ==
  LET p == job[r].on
  IN /\ job[r].op = "debit"
     /\ job[r].line = purchase[p].line
     /\ MayIssue(purchase[p].at, purchase[p].item, job[r].n, approved)
     /\ Issue(purchase[p].at, purchase[p].item, job[r].n, "ADJUSTED_OUT")
     /\ purchase' = [purchase EXCEPT ![p].total = @ - job[r].n,
                                     ![p].debited = @ + job[r].n]
     /\ End(r)
     /\ UNCHANGED reopened

\* CreateGoodsReceiptAddons: an amount off the purchase, and no goods.
CreateGoodsReceiptAddons(r) ==
  /\ job[r].op = "addon"
  /\ purchase' = [purchase EXCEPT ![job[r].on].total = @ - job[r].n]
  /\ End(r)
  /\ UNCHANGED <<stock, reopened>>

\* Fault: the amount is compared with the total.
Fault_Outstanding(p) == purchase[p].total

Outstanding(p) == purchase[p].total - purchase[p].paid

\* CreatePayment reads what is outstanding before it draws its number.
BeginPayment(r, p, n) ==
  /\ p \in Live
  /\ n <= Outstanding(p)
  /\ Begin(r, "pay", p, n)

CreatePayment(r) ==
  /\ job[r].op = "pay"
  /\ purchase' = [purchase EXCEPT ![job[r].on].paid = @ + job[r].n]
  /\ End(r)
  /\ UNCHANGED <<stock, reopened>>

----------------------------------------------------------------------------

\* What staff do at the back office.
NewOrder ==
  \E p \in Purchases, l \in Locations, line \in Lines, paid \in 0..MaxLine :
    CreatePurchase(p, l, line, paid, NoKey)

Order ==
  \/ \E p \in Purchases : Approve(p) \/ Reject(p)
  \/ \E r \in Requests, p \in Purchases :
       \/ \E op \in {"PENDING", "RECEIVED", "CANCELLED", "lines"} : BeginUpdate(r, p, op)
       \/ BeginDelete(r, p)
  \/ \E r \in Requests :
       SetStatus(r) \/ DeletePurchase(r) \/ \E line \in Lines : ReplaceLines(r, line)

Goods ==
  \/ \E r \in Requests, p \in Purchases, n \in 1..MaxLine : BeginReceipt(r, p, n)
  \/ \E r \in Requests : CountReceipt(r)
  \/ \E p \in Purchases, n \in 1..MaxLine, approved \in Approvals :
       CreatePurchaseReturn(p, n, approved)

Money ==
  \/ \E r \in Requests, p \in Purchases, n \in 1..MaxLine :
       \/ \E op \in {"debit", "addon"} : BeginReduction(r, p, op, n)
       \/ BeginPayment(r, p, n)
  \/ \E r \in Requests :
       \/ \E approved \in Approvals : CreateSupplierDebitNote(r, approved)
       \/ CreateGoodsReceiptAddons(r)
       \/ CreatePayment(r)

Next ==
  \/ NewOrder \/ Order \/ Goods \/ Money
  \/ \E r \in Requests : ReceivePurchase(r) \/ RollBack(r)

Spec == Init /\ [][Next]_vars

----------------------------------------------------------------------------
(* Properties                                                              *)

TypeOK ==
  /\ StockTypeOK
  /\ purchase \in [Purchases -> PurchaseRecord \cup {NoPurchase}]
  /\ job \in [Requests ->
       {Idle} \cup
       [op : {"PENDING", "RECEIVED", "CANCELLED", "lines", "delete", "receive",
              "count", "debit", "addon", "pay"},
        on : Purchases, n : Nat, line : Nat]]
  /\ raced \subseteq Purchases
  /\ reopened \subseteq Purchases
  /\ settings \in 0..MaxSettings

\* purchase_service.go:681, "received quantity exceeds remaining quantity": however
\* receipts, returns and replaced lines of a purchase interleave, no more comes in than
\* was ordered and no more goes back than came in.
LinesKept ==
  \A p \in Rows :
    /\ purchase[p].received <= purchase[p].qty
    /\ purchase[p].returned <= purchase[p].received

\* The balances are what the lines of the purchases say came in, went back and was
\* taken by debit notes, those of deleted and cancelled purchases included.
GoodsFollowLines ==
  \A k \in Places :
    LET of == {p \in Rows : <<purchase[p].at, VariantOf(purchase[p].item)>> = k}
    IN onHand[k] = MapThenSumSet(LAMBDA p :
         purchase[p].received - purchase[p].returned - purchase[p].debited, of)

\* purchase_service.go:1237, "cannot delete received purchase": a purchase whose goods
\* are all in is RECEIVED for good, unless an approval or an update came after goods
\* did, or another request overlapped the last receipt.
ReceivedIsFinal ==
  \A p \in Rows \ (raced \cup reopened) :
    purchase[p].received = purchase[p].qty =>
      purchase[p].status = "RECEIVED" /\ ~purchase[p].deleted

\* payment_service.go:122: a payment does not exceed what is outstanding when it is
\* recorded, and no adjustment brings a total below zero, unless requests on the
\* purchase overlap.
PaidWithinTotal ==
  [][\A p \in Rows \ raced' :
       /\ purchase'[p].total >= 0
       /\ purchase'[p].paid > purchase[p].paid => purchase'[p].paid <= purchase'[p].total]_vars
=============================================================================
