--------------------------- MODULE SaleDocuments ---------------------------
(***************************************************************************)
(* Sales, held sales, refunds, returns, voids and edits against the stock  *)
(* (go_backend_rmt/internal/services/sales_service.go, pos_service.go,     *)
(* pos_sale_edit.go, returns_service.go).                                  *)
(*                                                                         *)
(* A sale is recorded COMPLETED, taking its stock, or is held as a DRAFT   *)
(* and finalized later.  What was sold comes back through a refund invoice,*)
(* a negative line of a new sale at the till, or a sale return; each is    *)
(* bounded by what the line has left.  A refund or a return that has read  *)
(* what is left is in job, until it commits or rolls back; a request that  *)
(* reads the status before its transaction may have read it at any time.   *)
(*                                                                         *)
(* Simplifications:                                                        *)
(*   - a document has one line, and a till refund sells nothing besides;   *)
(*   - training sales, which move no stock, are left out, and so are       *)
(*     prices, payments and the passwords that a request brings;           *)
(*   - pos_status, which no decision here reads, is left out.              *)
(***************************************************************************)
EXTENDS Stock, FiniteSetsExt

CONSTANTS
  Sales,        \* rows of sales
  Requests,     \* concurrent till refunds and returns
  MaxLine,      \* bound: quantity of a line
  MaxSupply,    \* bound: quantity that comes in of a variant
  MaxOverrides, \* bound: statuses set by hand
  StopAtDispute, \* bound: nothing happens after a sale became disputed
  NoSale

VARIABLES
  sale,       \* sale[s]: row and line of a document
  returned,   \* returned[s]: quantity of its line in sale_returns
  job,        \* job[r]: what the request is about to take back
  raced,      \* history: sales returned while a till refunded them
  disputed,   \* history: sales whose stock the code lost track of
  supplied,   \* history: supplied[v], goods received
  overrides

documents == <<sale, returned, job, raced, disputed, overrides>>
vars == <<stock, documents, supplied>>

DocumentRecord ==
  [status : {"DRAFT", "COMPLETED", "VOID"},
   channel : {"POS", "INVOICE", "HELD", "POS_REFUND", "NONE"}, deleted : BOOLEAN,
   at : Locations, item : Items, qty : Nat, source : Sales \cup {NoSale}, back : Nat]

SaleConstants ==
  /\ MaxLine \in Nat \ {0} /\ MaxSupply \in Nat /\ MaxOverrides \in Nat
  /\ StopAtDispute \in BOOLEAN /\ IsFiniteSet(Sales)
  /\ NoSale \notin Sales \cup DocumentRecord

Lines == [item : Plain, qty : 1..MaxLine] \cup [item : Serials, qty : {1}]

Idle == [op |-> "none", on |-> NoSale, qty |-> 0]

DocumentsInit ==
  /\ sale = [s \in Sales |-> NoSale]
  /\ returned = [s \in Sales |-> 0]
  /\ job = [r \in Requests |-> Idle]
  /\ raced = {}
  /\ disputed = {}
  /\ supplied = [v \in Variants |-> 0]
  /\ overrides = 0

Init == StockInit /\ DocumentsInit

\* A goods receipt, or an adjustment: a variant comes in, once.
Supply(l, i, q) ==
  /\ supplied[VariantOf(i)] = 0
  /\ MayReceive(i, q)
  /\ Stocked(l, i, q)
  /\ supplied' = [supplied EXCEPT ![VariantOf(i)] = q]
  /\ UNCHANGED documents

\* A password is worth asking for only if the policy wants one.
Approvals == IF policy = "ALLOW_WITH_APPROVAL" THEN BOOLEAN ELSE {FALSE}

----------------------------------------------------------------------------
(* Documents                                                               *)

Rows == {s \in Sales : sale[s] # NoSale}
Live == {s \in Rows : ~sale[s].deleted}
Completed == {s \in Live : sale[s].status = "COMPLETED"}

\* channel is the source_channel of the row, HELD that of a sale of the till that
\* was held first.
Document(at, status, channel, item, qty, source, back) ==
  [status |-> status, channel |-> channel, deleted |-> FALSE, at |-> at,
   item |-> item, qty |-> qty, source |-> source, back |-> back]

\* The refunds of s through a document of their own.
RefundsOf(s) == {d \in Rows : sale[d].source = s}
Refunded(s, docs) == MapThenSumSet(LAMBDA d : sale[d].back, docs)

\* loadRefundableSaleLineTx, allocateSaleReturnLines: what the line has left.
Left(s) ==
  LET left == sale[s].qty - returned[s] - Refunded(s, RefundsOf(s) \cap Completed)
  IN IF left < 0 THEN 0 ELSE left

\* Foreign keys keep the lines that a refund or a return refers to.
Referenced(s) == returned[s] > 0 \/ RefundsOf(s) # {}

\* Only a held sale has ever been a DRAFT: a request may have read that, however
\* long ago.
WasDraft(s) == sale[s].status = "DRAFT" \/ sale[s].channel = "HELD"

\* Requests that hold a key-share lock on the row of s: their document refers to it.
Refunding(s) == {r \in Requests : job[r].on = s}

----------------------------------------------------------------------------
(* A sale, and a held sale                                                 *)

\* CreateSaleWithOptions without a negative line: the row, its line and the stock
\* in one transaction.
CreateSale(s, l, channel, line, approved) ==
  /\ sale[s] = NoSale
  /\ MayIssue(l, line.item, line.qty, approved)
  /\ Issue(l, line.item, line.qty, "SOLD")
  /\ sale' = [sale EXCEPT ![s] =
       Document(l, "COMPLETED", channel, line.item, line.qty, NoSale, 0)]
  /\ UNCHANGED <<returned, job, raced, disputed, supplied, overrides>>

\* Fault: the row is given the status that pos_status has.
Fault_CreateHeldSale(s, l, line) ==
  /\ sale[s] = NoSale
  /\ sale' = [sale EXCEPT ![s] =
       Document(l, "HOLD", "HELD", line.item, line.qty, NoSale, 0)]
  /\ UNCHANGED <<stock, returned, job, raced, disputed, supplied, overrides>>

\* CreateHeldSale: a DRAFT, and no stock.
CreateHeldSale(s, l, line) ==
  /\ sale[s] = NoSale
  /\ sale' = [sale EXCEPT ![s] =
       Document(l, "DRAFT", "HELD", line.item, line.qty, NoSale, 0)]
  /\ UNCHANGED <<stock, returned, job, raced, disputed, supplied, overrides>>

\* Fault: the stock of the line is not taken.
Fault_FinalizeHeldSale(s, line, approved) ==
  /\ s \in Live
  /\ WasDraft(s)
  /\ sale' = [sale EXCEPT ![s].status = "COMPLETED",
                          ![s].item = line.item, ![s].qty = line.qty]
  /\ UNCHANGED <<stock, returned, job, raced, disputed, supplied, overrides>>

\* finalizeHeldSale reads DRAFT before its transaction, which deletes the old lines,
\* inserts those of the request, issues their stock and sets the row COMPLETED
\* whatever it says by then.  If another finalization came first, its lines are
\* deleted or they are not, as the DELETE saw them.
FinalizeHeldSale(s, line, approved) ==
  /\ s \in Rows
  /\ WasDraft(s)
  /\ ~Referenced(s) /\ Refunding(s) = {}
  /\ MayIssue(sale[s].at, line.item, line.qty, approved)
  /\ Issue(sale[s].at, line.item, line.qty, "SOLD")
  /\ \E kept \in {0} \cup {n \in {sale[s].qty} :
                sale[s].status = "COMPLETED" /\ sale[s].item = line.item} :
       sale' = [sale EXCEPT ![s].status = "COMPLETED", ![s].item = line.item,
                            ![s].qty = kept + line.qty]
  /\ disputed' = IF sale[s].status # "DRAFT" \/ sale[s].deleted
                 THEN disputed \cup {s} ELSE disputed
  /\ UNCHANGED <<returned, job, raced, supplied, overrides>>

\* UpdateSale: a manager sets the status; no stock follows.
UpdateSale(s, status) ==
  /\ overrides < MaxOverrides
  /\ s \in Live
  /\ sale[s].status # status
  /\ sale' = [sale EXCEPT ![s].status = status]
  /\ disputed' = disputed \cup ({s, sale[s].source} \ {NoSale})
  /\ overrides' = overrides + 1
  /\ UNCHANGED <<stock, returned, job, raced, supplied>>

\* DeleteSale refuses a sale that it has read as COMPLETED; the UPDATE does not look.
DeleteSale(s) ==
  /\ s \in Live
  /\ sale[s].status # "COMPLETED" \/ WasDraft(s)
  /\ sale' = [sale EXCEPT ![s].deleted = TRUE]
  /\ disputed' = IF sale[s].status = "COMPLETED" THEN disputed \cup {s} ELSE disputed
  /\ UNCHANGED <<stock, returned, job, raced, supplied, overrides>>

----------------------------------------------------------------------------
(* Refunds and returns                                                     *)

\* CreateRefundInvoice locks the row of the sale: it waits for the refunds and
\* returns in progress, and sees them.
CreateRefundInvoice(d, s, n) ==
  /\ sale[d] = NoSale
  /\ s \in Completed
  /\ sale[s].channel # "POS_REFUND"
  /\ Refunding(s) = {}
  /\ n <= Left(s)
  /\ sale[s].item \in Serials => n = sale[s].qty
  /\ MayReceive(sale[s].item, n)
  /\ Stocked(sale[s].at, sale[s].item, n)
  /\ sale' = [sale EXCEPT ![d] =
       Document(sale[s].at, "COMPLETED", "POS_REFUND", sale[s].item, 0, s, n)]
  /\ UNCHANGED <<returned, job, raced, disputed, supplied, overrides>>

\* A negative line at the till (CreateSaleWithOptions): its own line is inserted
\* before the sum of what came back is read, and is part of it; whatever the status
\* of the sale it refers to.  Its foreign key waits for whoever holds the line.
BeginTillRefund(r, s, n) ==
  /\ job[r] = Idle
  /\ s \in Live
  /\ Refunding(s) = {}
  /\ n <= Left(s) - n
  /\ sale[s].item \in Serials => n = Left(s) - n
  /\ job' = [job EXCEPT ![r] = [op |-> "till", on |-> s, qty |-> n]]
  /\ UNCHANGED <<stock, sale, returned, raced, disputed, supplied, overrides>>

TillRefund(r, d) ==
  LET s == job[r].on
  IN /\ job[r].op = "till"
     /\ sale[d] = NoSale
     /\ MayReceive(sale[s].item, job[r].qty)
     /\ Stocked(sale[s].at, sale[s].item, job[r].qty)
     /\ sale' = [sale EXCEPT ![d] =
          Document(sale[s].at, "COMPLETED", "POS", sale[s].item, 0, s, job[r].qty)]
     /\ job' = [job EXCEPT ![r] = Idle]
     /\ UNCHANGED <<returned, raced, disputed, supplied, overrides>>

\* Fault: the number is drawn after the line has been read.
Fault_Returning(s) == {}

\* Returns at one location draw their number before they read the line, and keep
\* the counter to the end.
Returning(s) ==
  {r \in Requests : job[r].op = "return" /\ sale[job[r].on].at = sale[s].at}

\* CreateSaleReturn refuses the sales of a till; allocateSaleReturnLines locks the
\* line and sums in one statement, so the sum of a return that waited for a till
\* refund is older than the lock.
BeginReturn(r, s, n) ==
  /\ job[r] = Idle
  /\ s \in Live
  /\ Returning(s) = {}
  /\ sale[s].channel \notin {"POS", "HELD", "POS_REFUND"}
  /\ n <= Left(s)
  /\ job' = [job EXCEPT ![r] = [op |-> "return", on |-> s, qty |-> n]]
  /\ raced' = IF \E t \in Refunding(s) : job[t].op = "till" THEN raced \cup {s} ELSE raced
  /\ UNCHANGED <<stock, sale, returned, disputed, supplied, overrides>>

CreateSaleReturn(r) ==
  LET s == job[r].on
  IN /\ job[r].op = "return"
     /\ MayReceive(sale[s].item, job[r].qty)
     /\ Stocked(sale[s].at, sale[s].item, job[r].qty)
     /\ returned' = [returned EXCEPT ![s] = @ + job[r].qty]
     /\ job' = [job EXCEPT ![r] = Idle]
     /\ UNCHANGED <<sale, raced, disputed, supplied, overrides>>

----------------------------------------------------------------------------
(* Edits and voids                                                         *)

\* Fault: the movement of the old line is not written back.
Fault_Replaced(k, old, new) ==
  LET taken == IF lots[k] + old < new THEN lots[k] + old ELSE new
  IN /\ onHand' = [onHand EXCEPT ![k] = @ + old - new]
     /\ aggregate' = [aggregate EXCEPT ![k] = onHand[k] + old - new]
     /\ moved' = [moved EXCEPT ![k] = @ - new]
     /\ lots' = [lots EXCEPT ![k] = @ + old - taken]
     /\ uncovered' = [uncovered EXCEPT ![k] = @ + new - taken]
     /\ UNCHANGED <<policy, serial>>

\* Receive of the old line, then Issue of the new one, at k.
Replaced(k, old, new) ==
  LET taken == IF lots[k] + old < new THEN lots[k] + old ELSE new
  IN /\ onHand' = [onHand EXCEPT ![k] = @ + old - new]
     /\ aggregate' = [aggregate EXCEPT ![k] = onHand[k] + old - new]
     /\ moved' = [moved EXCEPT ![k] = @ + old - new]
     /\ lots' = [lots EXCEPT ![k] = @ + old - taken]
     /\ uncovered' = [uncovered EXCEPT ![k] = @ + new - taken]
     /\ UNCHANGED <<policy, serial>>

\* EditCompletedSale locks the row, wants no refund or return of it, restores the
\* stock of the old line and issues that of the new one.  A sold serial cannot be
\* restored, so the sale of one is never edited.
EditCompletedSale(s, new, approved) ==
  LET k == <<sale[s].at, sale[s].item>>
      old == sale[s].qty
  IN /\ s \in Completed
     /\ sale[s].channel # "POS_REFUND" /\ sale[s].source = NoSale
     /\ ~Referenced(s) /\ Refunding(s) = {}
     /\ sale[s].item \in Plain
     /\ lots[k] + old < new => sale[s].item \notin BatchTracked
     /\ lots[k] + old < new \/ onHand[k] + old < new => Permitted(approved)
     /\ Replaced(k, old, new)
     /\ sale' = [sale EXCEPT ![s].qty = new]
     /\ UNCHANGED <<returned, job, raced, disputed, supplied, overrides>>

\* VoidSale reads the status before its transaction, and looks for no earlier void:
\* a VOID row is added, with the lines reversed if the status was COMPLETED.
\* updateStock puts them back into the aggregate of the product and nothing else;
\* the voided row stays as it is.
VoidSale(d, s, reversed) ==
  /\ sale[d] = NoSale
  /\ s \in Live
  /\ IF reversed THEN sale[s].status = "COMPLETED"
                 ELSE sale[s].status # "COMPLETED" \/ WasDraft(s)
  /\ sale' = [sale EXCEPT ![d] =
       Document(sale[s].at, "VOID", "NONE", sale[s].item, 0, NoSale, 0)]
  /\ aggregate' = [aggregate EXCEPT ![<<sale[s].at, VariantOf(sale[s].item)>>] =
       IF reversed THEN @ + sale[s].qty - sale[s].back ELSE @]
  /\ UNCHANGED <<policy, onHand, lots, moved, uncovered, serial>>
  /\ UNCHANGED <<returned, job, raced, disputed, supplied, overrides>>

\* A request that is refused, or fails, leaves nothing behind.
RollBack(r) ==
  /\ job[r] # Idle
  /\ job' = [job EXCEPT ![r] = Idle]
  /\ UNCHANGED <<stock, sale, returned, raced, disputed, supplied, overrides>>

----------------------------------------------------------------------------

Request ==
  \/ \E l \in Locations, v \in Plain : Supply(l, v, MaxSupply)
  \/ \E l \in Locations, i \in Serials : Supply(l, i, 1)
  \/ \E s \in Sales, l \in Locations, line \in Lines :
       \/ \E channel \in {"POS", "INVOICE"}, approved \in Approvals :
            CreateSale(s, l, channel, line, approved)
       \/ CreateHeldSale(s, l, line)
  \/ \E s, d \in Sales :
       \/ \E n \in 1..MaxLine : CreateRefundInvoice(d, s, n)
       \/ \E reversed \in BOOLEAN : VoidSale(d, s, reversed)
  \/ \E s \in Sales :
       \/ \E line \in Lines, approved \in Approvals : FinalizeHeldSale(s, line, approved)
       \/ \E new \in 1..MaxLine, approved \in Approvals : EditCompletedSale(s, new, approved)
       \/ \E status \in {"DRAFT", "COMPLETED", "VOID"} : UpdateSale(s, status)
       \/ DeleteSale(s)
  \/ \E r \in Requests, s \in Sales :
       \/ TillRefund(r, s)
       \/ \E n \in 1..MaxLine : BeginTillRefund(r, s, n) \/ BeginReturn(r, s, n)
  \/ \E r \in Requests : CreateSaleReturn(r) \/ RollBack(r)

Next == (StopAtDispute => disputed = {}) /\ Request

Spec == Init /\ [][Next]_vars

----------------------------------------------------------------------------
(* Properties                                                              *)

TypeOK ==
  /\ StockTypeOK
  /\ sale \in [Sales -> DocumentRecord \cup {NoSale}]
  /\ returned \in [Sales -> Nat]
  /\ job \in [Requests -> [op : {"none", "till", "return"}, on : Sales \cup {NoSale}, qty : Nat]]
  /\ raced \subseteq Sales
  /\ disputed \subseteq Sales
  /\ supplied \in [Variants -> Nat]
  /\ overrides \in 0..MaxOverrides

\* What the documents say is on the shelves of the company.
Documented(v) ==
  LET of == {s \in Completed : VariantOf(sale[s].item) = v}
      back == {s \in Rows : VariantOf(sale[s].item) = v}
  IN supplied[v] - MapThenSumSet(LAMBDA s : sale[s].qty - sale[s].back, of)
                 + MapThenSumSet(LAMBDA s : returned[s], back)

OnShelves(v) == MapThenSumSet(LAMBDA l : onHand[<<l, v>>], Locations)

\* Only a void leaves the aggregate of a product off its balance.
AggregateOffByVoids ==
  \/ aggregate = onHand
  \/ \E s \in Rows : sale[s].status = "VOID"
  \/ disputed # {}

\* The balances are what was received less what the COMPLETED documents sold, as
\* long as no sale was finalized twice at once, deleted while it was finalized, or
\* given another status by hand: finalizing, refunding, returning and editing each
\* move the stock exactly by the lines they leave behind, and only a void leaves the
\* aggregate of a product behind its balance.
StockFollowsDocuments ==
  /\ disputed = {} => \A v \in Variants : OnShelves(v) = Documented(v)
  /\ AggregateOffByVoids

\* Of a line no more comes back than was sold, by whatever mix of refund invoices,
\* till refunds and returns, unless a return began while a till was refunding the
\* line: in every other order the locks make one wait for the sum of the other.
NotOverRefunded ==
  \A s \in Rows \ (raced \cup disputed) :
    returned[s] + Refunded(s, RefundsOf(s)) <= sale[s].qty

\* A serial number is on at most one COMPLETED sale, and a sold one is on one:
\* whatever is finalized twice, edited, refunded or voided.
SerialSoldOnce ==
  \A i \in Serials :
    LET soldBy == {s \in Completed : sale[s].item = i /\ sale[s].qty > 0}
    IN /\ Cardinality(soldBy \ disputed) <= 1
       /\ soldBy # {} /\ disputed = {} => serial[i].status = "SOLD"
       /\ serial[i].status = "SOLD" => soldBy # {} \/ disputed # {}

\* sales_service.go:1691, "only completed sales can be refunded".
OnlyCompletedRefunded ==
  \A d \in Rows : sale[d].source # NoSale => sale[sale[d].source].status # "DRAFT"
=============================================================================
