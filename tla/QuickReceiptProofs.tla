------------------------- MODULE QuickReceiptProofs -------------------------
(***************************************************************************)
(* Theorems of Procurement and of QuickReceipt over it, for any number of  *)
(* purchases, requests and deliveries: they are about AppSpec, in which    *)
(* every operation of Procurement and the app's receipts interleave.  But  *)
(* for the goods, a step is what it does to purchases and requests.        *)
(***************************************************************************)
EXTENDS QuickReceipt, SumTheorems, TLAPS

JobRecord ==
  [op : {"PENDING", "RECEIVED", "CANCELLED", "lines", "delete", "receive", "count",
         "debit", "addon", "pay"},
   on : Purchases, n : Nat, line : Nat]

----------------------------------------------------------------------------
(* The inductive invariant                                                 *)

\* Requests are about purchases that exist, and know a line that was theirs.
Typed ==
  /\ DOMAIN purchase = Purchases
  /\ \A p \in Rows : purchase[p] \in PurchaseRecord
  /\ purchase = [p \in Purchases |-> purchase[p]]
  /\ job \in [Requests -> {Idle} \cup JobRecord]
  /\ \A r \in Requests : job[r] # Idle =>
       job[r].on \in Rows /\ job[r].line <= purchase[job[r].on].line

\* The receipt that holds the counter of a location has counted what is still to come,
\* and nothing came or went since, unless its line is gone.
CountKnows(r) ==
  job[r].op = "count" =>
    /\ job[r].on \in Rows
    /\ job[r].line = purchase[job[r].on].line =>
         purchase[job[r].on].received + job[r].n <= purchase[job[r].on].qty

OneCounts(q, r) ==
  /\ job[r].op = "count" /\ job[q].op = "count"
  /\ purchase[job[r].on].at = purchase[job[q].on].at
  => q = r

Counted ==
  /\ LinesKept
  /\ \A r \in Requests : CountKnows(r)
  /\ \A q, r \in Requests : OneCounts(q, r)

\* A purchase without overlap has one request at most.
AloneWith(q, r) ==
  job[r] # Idle /\ q # r /\ job[q].on = job[r].on => job[r].on \in raced

Alone == \A q, r \in Requests : AloneWith(q, r)

\* While nothing overlapped and nobody set a status by hand: nobody is about to delete
\* what came in, and what was deleted does not come in.
Undisturbed(p) == p \notin raced \cup reopened

FinalAt(p) ==
  Undisturbed(p) /\ purchase[p].received = purchase[p].qty =>
    purchase[p].status = "RECEIVED" /\ ~purchase[p].deleted

FinalFor(r) ==
  job[r] # Idle /\ Undisturbed(job[r].on) =>
    /\ job[r].op = "delete" => purchase[job[r].on].received # purchase[job[r].on].qty
    /\ job[r].op \in {"receive", "count"} => ~purchase[job[r].on].deleted

Final == (\A p \in Rows : FinalAt(p)) /\ (\A r \in Requests : FinalFor(r))

\* While nothing overlapped: an amount read is still there.
OwedAt(p) == p \notin raced => purchase[p].total >= 0

OwedFor(r) ==
  job[r] # Idle /\ job[r].on \notin raced =>
    /\ job[r].op = "pay" => job[r].n <= Outstanding(job[r].on)
    /\ job[r].op \in {"debit", "addon"} => job[r].n <= purchase[job[r].on].total

Owed == (\A p \in Rows : OwedAt(p)) /\ (\A r \in Requests : OwedFor(r))

DeliveryRecord ==
  [stage : {"posting", "queued", "created", "receiving", "done", "failed", "dropped"},
   queued : BOOLEAN, of : Purchases \cup {NoPurchase}, at : Locations, line : Lines]

AppTyped ==
  /\ delivery \in [Keys -> {NoDelivery} \cup DeliveryRecord]
  /\ carries \in [Requests -> Keys \cup {NoKey}]
  /\ booked \in [Keys -> Nat]
  /\ unsaid \subseteq Keys

\* One row at most has a key, and it is the delivery's of that key.
KeyIsUnique(p, q) == purchase[p].key = purchase[q].key /\ purchase[p].key # NoKey => p = q

KeyedRow(p) ==
  purchase[p].key # NoKey =>
    /\ delivery[purchase[p].key] # NoDelivery
    /\ purchase[p].line = 1 => purchase[p].qty = delivery[purchase[p].key].line.qty

\* A receipt that carries a delivery is for all of it.
CarriesAll(r) ==
  carries[r] # NoKey =>
    /\ job[r].op \in {"receive", "count"}
    /\ purchase[job[r].on].key = carries[r]
    /\ job[r].n = delivery[carries[r]].line.qty

\* What the app waits for is about the purchase of its key.
OfItsKey(k) ==
  delivery[k].stage \in {"created", "receiving"} =>
    delivery[k].of \in Rows /\ purchase[delivery[k].of].key = k

\* Whoever books a delivery tells the app, or is not heard.
Told(k) ==
  /\ delivery[k].stage = "done" => booked[k] > 0
  /\ booked[k] > 0 => delivery[k].stage = "done" \/ k \in unsaid

\* Once booked, nothing is left to come unless the lines were replaced.
BookedOnce(k) ==
  booked[k] > 0 => \E p \in Rows :
    /\ purchase[p].key = k
    /\ purchase[p].line = 1 => booked[k] = 1 /\ purchase[p].received = purchase[p].qty

Carried ==
  /\ \A p, q \in Rows : KeyIsUnique(p, q)
  /\ \A p \in Rows : KeyedRow(p)
  /\ \A r \in Requests : CarriesAll(r)
  /\ \A k \in Keys : OfItsKey(k) /\ Told(k) /\ BookedOnce(k)

GoodsInv == onHand \in [Places -> Int] /\ GoodsFollowLines

AppInv == Typed /\ Counted /\ Alone /\ Final /\ Owed /\ GoodsInv /\ AppTyped /\ Carried

----------------------------------------------------------------------------
(* The steps, without what they do to stock                                *)

\* A request reads a purchase.
Reads(r, p) ==
  \/ \E op \in {"PENDING", "RECEIVED", "CANCELLED", "lines"} : BeginUpdate(r, p, op)
  \/ BeginDelete(r, p)
  \/ \E n \in 1..MaxLine :
       \/ BeginReceipt(r, p, n)
       \/ \E op \in {"debit", "addon"} : BeginReduction(r, p, op, n)
       \/ BeginPayment(r, p, n)

\* A request writes the purchase it is about, and ends.
Writes(r) ==
  \/ SetStatus(r) \/ DeletePurchase(r)
  \/ \E line \in Lines : ReplaceLines(r, line)
  \/ ReceivePurchase(r)
  \/ \E approved \in BOOLEAN : CreateSupplierDebitNote(r, approved)
  \/ CreateGoodsReceiptAddons(r) \/ CreatePayment(r)

\* A purchase is written at once.
Changes(p) ==
  \/ Approve(p) \/ Reject(p)
  \/ \E n \in 1..MaxLine, approved \in BOOLEAN : CreatePurchaseReturn(p, n, approved)

Creates(p) ==
  \E l \in Locations, line \in Lines, paid \in Nat, key \in Keys \cup {NoKey} :
    CreatePurchase(p, l, line, paid, key)

\* A step that makes no new row.
RowsStep ==
  \/ \E r \in Requests, p \in Purchases : Reads(r, p)
  \/ \E r \in Requests : Writes(r) \/ CountReceipt(r) \/ RollBack(r)
  \/ \E p \in Purchases : Changes(p)
  \/ UNCHANGED vars

BooksStep == RowsStep \/ \E p \in Purchases : Creates(p)

LEMMA LineQuantities ==
  ASSUME ProcurementConstants, NEW line \in Lines
  PROVE  line.qty \in 1..MaxLine /\ line.item \in Items
BY DEF ProcurementConstants, Lines, Items

LEMMA ReadsKeepTyped ==
  ASSUME ProcurementConstants, Typed, NEW r \in Requests, NEW p \in Purchases, Reads(r, p)
  PROVE  Typed'
<1>1. PICK op \in {"PENDING", "RECEIVED", "CANCELLED", "lines", "delete", "receive", "debit",
                   "addon", "pay"}, n \in Nat : p \in Live /\ Begin(r, op, p, n)
  BY DEF Reads, BeginUpdate, BeginDelete, BeginReceipt, BeginReduction, BeginPayment,
         ProcurementConstants
<1>2. p \in Rows /\ purchase[p].line \in Nat
  BY <1>1 DEF Live, Typed, PurchaseRecord, ProcurementConstants
<1>3. [op |-> op, on |-> p, n |-> n, line |-> purchase[p].line] \in JobRecord
  BY <1>1, <1>2 DEF JobRecord
<1>4. purchase' = purchase /\ Rows' = Rows
  BY <1>1 DEF Begin, Rows
<1>5. job' \in [Requests -> {Idle} \cup JobRecord]
  BY <1>1, <1>3 DEF Begin, Typed
<1>6. \A q \in Requests : job'[q] = IF q = r THEN
        [op |-> op, on |-> p, n |-> n, line |-> purchase[p].line] ELSE job[q]
  BY <1>1 DEF Begin, Typed
<1>7. QED
  BY <1>2, <1>4, <1>5, <1>6 DEF Typed

\* A row stays at its location, under its key, and its lines are never the earlier ones.
Successor(old, new) ==
  new \in PurchaseRecord /\ new.at = old.at /\ new.key = old.key /\ new.line >= old.line

Rewritten(p) ==
  purchase' = [purchase EXCEPT ![p] = purchase'[p]] /\ Successor(purchase[p], purchase'[p])

LEMMA SameRow ==
  ASSUME ProcurementConstants, NEW old \in PurchaseRecord, NEW new \in PurchaseRecord,
         new.at = old.at, new.key = old.key, new.line \in {old.line, old.line + 1}
  PROVE  Successor(old, new)
BY DEF Successor, PurchaseRecord, ProcurementConstants

LEMMA WritesOneRow ==
  ASSUME ProcurementConstants, Typed, NEW r \in Requests, Writes(r)
  PROVE  /\ job[r] \in JobRecord /\ job[r].on \in Rows
         /\ job' = [job EXCEPT ![r] = Idle] /\ raced' = raced
         /\ Rewritten(job[r].on)
<1> DEFINE p == job[r].on
<1>0. job[r].op # "none"
  BY DEF Writes, SetStatus, DeletePurchase, ReplaceLines, ReceivePurchase,
         CreateSupplierDebitNote, CreateGoodsReceiptAddons, CreatePayment
<1>1. /\ job[r] \in JobRecord /\ p \in Rows /\ p \in Purchases
      /\ purchase[p] \in PurchaseRecord /\ purchase[p].line \in Nat
  <2>1. job[r] # Idle
    BY <1>0 DEF Idle
  <2>2. job[r] \in JobRecord /\ p \in Rows /\ purchase[p] \in PurchaseRecord
    BY <2>1 DEF Typed
  <2>3. QED
    BY <2>2 DEF Rows, PurchaseRecord, ProcurementConstants
<1>2. job' = [job EXCEPT ![r] = Idle] /\ raced' = raced
  BY DEF Writes, SetStatus, DeletePurchase, ReplaceLines, ReceivePurchase,
         CreateSupplierDebitNote, CreateGoodsReceiptAddons, CreatePayment, End
<1>3. Rewritten(p)
  <2>1. ASSUME SetStatus(r) PROVE Rewritten(p)
    BY <1>1, <2>1 DEF SetStatus, PurchaseRecord, JobRecord, Successor, Rewritten, Typed
  <2>2. ASSUME DeletePurchase(r) PROVE Rewritten(p)
    <3>1. /\ purchase'[p] = [purchase[p] EXCEPT !.deleted = TRUE]
          /\ purchase' = [purchase EXCEPT ![p] = purchase'[p]]
      BY <1>1, <2>2 DEF DeletePurchase, Typed
    <3> DEFINE new == [purchase[p] EXCEPT !.deleted = TRUE]
    <3>2. new \in PurchaseRecord
      BY <1>1 DEF PurchaseRecord
    <3>3. new.at = purchase[p].at /\ new.key = purchase[p].key /\ new.line = purchase[p].line
      BY <1>1 DEF PurchaseRecord
    <3>4. QED
      BY <1>1, <3>1, <3>2, <3>3, SameRow DEF Rewritten
  <2>3. ASSUME NEW line \in Lines, ReplaceLines(r, line) PROVE Rewritten(p)
    <3>1. line.qty \in 1..MaxLine /\ line.item \in Items /\ line.qty \in Int
      BY LineQuantities, ProcurementConstants
    <3>2. purchase[p].line + 1 \in 1..MaxLines
      BY <1>1, <2>3 DEF ReplaceLines, PurchaseRecord, ProcurementConstants
    <3> DEFINE new == [purchase[p] EXCEPT !.item = line.item, !.qty = line.qty, !.line = @ + 1,
                                         !.total = line.qty]
    <3>3. purchase'[p] = new /\ purchase' = [purchase EXCEPT ![p] = purchase'[p]]
      BY <1>1, <2>3 DEF ReplaceLines, Typed
    <3>4. new \in PurchaseRecord
      BY <1>1, <3>1, <3>2 DEF PurchaseRecord
    <3>5. new.at = purchase[p].at /\ new.key = purchase[p].key /\ new.line = purchase[p].line + 1
      BY <1>1 DEF PurchaseRecord
    <3>6. QED
      BY <1>1, <3>3, <3>4, <3>5, SameRow DEF Rewritten
  <2>4. ASSUME ReceivePurchase(r) PROVE Rewritten(p)
    <3>1. purchase[p].received + job[r].n \in Nat
      BY <1>1 DEF PurchaseRecord, JobRecord
    <3> DEFINE received == purchase[p].received + job[r].n
               new == [purchase[p] EXCEPT !.received = received, !.status =
                         IF received >= purchase[p].qty THEN "RECEIVED" ELSE "PARTIALLY_RECEIVED"]
    <3>2. purchase'[p] = new /\ purchase' = [purchase EXCEPT ![p] = purchase'[p]]
      BY <1>1, <2>4 DEF ReceivePurchase, Typed
    <3>3. new \in PurchaseRecord
      BY <1>1, <3>1 DEF PurchaseRecord
    <3>4. new.at = purchase[p].at /\ new.key = purchase[p].key /\ new.line = purchase[p].line
      BY <1>1 DEF PurchaseRecord
    <3>5. QED
      BY <1>1, <3>2, <3>3, <3>4, SameRow DEF Rewritten
  <2>5. ASSUME NEW approved \in BOOLEAN, CreateSupplierDebitNote(r, approved) PROVE Rewritten(p)
    <3>1. purchase[p].total - job[r].n \in Int /\ purchase[p].debited + job[r].n \in Nat
      BY <1>1 DEF PurchaseRecord, JobRecord
    <3> DEFINE new == [purchase[p] EXCEPT !.total = @ - job[r].n, !.debited = @ + job[r].n]
    <3>2. purchase'[p] = new /\ purchase' = [purchase EXCEPT ![p] = purchase'[p]]
      BY <1>1, <2>5 DEF CreateSupplierDebitNote, Typed
    <3>3. new \in PurchaseRecord
      BY <1>1, <3>1 DEF PurchaseRecord
    <3>4. new.at = purchase[p].at /\ new.key = purchase[p].key /\ new.line = purchase[p].line
      BY <1>1 DEF PurchaseRecord
    <3>5. QED
      BY <1>1, <3>2, <3>3, <3>4, SameRow DEF Rewritten
  <2>6. ASSUME CreateGoodsReceiptAddons(r) PROVE Rewritten(p)
    <3>1. purchase[p].total - job[r].n \in Int
      BY <1>1 DEF PurchaseRecord, JobRecord
    <3>2. QED
      BY <1>1, <2>6, <3>1 DEF CreateGoodsReceiptAddons, PurchaseRecord, JobRecord, Successor, Rewritten, Typed
  <2>7. ASSUME CreatePayment(r) PROVE Rewritten(p)
    <3>1. purchase[p].paid + job[r].n \in Nat
      BY <1>1 DEF PurchaseRecord, JobRecord
    <3>2. QED
      BY <1>1, <2>7, <3>1 DEF CreatePayment, PurchaseRecord, JobRecord, Successor, Rewritten, Typed
  <2>8. QED
    BY <2>1, <2>2, <2>3, <2>4, <2>5, <2>6, <2>7 DEF Writes
<1>4. QED
  BY <1>1, <1>2, <1>3

LEMMA ChangesOneRow ==
  ASSUME ProcurementConstants, Typed, NEW p \in Purchases, Changes(p)
  PROVE  /\ p \in Rows /\ UNCHANGED <<job, raced>>
         /\ Rewritten(p)
<1>1. p \in Rows /\ UNCHANGED <<job, raced>>
  <2>1. CASE Approve(p)
    BY <2>1 DEF Approve, Live
  <2>2. CASE Reject(p)
    BY <2>2 DEF Reject
  <2>3. CASE \E n \in 1..MaxLine, approved \in BOOLEAN : CreatePurchaseReturn(p, n, approved)
    BY <2>3 DEF CreatePurchaseReturn, Live
  <2>4. QED
    BY <2>1, <2>2, <2>3 DEF Changes
<1>9. purchase[p] \in PurchaseRecord /\ purchase[p].line \in Nat
  BY <1>1 DEF Typed, PurchaseRecord, ProcurementConstants
<1>2. ASSUME Approve(p) PROVE Rewritten(p)
  <2> DEFINE new == [purchase[p] EXCEPT !.status = "APPROVED", !.approval =
                       IF @ = "PENDING" THEN "APPROVED" ELSE @]
  <2>1. purchase'[p] = new /\ purchase' = [purchase EXCEPT ![p] = purchase'[p]]
    BY <1>1, <1>2 DEF Approve, Typed
  <2>2. new \in PurchaseRecord
    BY <1>9 DEF PurchaseRecord
  <2>3. new.at = purchase[p].at /\ new.key = purchase[p].key /\ new.line = purchase[p].line
    BY <1>9 DEF PurchaseRecord
  <2>4. QED
    BY <1>9, <2>1, <2>2, <2>3, SameRow DEF Rewritten
<1>3. ASSUME Reject(p) PROVE Rewritten(p)
  BY <1>1, <1>3, <1>9 DEF Reject, PurchaseRecord, Successor, Rewritten, Typed
<1>4. ASSUME NEW n \in 1..MaxLine, NEW approved \in BOOLEAN, CreatePurchaseReturn(p, n, approved)
      PROVE  Rewritten(p)
  <2>1. purchase[p].returned + n \in Nat
    BY <1>9 DEF PurchaseRecord, ProcurementConstants
  <2>2. QED
    BY <1>1, <1>4, <1>9, <2>1 DEF CreatePurchaseReturn, PurchaseRecord, Successor, Rewritten, Typed
<1>5. QED
  BY <1>1, <1>2, <1>3, <1>4 DEF Changes

LEMMA CreatesOneRow ==
  ASSUME ProcurementConstants, Typed, NEW p \in Purchases, NEW l \in Locations,
         NEW line \in Lines, NEW paid \in Nat, NEW key \in Keys \cup {NoKey},
         CreatePurchase(p, l, line, paid, key)
  PROVE  /\ p \notin Rows /\ UNCHANGED <<job, raced, reopened>>
         /\ Rows' = Rows \cup {p}
         /\ \A q \in Rows : purchase'[q] = purchase[q]
         /\ purchase'[p] \in PurchaseRecord /\ purchase'[p].key = key
         /\ purchase'[p] =
              [status |-> "PENDING", approval |-> "PENDING", deleted |-> FALSE, at |-> l,
               key |-> key, item |-> line.item, qty |-> line.qty, line |-> 1,
               received |-> 0, returned |-> 0, debited |-> 0,
               total |-> line.qty, paid |-> paid]
<1> DEFINE new ==
      [status |-> "PENDING", approval |-> "PENDING", deleted |-> FALSE, at |-> l,
       key |-> key, item |-> line.item, qty |-> line.qty, line |-> 1,
       received |-> 0, returned |-> 0, debited |-> 0, total |-> line.qty, paid |-> paid]
<1>1. line.qty \in 1..MaxLine /\ line.item \in Items /\ line.qty \in Int /\ 1 \in 1..MaxLines
  BY LineQuantities DEF ProcurementConstants
<1>2. new \in PurchaseRecord
  BY <1>1 DEF PurchaseRecord
<1>3. new # NoPurchase
  BY <1>2 DEF ProcurementConstants
<1>4. purchase' = [purchase EXCEPT ![p] = new] /\ UNCHANGED <<job, raced, reopened>>
  BY DEF CreatePurchase
<1>5. p \notin Rows
  BY DEF CreatePurchase, Rows
<1> HIDE DEF new
<1>6. purchase'[p] = new /\ \A q \in Purchases \ {p} : purchase'[q] = purchase[q]
  BY <1>4 DEF Typed
<1>7. Rows' = Rows \cup {p} /\ \A q \in Rows : purchase'[q] = purchase[q]
  BY <1>3, <1>5, <1>6 DEF Rows
<1>8. QED
  BY <1>2, <1>4, <1>5, <1>6, <1>7 DEF new

\* A row that is replaced by a successor stays a row; the others are as they were.
LEMMA RowReplaced ==
  ASSUME ProcurementConstants, Typed, NEW p \in Rows, Rewritten(p)
  PROVE  /\ Rows' = Rows
         /\ \A q \in Purchases \ {p} : purchase'[q] = purchase[q]
         /\ \A q \in Rows : purchase'[q] \in PurchaseRecord
         /\ \A q \in Rows : purchase'[q].at = purchase[q].at /\ purchase'[q].key = purchase[q].key
                             /\ purchase'[q].line >= purchase[q].line
<1>1. p \in Purchases /\ purchase'[p] # NoPurchase
  BY DEF Rows, Rewritten, Successor, ProcurementConstants
<1>2. \A q \in Purchases \ {p} : purchase'[q] = purchase[q]
  BY <1>1 DEF Typed, Rewritten
<1>3. Rows' = Rows
  BY <1>1, <1>2 DEF Rows
<1>4. \A q \in Rows : purchase[q].line \in Nat
  BY DEF Typed, PurchaseRecord, ProcurementConstants
<1>5. QED
  BY <1>1, <1>2, <1>3, <1>4 DEF Rewritten, Successor, Typed, Rows

LEMMA TypedStep ==
  ASSUME ProcurementConstants, Typed, BooksStep
  PROVE  Typed'
<1>1. ASSUME NEW p \in Rows, Rewritten(p),
             job' \in [Requests -> {Idle} \cup JobRecord],
             \A q \in Requests : job'[q] = job[q] \/ job'[q] = Idle
      PROVE  Typed'
  <2>1. DOMAIN purchase' = Purchases /\ purchase' = [q \in Purchases |-> purchase'[q]]
    BY <1>1 DEF Typed, Rewritten
  <2>2. \A q \in Rows : purchase[q].line \in Nat /\ purchase'[q].line \in Nat
    <3>1. \A q \in Rows : purchase[q] \in PurchaseRecord /\ purchase'[q] \in PurchaseRecord
      BY <1>1, RowReplaced DEF Typed
    <3>2. QED
      BY <3>1 DEF PurchaseRecord, ProcurementConstants
  <2>3. \A q \in Requests : job[q] # Idle => job[q].line \in Nat
    BY DEF Typed, JobRecord
  <2>4. ASSUME NEW q \in Requests, job'[q] # Idle
        PROVE  job'[q].on \in Rows' /\ job'[q].line <= purchase'[job'[q].on].line
    <3>1. job'[q] = job[q] /\ job[q] # Idle
      BY <1>1, <2>4
    <3>2. job[q].on \in Rows /\ job[q].line <= purchase[job[q].on].line
      BY <3>1 DEF Typed
    <3>3. job[q].on \in Rows' /\ purchase'[job[q].on].line >= purchase[job[q].on].line
      BY <1>1, <3>2, RowReplaced
    <3>4. QED
      BY <2>2, <2>3, <3>1, <3>2, <3>3
  <2>5. QED
    BY <1>1, <2>1, <2>4, RowReplaced DEF Typed
<1>2. ASSUME NEW r \in Requests, NEW p \in Purchases, Reads(r, p)
      PROVE  Typed'
  BY <1>2, ReadsKeepTyped
<1>3. ASSUME NEW r \in Requests, Writes(r)
      PROVE  Typed'
  <2>1. \A q \in Requests : job'[q] = job[q] \/ job'[q] = Idle
    BY <1>3, WritesOneRow DEF Typed
  <2>2. job' \in [Requests -> {Idle} \cup JobRecord]
    BY <1>3, WritesOneRow DEF Typed
  <2>3. QED
    BY <1>1, <1>3, <2>1, <2>2, WritesOneRow
<1>4. ASSUME NEW r \in Requests, CountReceipt(r) \/ RollBack(r)
      PROVE  Typed'
  <2>1. purchase' = purchase /\ Rows' = Rows
    BY <1>4 DEF CountReceipt, RollBack, Rows
  <2>2. job[r] # Idle /\ job[r] \in JobRecord
    BY <1>4 DEF CountReceipt, RollBack, Typed, Idle
  <2>3. \/ job' = [job EXCEPT ![r] = Idle]
        \/ job' = [job EXCEPT ![r].op = "count"]
    BY <1>4 DEF CountReceipt, RollBack, End
  <2>4. job' \in [Requests -> {Idle} \cup JobRecord]
    BY <2>2, <2>3 DEF Typed, JobRecord
  <2>5. \A q \in Requests : \/ job'[q] = Idle
                            \/ /\ job[q] # Idle
                               /\ job'[q].on = job[q].on /\ job'[q].line = job[q].line
    BY <2>2, <2>3 DEF Typed, JobRecord
  <2>6. QED
    BY <2>1, <2>4, <2>5 DEF Typed
<1>5. ASSUME NEW p \in Purchases, Changes(p)
      PROVE  Typed'
  BY <1>1, <1>5, ChangesOneRow DEF Typed
<1>6. ASSUME NEW p \in Purchases, Creates(p)
      PROVE  Typed'
  <2>1. PICK l \in Locations, line \in Lines, paid \in Nat, key \in Keys \cup {NoKey} :
          CreatePurchase(p, l, line, paid, key)
    BY <1>6 DEF Creates
  <2>2. purchase' = [q \in Purchases |-> purchase'[q]] /\ DOMAIN purchase' = Purchases
    BY <2>1 DEF CreatePurchase, Typed
  <2>3. job' = job /\ Rows' = Rows \cup {p} /\ \A q \in Rows : purchase'[q] = purchase[q]
    BY <2>1, CreatesOneRow
  <2>4. \A q \in Rows' : purchase'[q] \in PurchaseRecord
    BY <2>1, <2>3, CreatesOneRow DEF Typed
  <2>5. QED
    BY <2>2, <2>3, <2>4 DEF Typed
<1>7. CASE UNCHANGED vars
  BY <1>7 DEF vars, books, Typed, Rows
<1>8. QED
  BY <1>2, <1>3, <1>4, <1>5, <1>6, <1>7 DEF BooksStep, RowsStep

----------------------------------------------------------------------------
(* What a step does to a row                                               *)

SameGoods(p) ==
  /\ purchase'[p].received = purchase[p].received
  /\ purchase'[p].returned = purchase[p].returned
  /\ purchase'[p].qty = purchase[p].qty
  /\ purchase'[p].line = purchase[p].line

SameMoney(p) == purchase'[p].total = purchase[p].total /\ purchase'[p].paid = purchase[p].paid

SameState(p) ==
  /\ purchase'[p].status = purchase[p].status /\ purchase'[p].deleted = purchase[p].deleted
  /\ reopened' = reopened

StatusIsSet(p) ==
  /\ SameGoods(p) /\ SameMoney(p)
  /\ purchase'[p].deleted = purchase[p].deleted
  /\ reopened' = IF purchase[p].received > 0 THEN reopened \cup {p} ELSE reopened

LinesAreReplaced(r, p) ==
  /\ job[r].op = "lines"
  /\ purchase[p].received = 0 /\ purchase'[p].received = 0
  /\ purchase'[p].returned = purchase[p].returned
  /\ purchase'[p].qty \in Nat \ {0}
  /\ purchase'[p].line = purchase[p].line + 1
  /\ purchase'[p].total = purchase'[p].qty /\ purchase'[p].paid = purchase[p].paid
  /\ SameState(p)

IsDeleted(r, p) ==
  /\ job[r].op = "delete"
  /\ SameGoods(p) /\ SameMoney(p) /\ reopened' = reopened

IsReceived(r, p) ==
  /\ job[r].op = "count" /\ job[r].line = purchase[p].line
  /\ purchase'[p].received = purchase[p].received + job[r].n
  /\ purchase'[p].returned = purchase[p].returned /\ purchase'[p].qty = purchase[p].qty
  /\ purchase'[p].line = purchase[p].line
  /\ purchase'[p].received >= purchase[p].qty => purchase'[p].status = "RECEIVED"
  /\ purchase'[p].deleted = purchase[p].deleted /\ reopened' = reopened
  /\ SameMoney(p)

IsReduced(r, p) ==
  /\ job[r].op \in {"debit", "addon"}
  /\ purchase'[p].total = purchase[p].total - job[r].n
  /\ purchase'[p].paid = purchase[p].paid
  /\ SameGoods(p) /\ SameState(p)

IsPaid(r, p) ==
  /\ job[r].op = "pay"
  /\ purchase'[p].paid = purchase[p].paid + job[r].n
  /\ purchase'[p].total = purchase[p].total
  /\ SameGoods(p) /\ SameState(p)

IsReturned(p) ==
  /\ purchase'[p].returned <= purchase[p].received
  /\ purchase'[p].received = purchase[p].received /\ purchase'[p].qty = purchase[p].qty
  /\ purchase'[p].line = purchase[p].line
  /\ SameMoney(p) /\ SameState(p)

LEMMA WriteEffects ==
  ASSUME ProcurementConstants, Typed, NEW r \in Requests, Writes(r), NEW p, p = job[r].on
  PROVE  \/ StatusIsSet(p) \/ LinesAreReplaced(r, p) \/ IsDeleted(r, p) \/ IsReceived(r, p)
         \/ IsReduced(r, p) \/ IsPaid(r, p)
<1>1. /\ p \in Purchases /\ purchase[p] \in PurchaseRecord /\ job[r] \in JobRecord
  BY WritesOneRow DEF Typed, Rows
<1>2. ASSUME SetStatus(r) PROVE StatusIsSet(p)
  BY <1>1, <1>2 DEF SetStatus, Typed, PurchaseRecord, StatusIsSet, SameGoods, SameMoney
<1>3. ASSUME DeletePurchase(r) PROVE IsDeleted(r, p)
  BY <1>1, <1>3 DEF DeletePurchase, Typed, PurchaseRecord, IsDeleted, SameGoods, SameMoney
<1>4. ASSUME NEW line \in Lines, ReplaceLines(r, line) PROVE LinesAreReplaced(r, p)
  <2>1. line.qty \in Nat \ {0}
    BY LineQuantities DEF ProcurementConstants
  <2>2. purchase[p].received \in Nat /\ purchase[p].received = 0
    BY <1>1, <1>4 DEF ReplaceLines, Referenced, PurchaseRecord
  <2>3. QED
    BY <1>1, <1>4, <2>1, <2>2 DEF ReplaceLines, Typed, PurchaseRecord, LinesAreReplaced, SameState
<1>5. ASSUME ReceivePurchase(r) PROVE IsReceived(r, p)
  BY <1>1, <1>5 DEF ReceivePurchase, Typed, PurchaseRecord, IsReceived, SameMoney
<1>6. ASSUME NEW approved \in BOOLEAN, CreateSupplierDebitNote(r, approved) PROVE IsReduced(r, p)
  BY <1>1, <1>6
     DEF CreateSupplierDebitNote, Typed, PurchaseRecord, IsReduced, SameGoods, SameState
<1>7. ASSUME CreateGoodsReceiptAddons(r) PROVE IsReduced(r, p)
  BY <1>1, <1>7
     DEF CreateGoodsReceiptAddons, Typed, PurchaseRecord, IsReduced, SameGoods, SameState
<1>8. ASSUME CreatePayment(r) PROVE IsPaid(r, p)
  BY <1>1, <1>8 DEF CreatePayment, Typed, PurchaseRecord, IsPaid, SameGoods, SameState
<1>9. QED
  BY <1>2, <1>3, <1>4, <1>5, <1>6, <1>7, <1>8 DEF Writes

LEMMA ChangeEffects ==
  ASSUME ProcurementConstants, Typed, NEW p \in Purchases, Changes(p)
  PROVE  \/ StatusIsSet(p)
         \/ SameGoods(p) /\ SameMoney(p) /\ SameState(p)
         \/ IsReturned(p)
<1>1. p \in Rows /\ purchase[p] \in PurchaseRecord
  BY ChangesOneRow DEF Typed
<1>2. ASSUME Approve(p) PROVE StatusIsSet(p)
  BY <1>1, <1>2 DEF Approve, Typed, PurchaseRecord, StatusIsSet, SameGoods, SameMoney
<1>3. ASSUME Reject(p) PROVE SameGoods(p) /\ SameMoney(p) /\ SameState(p)
  BY <1>1, <1>3 DEF Reject, Typed, PurchaseRecord, SameGoods, SameMoney, SameState
<1>4. ASSUME NEW n \in 1..MaxLine, NEW approved \in BOOLEAN, CreatePurchaseReturn(p, n, approved)
      PROVE  IsReturned(p)
  <2>1. n \in Nat /\ purchase[p].returned + n <= purchase[p].received
    BY <1>1, <1>4 DEF CreatePurchaseReturn, Returnable, PurchaseRecord, ProcurementConstants
  <2>2. QED
    BY <1>1, <1>4, <2>1
       DEF CreatePurchaseReturn, Typed, PurchaseRecord, IsReturned, SameMoney, SameState
<1>5. QED
  BY <1>2, <1>3, <1>4 DEF Changes

LEMMA ReadEffects ==
  ASSUME ProcurementConstants, Typed, NEW r \in Requests, NEW p \in Purchases, Reads(r, p)
  PROVE  /\ p \in Rows /\ job[r] = Idle
         /\ UNCHANGED <<purchase, reopened>> /\ Rows' = Rows
         /\ \A q \in Requests \ {r} : job'[q] = job[q]
         /\ job'[r] \in JobRecord /\ job'[r].on = p /\ job'[r].op # "count"
         /\ raced' = IF Busy(p) = {} THEN raced ELSE raced \cup {p}
         /\ ~purchase[p].deleted
         /\ job'[r].op = "delete" => purchase[p].status # "RECEIVED"
         /\ job'[r].op = "pay" => job'[r].n <= Outstanding(p)
         /\ job'[r].op \in {"debit", "addon"} => job'[r].n <= purchase[p].total
<1>1. PICK op \in {"PENDING", "RECEIVED", "CANCELLED", "lines", "delete", "receive", "debit",
                   "addon", "pay"}, n \in Nat :
        /\ p \in Live /\ Begin(r, op, p, n)
        /\ op = "delete" => purchase[p].status # "RECEIVED"
        /\ op = "pay" => n <= Outstanding(p)
        /\ op \in {"debit", "addon"} => n <= purchase[p].total
  BY DEF Reads, BeginUpdate, BeginDelete, BeginReceipt, BeginReduction, BeginPayment,
         ProcurementConstants
<1>2. p \in Rows /\ ~purchase[p].deleted /\ purchase[p].line \in Nat
  BY <1>1 DEF Live, Typed, PurchaseRecord, ProcurementConstants
<1> DEFINE new == [op |-> op, on |-> p, n |-> n, line |-> purchase[p].line]
<1>3. /\ new \in JobRecord /\ new.on = p /\ new.op = op /\ new.n = n
  BY <1>1, <1>2 DEF JobRecord
<1>4. /\ job[r] = Idle /\ UNCHANGED <<purchase, reopened>> /\ job' = [job EXCEPT ![r] = new]
      /\ raced' = IF Busy(p) = {} THEN raced ELSE raced \cup {p}
  BY <1>1 DEF Begin
<1> HIDE DEF new
<1>5. Rows' = Rows
  BY <1>4 DEF Rows
<1>6. job'[r] = new /\ \A q \in Requests \ {r} : job'[q] = job[q]
  BY <1>4 DEF Typed
<1>7. QED
  BY <1>1, <1>2, <1>3, <1>4, <1>5, <1>6

----------------------------------------------------------------------------
(* The invariant is kept                                                   *)

\* Steps of requests that take one away, or let one count, and write no row.
LEMMA AtRest ==
  ASSUME Typed, NEW r \in Requests, CountReceipt(r) \/ RollBack(r)
  PROVE  /\ UNCHANGED <<purchase, raced, reopened>> /\ Rows' = Rows
         /\ job[r] \in JobRecord /\ job[r] # Idle
         /\ \A q \in Requests \ {r} : job'[q] = job[q]
         /\ \/ RollBack(r) /\ job'[r] = Idle
            \/ /\ CountReceipt(r) /\ job[r].op = "receive"
               /\ job'[r] \in JobRecord /\ job'[r].op = "count" /\ job'[r].on = job[r].on
               /\ job'[r].n = job[r].n /\ job'[r].line = job[r].line
<1>1. job[r] # Idle /\ job[r] \in JobRecord
  BY DEF CountReceipt, RollBack, Typed, Idle
<1>2. UNCHANGED <<purchase, raced, reopened>> /\ Rows' = Rows
  BY DEF CountReceipt, RollBack, End, Rows
<1>3. CASE RollBack(r)
  BY <1>1, <1>2, <1>3 DEF RollBack, End, Typed
<1>4. CASE CountReceipt(r)
  <2>1. job[r].op = "receive" /\ job' = [job EXCEPT ![r].op = "count"]
    BY <1>4 DEF CountReceipt
  <2>2. job'[r] = [job[r] EXCEPT !.op = "count"] /\ \A q \in Requests \ {r} : job'[q] = job[q]
    BY <2>1 DEF Typed
  <2>3. /\ job'[r] \in JobRecord /\ job'[r].op = "count" /\ job'[r].on = job[r].on
        /\ job'[r].n = job[r].n /\ job'[r].line = job[r].line
    BY <1>1, <2>2 DEF JobRecord
  <2>4. QED
    BY <1>1, <1>2, <1>4, <2>1, <2>2, <2>3
<1>5. QED
  BY <1>3, <1>4

\* Requests that count did so before, and what they counted is as it was or gone.
LEMMA CountsStay ==
  ASSUME Typed, Counted, LinesKept',
         \A q \in Requests : job'[q].op = "count" =>
           /\ job[q] # Idle /\ job'[q] = job[q]
           /\ job[q].on \in Rows'
           /\ purchase'[job[q].on].at = purchase[job[q].on].at
           /\ job[q].line = purchase'[job[q].on].line =>
                /\ job[q].line = purchase[job[q].on].line
                /\ purchase'[job[q].on].received = purchase[job[q].on].received
                /\ purchase'[job[q].on].qty = purchase[job[q].on].qty
  PROVE  Counted'
<1>1. ASSUME NEW q \in Requests PROVE CountKnows(q)'
  BY DEF Counted, CountKnows
<1>2. ASSUME NEW q \in Requests, NEW r \in Requests PROVE OneCounts(q, r)'
  <2>1. OneCounts(q, r)
    BY DEF Counted
  <2>2. QED
    BY <2>1 DEF OneCounts
<1>3. QED
  BY <1>1, <1>2 DEF Counted

LEMMA CountedStep ==
  ASSUME ProcurementConstants, Typed, Typed', Counted, BooksStep
  PROVE  Counted'
<1>1. ASSUME NEW r \in Requests, NEW p \in Purchases, Reads(r, p)
      PROVE  Counted'
  <2>1. UNCHANGED purchase /\ Rows' = Rows /\ job'[r].op # "count"
        /\ \A q \in Requests \ {r} : job'[q] = job[q]
    BY <1>1, ReadEffects
  <2>2. \A q \in Requests : job'[q].op = "count" => job[q] # Idle /\ job'[q] = job[q]
    BY <2>1 DEF Idle
  <2>3. LinesKept'
    BY <2>1 DEF Counted, LinesKept
  <2>4. QED
    BY <2>1, <2>2, <2>3, CountsStay DEF Typed
<1>2. ASSUME NEW r \in Requests, CountReceipt(r) \/ RollBack(r)
      PROVE  Counted'
  <2>1. CASE job'[r] = Idle
    <3>1. /\ job'[r].op # "count" /\ UNCHANGED purchase /\ Rows' = Rows
          /\ \A q \in Requests \ {r} : job'[q] = job[q]
      BY <1>2, <2>1, AtRest DEF Idle
    <3>2. \A q \in Requests : job'[q].op = "count" => job[q] # Idle /\ job'[q] = job[q]
      BY <3>1 DEF Idle
    <3>3. LinesKept'
      BY <3>1 DEF Counted, LinesKept
    <3>4. QED
      BY <3>1, <3>2, <3>3, CountsStay DEF Typed
  <2>2. CASE CountReceipt(r) /\ job'[r].op = "count"
    <3>1. /\ Counting(purchase[job[r].on].at, "count") = {}
          /\ purchase[job[r].on].received + job[r].n <= purchase[job[r].on].qty
          /\ job[r].on \in Rows
      BY <1>2, <2>2, AtRest DEF CountReceipt, Typed
    <3>2. \A q \in Requests : job[q].op = "count" =>
            purchase[job[q].on].at # purchase[job[r].on].at
      BY <3>1 DEF Counting
    <3>3. /\ job'[r].on = job[r].on /\ job'[r].n = job[r].n /\ job'[r].line = job[r].line
          /\ \A q \in Requests \ {r} : job'[q] = job[q]
          /\ UNCHANGED purchase /\ Rows' = Rows
      BY <1>2, <2>2, AtRest DEF Idle
    <3>4. LinesKept'
      BY <3>3 DEF Counted, LinesKept
    <3>5. ASSUME NEW q \in Requests PROVE CountKnows(q)'
      BY <3>1, <3>3 DEF Counted, CountKnows
    <3>6. ASSUME NEW q \in Requests, NEW s \in Requests PROVE OneCounts(q, s)'
      BY <3>2, <3>3 DEF Counted, OneCounts
    <3>7. QED
      BY <3>4, <3>5, <3>6 DEF Counted
  <2>3. QED
    BY <1>2, <2>1, <2>2, AtRest
<1>3. ASSUME NEW r \in Requests, Writes(r)
      PROVE  Counted'
  <2> DEFINE p == job[r].on
  <2>1. /\ p \in Rows /\ job[r] \in JobRecord /\ Rewritten(p) /\ job'[r] = Idle
        /\ \A q \in Requests \ {r} : job'[q] = job[q]
    BY <1>3, WritesOneRow DEF Typed
  <2>2. /\ Rows' = Rows /\ \A q \in Purchases \ {p} : purchase'[q] = purchase[q]
        /\ \A q \in Rows : purchase'[q].at = purchase[q].at
    BY <2>1, RowReplaced
  <2>3. \/ StatusIsSet(p) \/ LinesAreReplaced(r, p) \/ IsDeleted(r, p) \/ IsReceived(r, p)
        \/ IsReduced(r, p) \/ IsPaid(r, p)
    BY <1>3, WriteEffects
  <2>4. /\ purchase[p].received \in Nat /\ purchase[p].returned \in Nat
        /\ purchase[p].qty \in Nat /\ purchase[p].line \in Nat
    <3>1. purchase[p] \in PurchaseRecord
      BY <2>1 DEF Typed
    <3>2. QED
      BY <3>1 DEF PurchaseRecord, ProcurementConstants
  <2>5. p \in Purchases
    BY <2>1 DEF Rows
  <2>6. CountKnows(r) /\ purchase[p].received <= purchase[p].qty
        /\ purchase[p].returned <= purchase[p].received /\ job[r].n \in Nat
    BY <2>1 DEF Counted, LinesKept, JobRecord
  <2>7. \A q \in Requests \ {r} : job[q].op = "count" /\ job[q].on = p => job[r].op # "count"
    BY DEF Counted, OneCounts
  <2> HIDE DEF p
  <2>8. /\ purchase'[p].received <= purchase'[p].qty
        /\ purchase'[p].returned <= purchase'[p].received
        /\ \/ SameGoods(p) \/ purchase'[p].line = purchase[p].line + 1
           \/ job[r].op = "count"
    <3>1. CASE SameGoods(p)
      BY <2>6, <3>1 DEF SameGoods
    <3>2. CASE LinesAreReplaced(r, p)
      BY <2>4, <2>6, <3>2 DEF LinesAreReplaced
    <3>3. CASE IsReceived(r, p)
      BY <2>4, <2>6, <3>3 DEF IsReceived, CountKnows, p
    <3>4. QED
      BY <2>3, <3>1, <3>2, <3>3 DEF StatusIsSet, IsDeleted, IsReduced, IsPaid
  <2>9. LinesKept'
    BY <2>2, <2>8 DEF Counted, LinesKept, Rows
  <2>10. ASSUME NEW q \in Requests, job'[q].op = "count"
         PROVE  /\ job[q] # Idle /\ job'[q] = job[q]
                /\ job[q].on \in Rows'
                /\ purchase'[job[q].on].at = purchase[job[q].on].at
                /\ job[q].line = purchase'[job[q].on].line =>
                     /\ job[q].line = purchase[job[q].on].line
                     /\ purchase'[job[q].on].received = purchase[job[q].on].received
                     /\ purchase'[job[q].on].qty = purchase[job[q].on].qty
    <3>1. q # r /\ job'[q] = job[q] /\ job[q] # Idle /\ job[q].op = "count"
      BY <2>1, <2>10 DEF Idle
    <3>2. job[q].on \in Rows /\ job[q].line <= purchase[job[q].on].line /\ job[q].line \in Nat
      BY <3>1 DEF Typed, JobRecord
    <3>3. CASE job[q].on # p
      BY <2>2, <3>1, <3>2, <3>3 DEF Rows
    <3>4. CASE job[q].on = p
      <4>1. job[r].op # "count"
        BY <2>7, <3>1, <3>4
      <4>2. QED
        BY <2>2, <2>4, <2>8, <3>1, <3>2, <3>4, <4>1 DEF SameGoods
    <3>5. QED
      BY <3>3, <3>4
  <2>11. QED
    BY <2>9, <2>10, CountsStay
<1>4. ASSUME NEW p \in Purchases, Changes(p)
      PROVE  Counted'
  <2>1. /\ p \in Rows /\ job' = job /\ Rewritten(p)
    BY <1>4, ChangesOneRow
  <2>2. /\ Rows' = Rows /\ \A q \in Purchases \ {p} : purchase'[q] = purchase[q]
        /\ \A q \in Rows : purchase'[q].at = purchase[q].at
    BY <2>1, RowReplaced
  <2>3. /\ purchase'[p].received = purchase[p].received /\ purchase'[p].qty = purchase[p].qty
        /\ purchase'[p].line = purchase[p].line
        /\ \/ purchase'[p].returned = purchase[p].returned
           \/ purchase'[p].returned <= purchase[p].received
    BY <1>4, ChangeEffects DEF StatusIsSet, SameGoods, IsReturned, Counted, LinesKept
  <2>4. \A q \in Rows : /\ purchase'[q].received = purchase[q].received
                        /\ purchase'[q].qty = purchase[q].qty
                        /\ purchase'[q].line = purchase[q].line
    BY <2>2, <2>3 DEF Rows
  <2>5. LinesKept'
    BY <2>1, <2>2, <2>3 DEF Counted, LinesKept, Rows
  <2>6. \A q \in Requests : job[q].op = "count" => job[q] # Idle /\ job[q].on \in Rows
    BY DEF Typed, Idle
  <2>7. QED
    BY <2>1, <2>2, <2>4, <2>5, <2>6, CountsStay
<1>5. ASSUME NEW p \in Purchases, Creates(p)
      PROVE  Counted'
  <2>1. PICK l \in Locations, line \in Lines, paid \in Nat, key \in Keys \cup {NoKey} :
          CreatePurchase(p, l, line, paid, key)
    BY <1>5 DEF Creates
  <2>2. line.qty \in Nat
    BY LineQuantities DEF ProcurementConstants
  <2>3. /\ job' = job /\ Rows' = Rows \cup {p} /\ \A q \in Rows : purchase'[q] = purchase[q]
        /\ purchase'[p] =
             [status |-> "PENDING", approval |-> "PENDING", deleted |-> FALSE, at |-> l,
              key |-> key, item |-> line.item, qty |-> line.qty, line |-> 1,
              received |-> 0, returned |-> 0, debited |-> 0, total |-> line.qty, paid |-> paid]
    BY <2>1, CreatesOneRow
  <2>4. \A q \in Requests : job[q].op = "count" => job[q] # Idle /\ job[q].on \in Rows
    BY DEF Typed, Idle
  <2>5. LinesKept'
    BY <2>2, <2>3 DEF Counted, LinesKept
  <2>6. QED
    BY <2>3, <2>4, <2>5, CountsStay
<1>6. CASE UNCHANGED vars
  BY <1>6 DEF vars, books, Counted, LinesKept, CountKnows, OneCounts, Rows
<1>7. QED
  BY <1>1, <1>2, <1>3, <1>4, <1>5, <1>6 DEF BooksStep, RowsStep

LEMMA RowNumbers ==
  ASSUME ProcurementConstants, Typed, NEW p \in Rows
  PROVE  /\ p \in Purchases
         /\ purchase[p].received \in Nat /\ purchase[p].returned \in Nat
         /\ purchase[p].qty \in Nat \ {0} /\ purchase[p].line \in Nat \ {0}
         /\ purchase[p].total \in Int /\ purchase[p].paid \in Nat
<1>1. p \in Purchases /\ purchase[p] \in PurchaseRecord
  BY DEF Typed, Rows
<1>2. QED
  BY <1>1 DEF PurchaseRecord, ProcurementConstants

\* Only a read puts a request on a purchase.
LEMMA OtherStepsKeepJobs ==
  ASSUME ProcurementConstants, Typed, BooksStep,
         ~\E r \in Requests, p \in Purchases : Reads(r, p)
  PROVE  /\ raced' = raced
         /\ \A q \in Requests :
              \/ job'[q] = Idle
              \/ /\ job[q] # Idle /\ job'[q] # Idle
                 /\ job'[q].on = job[q].on /\ job'[q].n = job[q].n
                 /\ \/ job'[q].op = job[q].op
                    \/ job[q].op = "receive" /\ job'[q].op = "count"
<1>1. ASSUME NEW r \in Requests, Writes(r)
      PROVE  raced' = raced /\ \A q \in Requests : job'[q] = Idle \/ job'[q] = job[q]
  BY <1>1, WritesOneRow DEF Typed
<1>2. ASSUME NEW r \in Requests, CountReceipt(r) \/ RollBack(r)
      PROVE  /\ raced' = raced
             /\ \A q \in Requests \ {r} : job'[q] = job[q]
             /\ \/ job'[r] = Idle
                \/ /\ job[r] # Idle /\ job'[r] # Idle
                   /\ job'[r].on = job[r].on /\ job'[r].n = job[r].n
                   /\ job[r].op = "receive" /\ job'[r].op = "count"
  BY <1>2, AtRest DEF Idle
<1>3. ASSUME NEW p \in Purchases, Changes(p) \/ Creates(p)
      PROVE  raced' = raced /\ job' = job
  BY <1>3, ChangesOneRow, CreatesOneRow DEF Creates
<1>4. CASE UNCHANGED vars
  BY <1>4 DEF vars, books
<1>5. QED
  BY <1>1, <1>2, <1>3, <1>4 DEF BooksStep, RowsStep

LEMMA AloneStep ==
  ASSUME ProcurementConstants, Typed, Typed', Alone, BooksStep
  PROVE  Alone'
<1>0. SUFFICES ASSUME NEW q \in Requests, NEW s \in Requests,
                      job'[s] # Idle, q # s, job'[q].on = job'[s].on
               PROVE  job'[s].on \in raced'
  BY DEF Alone, AloneWith
<1>1. job'[q] # Idle
  <2>1. job'[s].on \in Purchases
    BY <1>0 DEF Typed, Rows
  <2>2. QED
    BY <1>0, <2>1 DEF Idle, ProcurementConstants
<1>2. ASSUME NEW r \in Requests, NEW p \in Purchases, Reads(r, p)
      PROVE  job'[s].on \in raced'
  <2>1. /\ job'[r].on = p /\ \A t \in Requests \ {r} : job'[t] = job[t]
        /\ raced' = IF Busy(p) = {} THEN raced ELSE raced \cup {p}
    BY <1>2, ReadEffects
  <2>2. CASE q = r \/ s = r
    <3>1. \E t \in Requests : job[t].on = p
      BY <1>0, <2>1, <2>2
    <3>2. QED
      BY <1>0, <2>1, <2>2, <3>1 DEF Busy
  <2>3. CASE q # r /\ s # r
    BY <1>0, <2>1, <2>3 DEF Alone, AloneWith
  <2>4. QED
    BY <2>2, <2>3
<1>3. CASE ~\E r \in Requests, p \in Purchases : Reads(r, p)
  BY <1>0, <1>1, <1>3, OtherStepsKeepJobs DEF Alone, AloneWith
<1>4. QED
  BY <1>2, <1>3

\* What a step leaves of a row and of the requests about it.
LEMMA RowsApart ==
  ASSUME ProcurementConstants, Typed, Alone, NEW r \in Requests, Writes(r)
  PROVE  /\ Rows' = Rows /\ raced' = raced
         /\ \A q \in Rows \ {job[r].on} : purchase'[q] = purchase[q]
         /\ job'[r] = Idle /\ \A q \in Requests \ {r} : job'[q] = job[q]
         /\ \A q \in Requests \ {r} :
              job[q] # Idle /\ job[q].on \notin raced => job[q].on \in Rows \ {job[r].on}
<1>1. job[r].on \in Rows /\ Rewritten(job[r].on) /\ job[r] # Idle
  BY WritesOneRow DEF JobRecord, Idle
<1>2. \A q \in Rows \ {job[r].on} : purchase'[q] = purchase[q]
  BY <1>1, RowReplaced DEF Rows
<1>3. QED
  BY <1>1, <1>2, RowReplaced, WritesOneRow DEF Alone, AloneWith, Typed

LEMMA FinalStep ==
  ASSUME ProcurementConstants, Typed, Typed', Alone, Final, BooksStep
  PROVE  Final'
<1>1. ASSUME NEW r \in Requests, NEW p \in Purchases, Reads(r, p)
      PROVE  Final'
  <2>1. /\ p \in Rows /\ Rows' = Rows /\ UNCHANGED <<purchase, reopened>>
        /\ \A q \in Requests \ {r} : job'[q] = job[q]
        /\ job'[r].on = p /\ raced \subseteq raced' /\ ~purchase[p].deleted
        /\ job'[r].op = "delete" => purchase[p].status # "RECEIVED"
    BY <1>1, ReadEffects
  <2>2. \A q \in Rows : FinalAt(q)'
    BY <2>1 DEF Final, FinalAt, Undisturbed
  <2>3. FinalFor(r)'
    BY <2>1 DEF Final, FinalAt, FinalFor, Undisturbed
  <2>4. \A q \in Requests \ {r} : FinalFor(q)'
    BY <2>1 DEF Final, FinalFor, Undisturbed
  <2>5. QED
    BY <2>1, <2>2, <2>3, <2>4 DEF Final
<1>2. ASSUME NEW r \in Requests, CountReceipt(r) \/ RollBack(r)
      PROVE  Final'
  <2>1. /\ Rows' = Rows /\ UNCHANGED <<purchase, raced, reopened>>
        /\ \A q \in Requests \ {r} : job'[q] = job[q]
        /\ \/ job'[r] = Idle
           \/ job[r] # Idle /\ job[r].op = "receive" /\ job'[r].op = "count" /\ job'[r].on = job[r].on
    BY <1>2, AtRest
  <2>2. \A q \in Rows : FinalAt(q)'
    BY <2>1 DEF Final, FinalAt, Undisturbed
  <2>3. FinalFor(r)'
    BY <2>1 DEF Final, FinalFor, Undisturbed
  <2>4. \A q \in Requests \ {r} : FinalFor(q)'
    BY <2>1 DEF Final, FinalFor, Undisturbed
  <2>5. QED
    BY <2>1, <2>2, <2>3, <2>4 DEF Final
<1>3. ASSUME NEW r \in Requests, Writes(r)
      PROVE  Final'
  <2>0. PICK p \in Rows : p = job[r].on
    BY <1>3, WritesOneRow
  <2>1. /\ Rows' = Rows /\ raced' = raced
        /\ \A q \in Rows \ {p} : purchase'[q] = purchase[q]
        /\ job'[r] = Idle /\ \A q \in Requests \ {r} : job'[q] = job[q]
        /\ \A q \in Requests \ {r} :
             job[q] # Idle /\ job[q].on \notin raced => job[q].on \in Rows \ {p}
    BY <1>3, <2>0, RowsApart
  <2>2. \/ StatusIsSet(p) \/ LinesAreReplaced(r, p) \/ IsDeleted(r, p) \/ IsReceived(r, p)
        \/ IsReduced(r, p) \/ IsPaid(r, p)
    BY <1>3, <2>0, WriteEffects
  <2>3. job[r] # Idle
    BY <1>3, WritesOneRow DEF JobRecord, Idle
  <2>4. purchase[p].received \in Nat /\ purchase[p].qty \in Nat \ {0}
    BY RowNumbers
  <2>5. FinalAt(p) /\ FinalFor(r)
    BY DEF Final
  <2>6. reopened \subseteq reopened'
    BY <2>2 DEF StatusIsSet, LinesAreReplaced, IsDeleted, IsReceived, IsReduced, IsPaid, SameState
  <2>7. FinalAt(p)'
    <3>1. CASE StatusIsSet(p)
      BY <2>4, <3>1 DEF FinalAt, StatusIsSet, SameGoods, Undisturbed
    <3>2. CASE LinesAreReplaced(r, p)
      BY <3>2 DEF FinalAt, LinesAreReplaced
    <3>3. CASE IsDeleted(r, p)
      BY <2>0, <2>1, <2>3, <2>5, <3>3 DEF FinalAt, FinalFor, IsDeleted, SameGoods, Undisturbed
    <3>4. CASE IsReceived(r, p)
      BY <2>0, <2>1, <2>3, <2>4, <2>5, <3>4 DEF FinalAt, FinalFor, IsReceived, Undisturbed
    <3>5. CASE SameGoods(p) /\ SameState(p)
      BY <2>1, <2>5, <3>5 DEF FinalAt, SameGoods, SameState, Undisturbed
    <3>6. QED
      BY <2>2, <3>1, <3>2, <3>3, <3>4, <3>5 DEF IsReduced, IsPaid
  <2>8. \A q \in Rows \ {p} : FinalAt(q)'
    BY <2>1, <2>6 DEF Final, FinalAt, Undisturbed
  <2>9. FinalFor(r)'
    BY <2>1 DEF FinalFor
  <2>10. \A q \in Requests \ {r} : FinalFor(q)'
    BY <2>1, <2>6 DEF Final, FinalFor, Undisturbed
  <2>11. QED
    BY <2>1, <2>7, <2>8, <2>9, <2>10 DEF Final
<1>4. ASSUME NEW p \in Purchases, Changes(p)
      PROVE  Final'
  <2>1. /\ p \in Rows /\ job' = job /\ raced' = raced /\ Rows' = Rows
        /\ \A q \in Rows \ {p} : purchase'[q] = purchase[q]
    BY <1>4, ChangesOneRow, RowReplaced DEF Rows
  <2>2. /\ purchase'[p].received = purchase[p].received /\ purchase'[p].qty = purchase[p].qty
        /\ purchase'[p].deleted = purchase[p].deleted
        /\ \/ purchase'[p].status = purchase[p].status /\ reopened' = reopened
           \/ reopened' = IF purchase[p].received > 0 THEN reopened \cup {p} ELSE reopened
    BY <1>4, ChangeEffects DEF StatusIsSet, SameGoods, SameState, IsReturned
  <2>3. purchase[p].received \in Nat /\ purchase[p].qty \in Nat \ {0}
    BY <2>1, RowNumbers
  <2>4. FinalAt(p)'
    <3>1. FinalAt(p)
      BY <2>1 DEF Final
    <3>2. CASE purchase[p].received = purchase[p].qty
      BY <2>1, <2>2, <2>3, <3>1, <3>2 DEF FinalAt, Undisturbed
    <3>3. CASE purchase[p].received # purchase[p].qty
      BY <2>2, <3>3 DEF FinalAt
    <3>4. QED
      BY <3>2, <3>3
  <2>5. \A q \in Rows \ {p} : FinalAt(q)'
    BY <2>1, <2>2 DEF Final, FinalAt, Undisturbed
  <2>6. \A q \in Requests : FinalFor(q)'
    BY <2>1, <2>2 DEF Final, FinalFor, Undisturbed, Typed
  <2>7. QED
    BY <2>1, <2>4, <2>5, <2>6 DEF Final
<1>5. ASSUME NEW p \in Purchases, Creates(p)
      PROVE  Final'
  <2>1. PICK l \in Locations, line \in Lines, paid \in Nat, key \in Keys \cup {NoKey} :
          CreatePurchase(p, l, line, paid, key)
    BY <1>5 DEF Creates
  <2>2. line.qty \in Nat \ {0}
    BY LineQuantities DEF ProcurementConstants
  <2>3. /\ UNCHANGED <<job, raced, reopened>> /\ Rows' = Rows \cup {p} /\ p \notin Rows
        /\ \A q \in Rows : purchase'[q] = purchase[q]
        /\ purchase'[p] =
             [status |-> "PENDING", approval |-> "PENDING", deleted |-> FALSE, at |-> l,
              key |-> key, item |-> line.item, qty |-> line.qty, line |-> 1,
              received |-> 0, returned |-> 0, debited |-> 0, total |-> line.qty, paid |-> paid]
    BY <2>1, CreatesOneRow
  <2>4. FinalAt(p)'
    BY <2>2, <2>3 DEF FinalAt
  <2>5. \A q \in Rows : FinalAt(q)'
    BY <2>3 DEF Final, FinalAt, Undisturbed
  <2>6. \A q \in Requests : FinalFor(q)'
    BY <2>3 DEF Final, FinalFor, Undisturbed, Typed
  <2>7. QED
    BY <2>3, <2>4, <2>5, <2>6 DEF Final
<1>6. CASE UNCHANGED vars
  BY <1>6 DEF vars, books, Final, FinalAt, FinalFor, Undisturbed, Rows
<1>7. QED
  BY <1>1, <1>2, <1>3, <1>4, <1>5, <1>6 DEF BooksStep, RowsStep

\* A step on p keeps its money in order, and pays no more than is outstanding.
Settled(p) ==
  /\ OwedAt(p)'
  /\ p \notin raced' /\ purchase'[p].paid > purchase[p].paid =>
       purchase'[p].paid <= purchase'[p].total

LEMMA OwedStep ==
  ASSUME ProcurementConstants, Typed, Typed', Alone, Owed, BooksStep
  PROVE  Owed' /\ \A p \in Rows : p \in Rows' /\ Settled(p)
<1>1. ASSUME NEW r \in Requests, NEW p \in Purchases, Reads(r, p)
      PROVE  Owed' /\ \A q \in Rows : q \in Rows' /\ Settled(q)
  <2>1. /\ p \in Rows /\ Rows' = Rows /\ UNCHANGED <<purchase, reopened>>
        /\ \A q \in Requests \ {r} : job'[q] = job[q]
        /\ job'[r].on = p /\ raced \subseteq raced'
        /\ job'[r].op = "pay" => job'[r].n <= Outstanding(p)
        /\ job'[r].op \in {"debit", "addon"} => job'[r].n <= purchase[p].total
    BY <1>1, ReadEffects
  <2>2. \A q \in Rows : OwedAt(q)'
    BY <2>1 DEF Owed, OwedAt
  <2>3. OwedFor(r)'
    BY <2>1 DEF OwedFor, Outstanding
  <2>4. \A q \in Requests \ {r} : OwedFor(q)'
    BY <2>1 DEF Owed, OwedFor, Outstanding
  <2>5. \A q \in Rows : ~(purchase'[q].paid > purchase[q].paid)
    BY <2>1, RowNumbers
  <2>6. QED
    BY <2>1, <2>2, <2>3, <2>4, <2>5 DEF Owed, Settled
<1>2. ASSUME NEW r \in Requests, CountReceipt(r) \/ RollBack(r)
      PROVE  Owed' /\ \A q \in Rows : q \in Rows' /\ Settled(q)
  <2>1. /\ Rows' = Rows /\ UNCHANGED <<purchase, raced, reopened>>
        /\ \A q \in Requests \ {r} : job'[q] = job[q]
        /\ job'[r] = Idle \/ job'[r].op = "count"
    BY <1>2, AtRest
  <2>2. \A q \in Rows : OwedAt(q)'
    BY <2>1 DEF Owed, OwedAt
  <2>3. OwedFor(r)'
    BY <2>1 DEF OwedFor
  <2>4. \A q \in Requests \ {r} : OwedFor(q)'
    BY <2>1 DEF Owed, OwedFor, Outstanding
  <2>5. \A q \in Rows : ~(purchase'[q].paid > purchase[q].paid)
    BY <2>1, RowNumbers
  <2>6. QED
    BY <2>1, <2>2, <2>3, <2>4, <2>5 DEF Owed, Settled
<1>3. ASSUME NEW r \in Requests, Writes(r)
      PROVE  Owed' /\ \A q \in Rows : q \in Rows' /\ Settled(q)
  <2>0. PICK p \in Rows : p = job[r].on
    BY <1>3, WritesOneRow
  <2>1. /\ Rows' = Rows /\ raced' = raced
        /\ \A q \in Rows \ {p} : purchase'[q] = purchase[q]
        /\ job'[r] = Idle /\ \A q \in Requests \ {r} : job'[q] = job[q]
        /\ \A q \in Requests \ {r} :
             job[q] # Idle /\ job[q].on \notin raced => job[q].on \in Rows \ {p}
    BY <1>3, <2>0, RowsApart
  <2>2. \/ StatusIsSet(p) \/ LinesAreReplaced(r, p) \/ IsDeleted(r, p) \/ IsReceived(r, p)
        \/ IsReduced(r, p) \/ IsPaid(r, p)
    BY <1>3, <2>0, WriteEffects
  <2>3. job[r] # Idle /\ job[r].n \in Nat
    BY <1>3, WritesOneRow DEF JobRecord, Idle
  <2>4. purchase[p].total \in Int /\ purchase[p].paid \in Nat
    BY RowNumbers
  <2>5. OwedAt(p) /\ OwedFor(r)
    BY DEF Owed
  <2>6. Settled(p)
    <3>1. CASE SameMoney(p)
      BY <2>1, <2>4, <2>5, <3>1 DEF OwedAt, Settled, SameMoney
    <3>2. CASE LinesAreReplaced(r, p)
      BY <2>4, <3>2 DEF OwedAt, Settled, LinesAreReplaced
    <3>3. CASE IsReduced(r, p)
      BY <2>0, <2>1, <2>3, <2>4, <2>5, <3>3 DEF OwedAt, OwedFor, Settled, IsReduced
    <3>4. CASE IsPaid(r, p)
      BY <2>0, <2>1, <2>3, <2>4, <2>5, <3>4 DEF OwedAt, OwedFor, Settled, IsPaid, Outstanding
    <3>5. QED
      BY <2>2, <3>1, <3>2, <3>3, <3>4 DEF StatusIsSet, IsDeleted, IsReceived
  <2>7. \A q \in Rows \ {p} : Settled(q)
    <3>1. \A q \in Rows \ {p} : ~(purchase'[q].paid > purchase[q].paid)
      BY <2>1, RowNumbers
    <3>2. QED
      BY <2>1, <3>1 DEF Owed, OwedAt, Settled
  <2>8. OwedFor(r)'
    BY <2>1 DEF OwedFor
  <2>9. \A q \in Requests \ {r} : OwedFor(q)'
    BY <2>1 DEF Owed, OwedFor, Outstanding
  <2>10. QED
    BY <2>1, <2>6, <2>7, <2>8, <2>9 DEF Owed, Settled
<1>4. ASSUME NEW p \in Purchases, Changes(p)
      PROVE  Owed' /\ \A q \in Rows : q \in Rows' /\ Settled(q)
  <2>1. /\ p \in Rows /\ job' = job /\ raced' = raced /\ Rows' = Rows
        /\ \A q \in Rows \ {p} : purchase'[q] = purchase[q]
    BY <1>4, ChangesOneRow, RowReplaced DEF Rows
  <2>2. SameMoney(p)
    BY <1>4, ChangeEffects DEF StatusIsSet, IsReturned
  <2>3. \A q \in Rows : purchase'[q].total = purchase[q].total /\ purchase'[q].paid = purchase[q].paid
    BY <2>1, <2>2 DEF SameMoney
  <2>4. \A q \in Rows : ~(purchase'[q].paid > purchase[q].paid)
    BY <2>3, RowNumbers
  <2>5. \A q \in Rows : OwedAt(q)'
    BY <2>1, <2>3 DEF Owed, OwedAt
  <2>6. \A q \in Requests : OwedFor(q)'
    BY <2>1, <2>3 DEF Owed, OwedFor, Outstanding, Typed
  <2>7. QED
    BY <2>1, <2>4, <2>5, <2>6 DEF Owed, Settled
<1>5. ASSUME NEW p \in Purchases, Creates(p)
      PROVE  Owed' /\ \A q \in Rows : q \in Rows' /\ Settled(q)
  <2>1. PICK l \in Locations, line \in Lines, paid \in Nat, key \in Keys \cup {NoKey} :
          CreatePurchase(p, l, line, paid, key)
    BY <1>5 DEF Creates
  <2>2. line.qty \in Nat \ {0}
    BY LineQuantities DEF ProcurementConstants
  <2>3. /\ UNCHANGED <<job, raced, reopened>> /\ Rows' = Rows \cup {p} /\ p \notin Rows
        /\ \A q \in Rows : purchase'[q] = purchase[q]
        /\ purchase'[p] =
             [status |-> "PENDING", approval |-> "PENDING", deleted |-> FALSE, at |-> l,
              key |-> key, item |-> line.item, qty |-> line.qty, line |-> 1,
              received |-> 0, returned |-> 0, debited |-> 0, total |-> line.qty, paid |-> paid]
    BY <2>1, CreatesOneRow
  <2>4. OwedAt(p)'
    BY <2>2, <2>3 DEF OwedAt
  <2>5. \A q \in Rows : OwedAt(q)'
    BY <2>3 DEF Owed, OwedAt
  <2>6. \A q \in Rows : ~(purchase'[q].paid > purchase[q].paid)
    BY <2>3, RowNumbers
  <2>7. \A q \in Requests : OwedFor(q)'
    BY <2>3 DEF Owed, OwedFor, Outstanding, Typed
  <2>8. QED
    BY <2>3, <2>4, <2>5, <2>6, <2>7 DEF Owed, Settled
<1>6. CASE UNCHANGED vars
  <2>1. Rows' = Rows /\ UNCHANGED <<purchase, job, raced>>
    BY <1>6 DEF vars, books, Rows
  <2>2. \A q \in Rows : ~(purchase'[q].paid > purchase[q].paid)
    BY <2>1, RowNumbers
  <2>3. QED
    BY <2>1, <2>2 DEF Owed, OwedAt, OwedFor, Outstanding, Settled
<1>7. QED
  BY <1>1, <1>2, <1>3, <1>4, <1>5, <1>6 DEF BooksStep, RowsStep

----------------------------------------------------------------------------
(* Purchases                                                               *)

LEMMA OfficeStepIsRowsStep ==
  ASSUME BackOffice, ~NewOrder
  PROVE  RowsStep
<1>1. \A approved \in Approvals : approved \in BOOLEAN
  BY DEF Approvals
<1>2. ASSUME Order PROVE RowsStep
  BY <1>2 DEF Order, RowsStep, Reads, Writes, Changes
<1>3. ASSUME Goods PROVE RowsStep
  <2>1. ASSUME NEW p \in Purchases, NEW n \in 1..MaxLine, NEW approved \in Approvals,
               CreatePurchaseReturn(p, n, approved)
        PROVE  Changes(p)
    BY <1>1, <2>1 DEF Changes
  <2>2. QED
    BY <1>3, <2>1 DEF Goods, RowsStep, Reads
<1>4. ASSUME Money PROVE RowsStep
  <2>1. ASSUME NEW r \in Requests, NEW approved \in Approvals, CreateSupplierDebitNote(r, approved)
        PROVE  Writes(r)
    BY <1>1, <2>1 DEF Writes
  <2>2. ASSUME NEW r \in Requests, CreateGoodsReceiptAddons(r) \/ CreatePayment(r)
        PROVE  Writes(r)
    BY <2>2 DEF Writes
  <2>3. QED
    BY <1>4, <2>1, <2>2 DEF Money, RowsStep, Reads
<1>5. ASSUME NEW r \in Requests, ReceivePurchase(r) \/ RollBack(r) PROVE RowsStep
  BY <1>5 DEF RowsStep, Writes
<1>6. QED
  BY <1>2, <1>3, <1>4, <1>5 DEF BackOffice

LEMMA AppStepIsBooksStep ==
  ASSUME ProcurementConstants, AppTyped, [AppNext]_allVars
  PROVE  BooksStep
<1>1. \A p \in Purchases, l \in Locations, line \in Lines, paid \in Nat, key \in Keys \cup {NoKey} :
        CreatePurchase(p, l, line, paid, key) => BooksStep
  BY DEF BooksStep, RowsStep, Creates
<1>2. ASSUME NewOrder PROVE BooksStep
  BY <1>1, <1>2 DEF NewOrder, ProcurementConstants
<1>6. ASSUME BackOffice PROVE BooksStep
  BY <1>2, <1>6, OfficeStepIsRowsStep DEF BooksStep
<1>7. ASSUME Deliver PROVE BooksStep
  <2>1. ASSUME NEW k \in Keys, NEW p \in Purchases, NEW heard \in BOOLEAN, PostPurchase(k, p, heard)
        PROVE  BooksStep
    <3>1. delivery[k] \in DeliveryRecord
      BY <2>1 DEF PostPurchase, Posting, AppTyped, NoDelivery
    <3>2. delivery[k].at \in Locations /\ delivery[k].line \in Lines /\ 0 \in Nat
      BY <3>1 DEF DeliveryRecord
    <3>3. CreatePurchase(p, delivery[k].at, delivery[k].line, 0, k)
      BY <2>1 DEF PostPurchase
    <3>4. QED
      BY <1>1, <3>2, <3>3
  <2>2. ASSUME NEW k \in Keys, NEW r \in Requests, PostReceipt(k, r)
        PROVE  BooksStep
    <3>1. delivery[k] \in DeliveryRecord
      BY <2>2 DEF PostReceipt, AppTyped, NoDelivery
    <3>2. delivery[k].line.qty \in 1..MaxLine
      BY <3>1, LineQuantities DEF DeliveryRecord
    <3>3. BeginReceipt(r, delivery[k].of, delivery[k].line.qty) /\ delivery[k].of \in Purchases
      BY <2>2 DEF PostReceipt, BeginReceipt, Live, Rows
    <3>4. QED
      BY <3>2, <3>3 DEF BooksStep, RowsStep, Reads
  <2>3. ASSUME NEW r \in Requests, FailDelivery(r) \/ \E addonsFail \in BOOLEAN : BookDelivery(r, addonsFail)
        PROVE  BooksStep
    BY <2>3 DEF FailDelivery, BookDelivery, BooksStep, RowsStep, Writes
  <2>4. ASSUME UNCHANGED vars PROVE BooksStep
    BY <2>4 DEF vars, BooksStep, RowsStep
  <2>5. \/ UNCHANGED vars
        \/ \E k \in Keys, p \in Purchases, heard \in BOOLEAN : PostPurchase(k, p, heard)
        \/ \E k \in Keys, r \in Requests : PostReceipt(k, r)
        \/ \E r \in Requests : FailDelivery(r) \/ \E addonsFail \in BOOLEAN : BookDelivery(r, addonsFail)
    BY <1>7 DEF Deliver, Arrive, FindPurchase, Unreached, RefusePurchase, RefuseReceipt, LoseServer
  <2>6. QED
    BY <2>1, <2>2, <2>3, <2>4, <2>5
<1>8. ASSUME UNCHANGED allVars PROVE BooksStep
  BY <1>8 DEF allVars, vars, BooksStep, RowsStep
<1>9. QED
  BY <1>6, <1>7, <1>8 DEF AppNext

\* What a step may make of a delivery.
LEMMA AppTypedStep ==
  ASSUME ProcurementConstants, Typed, AppTyped, [AppNext]_allVars
  PROVE  AppTyped'
<1>1. \A k \in Keys : delivery[k] # NoDelivery => delivery[k] \in DeliveryRecord
  BY DEF AppTyped
<1>2. ASSUME NEW k \in Keys, NEW l \in Locations, NEW line \in Lines, NEW online \in BOOLEAN,
             Arrive(k, l, line, online)
      PROVE  AppTyped'
  <2>1. [stage |-> IF online THEN "posting" ELSE "queued", queued |-> ~online,
         of |-> NoPurchase, at |-> l, line |-> line] \in DeliveryRecord
    BY DEF DeliveryRecord
  <2>2. QED
    BY <1>2, <2>1 DEF AppTyped, Arrive
<1>3. ASSUME NEW k \in Keys, NEW p \in Purchases, NEW heard \in BOOLEAN,
             PostPurchase(k, p, heard) \/ FindPurchase(k, p, heard)
      PROVE  AppTyped'
  <2>1. delivery[k] \in DeliveryRecord
    BY <1>3 DEF PostPurchase, FindPurchase, Posting, AppTyped, NoDelivery
  <2>2. /\ [delivery[k] EXCEPT !.stage = "created", !.of = p] \in DeliveryRecord
        /\ [delivery[k] EXCEPT !.stage = "queued", !.queued = TRUE] \in DeliveryRecord
    BY <2>1 DEF DeliveryRecord
  <2>3. UNCHANGED <<carries, booked, unsaid>> /\ Answered(k, p, heard)
    BY <1>3 DEF PostPurchase, FindPurchase
  <2>4. QED
    BY <2>2, <2>3 DEF AppTyped, Answered
<1>4. ASSUME NEW k \in Keys,
             Unreached(k) \/ RefusePurchase(k) \/ RefuseReceipt(k) \/ LoseServer(k)
      PROVE  AppTyped'
  <2>1. delivery[k] \in DeliveryRecord
    BY <1>4 DEF Unreached, RefusePurchase, RefuseReceipt, LoseServer, Posting, AppTyped, NoDelivery
  <2>2. /\ [delivery[k] EXCEPT !.stage = "queued", !.queued = TRUE] \in DeliveryRecord
        /\ Refused(delivery[k]) \in DeliveryRecord
        /\ Disconnected(delivery[k]) \in DeliveryRecord
    BY <2>1 DEF DeliveryRecord, Refused, Disconnected
  <2>3. /\ carries' = carries /\ booked' = booked /\ unsaid' \in {unsaid, unsaid \cup {k}}
        /\ delivery' \in {[delivery EXCEPT ![k] = x] : x \in DeliveryRecord}
    BY <1>4, <2>2 DEF Unreached, RefusePurchase, RefuseReceipt, LoseServer
  <2>4. QED
    BY <2>3 DEF AppTyped
<1>5. ASSUME NEW k \in Keys, NEW r \in Requests, PostReceipt(k, r)
      PROVE  AppTyped'
  <2>1. delivery[k] \in DeliveryRecord
    BY <1>5 DEF PostReceipt, AppTyped, NoDelivery
  <2>2. [delivery[k] EXCEPT !.stage = "receiving"] \in DeliveryRecord
    BY <2>1 DEF DeliveryRecord
  <2>3. QED
    BY <1>5, <2>2 DEF PostReceipt, AppTyped
<1>6. ASSUME NEW r \in Requests, NEW addonsFail \in BOOLEAN, BookDelivery(r, addonsFail)
      PROVE  AppTyped'
  <2>1. PICK k \in Keys : k = carries[r]
    BY <1>6 DEF BookDelivery, AppTyped
  <2>2. ASSUME delivery[k].stage = "receiving"
        PROVE  /\ [delivery[k] EXCEPT !.stage = "done"] \in DeliveryRecord
               /\ Refused(delivery[k]) \in DeliveryRecord
    <3>1. delivery[k] \in DeliveryRecord
      BY <1>1, <2>2 DEF NoDelivery
    <3>2. QED
      BY <3>1 DEF DeliveryRecord, Refused
  <2>3. \/ delivery' = [delivery EXCEPT ![k] = delivery[k]]
        \/ delivery[k].stage = "receiving" /\ delivery' = [delivery EXCEPT ![k] = Refused(delivery[k])]
        \/ /\ delivery[k].stage = "receiving"
           /\ delivery' = [delivery EXCEPT ![k] = [delivery[k] EXCEPT !.stage = "done"]]
    BY <1>6, <2>1 DEF BookDelivery
  <2>4. delivery' \in [Keys -> {NoDelivery} \cup DeliveryRecord]
    BY <2>2, <2>3 DEF AppTyped
  <2>5. /\ carries' = [carries EXCEPT ![r] = NoKey]
        /\ booked' = [booked EXCEPT ![k] = booked[k] + 1]
        /\ unsaid' \in {unsaid, unsaid \cup {k}}
    BY <1>6, <2>1 DEF BookDelivery
  <2>6. booked[k] + 1 \in Nat
    BY DEF AppTyped
  <2>7. QED
    BY <2>4, <2>5, <2>6 DEF AppTyped
<1>7. ASSUME NEW r \in Requests, FailDelivery(r)
      PROVE  AppTyped'
  <2>1. PICK k \in Keys : k = carries[r]
    BY <1>7 DEF FailDelivery, AppTyped
  <2>2. ASSUME delivery[k].stage = "receiving"
        PROVE  Refused(delivery[k]) \in DeliveryRecord
    <3>1. delivery[k] \in DeliveryRecord
      BY <1>1, <2>2 DEF NoDelivery
    <3>2. QED
      BY <3>1 DEF DeliveryRecord, Refused
  <2>3. \/ delivery' = [delivery EXCEPT ![k] = delivery[k]]
        \/ delivery[k].stage = "receiving" /\ delivery' = [delivery EXCEPT ![k] = Refused(delivery[k])]
    BY <1>7, <2>1 DEF FailDelivery
  <2>4. carries' = [carries EXCEPT ![r] = NoKey] /\ UNCHANGED <<booked, unsaid>>
    BY <1>7 DEF FailDelivery
  <2>5. QED
    BY <2>2, <2>3, <2>4 DEF AppTyped
<1>8. ASSUME UNCHANGED app PROVE AppTyped'
  BY <1>8 DEF app, AppTyped
<1>9. QED
  BY <1>2, <1>3, <1>4, <1>5, <1>6, <1>7, <1>8 DEF AppNext, Deliver, BackOffice, allVars

----------------------------------------------------------------------------
(* Deliveries                                                              *)

\* A row stays, under its key; its first line is the one it was.
GoesOn(p) ==
  /\ p \in Rows' /\ purchase'[p].key = purchase[p].key
  /\ purchase'[p].line = 1 =>
       /\ purchase[p].line = 1 /\ purchase'[p].qty = purchase[p].qty
       /\ purchase'[p].received >= purchase[p].received

LEMMA RowsStay ==
  ASSUME ProcurementConstants, Typed, RowsStep
  PROVE  Rows' = Rows
BY ReadEffects, WritesOneRow, ChangesOneRow, RowReplaced, AtRest DEF RowsStep, vars, books, Rows

LEMMA RowsGoOn ==
  ASSUME ProcurementConstants, Typed, Typed', BooksStep, NEW p \in Rows
  PROVE  GoesOn(p)
<1>0. /\ p \in Purchases /\ purchase[p].received \in Nat
      /\ purchase[p].qty \in Nat \ {0} /\ purchase[p].line \in Nat \ {0}
  BY RowNumbers
<1>1. ASSUME purchase'[p] = purchase[p], p \in Rows' PROVE GoesOn(p)
  BY <1>0, <1>1 DEF GoesOn
<1>2. ASSUME NEW r \in Requests, Writes(r) PROVE GoesOn(p)
  <2>1. PICK q \in Rows : q = job[r].on
    BY <1>2, WritesOneRow
  <2>2. Rewritten(q) /\ job[r] \in JobRecord
    BY <1>2, <2>1, WritesOneRow
  <2>3. CASE p = q
    <3>1. /\ p \in Rows' /\ purchase'[p].key = purchase[p].key
      BY <2>2, <2>3, RowReplaced
    <3>2. SameGoods(p) \/ LinesAreReplaced(r, p) \/ IsReceived(r, p)
      BY <1>2, <2>1, <2>3, WriteEffects DEF StatusIsSet, IsDeleted, IsReduced, IsPaid
    <3>3. job[r].n \in Nat
      BY <2>2 DEF JobRecord
    <3>4. QED
      BY <1>0, <3>1, <3>2, <3>3 DEF GoesOn, SameGoods, LinesAreReplaced, IsReceived
  <2>4. CASE p # q
    BY <1>0, <1>1, <2>2, <2>4, RowReplaced
  <2>5. QED
    BY <2>3, <2>4
<1>3. ASSUME NEW q \in Purchases, Changes(q) PROVE GoesOn(p)
  <2>1. q \in Rows /\ Rewritten(q)
    BY <1>3, ChangesOneRow
  <2>2. CASE p = q
    <3>1. p \in Rows' /\ purchase'[p].key = purchase[p].key
      BY <2>1, <2>2, RowReplaced
    <3>2. /\ purchase'[p].received = purchase[p].received /\ purchase'[p].qty = purchase[p].qty
          /\ purchase'[p].line = purchase[p].line
      BY <1>3, <2>2, ChangeEffects DEF StatusIsSet, SameGoods, IsReturned
    <3>3. QED
      BY <1>0, <3>1, <3>2 DEF GoesOn
  <2>3. CASE p # q
    BY <1>0, <1>1, <2>1, <2>3, RowReplaced
  <2>4. QED
    BY <2>2, <2>3
<1>4. ASSUME NEW q \in Purchases, Creates(q) PROVE GoesOn(p)
  BY <1>1, <1>4, CreatesOneRow DEF Creates
<1>5. ASSUME NEW r \in Requests, NEW q \in Purchases, Reads(r, q) PROVE GoesOn(p)
  BY <1>1, <1>5, ReadEffects
<1>6. ASSUME NEW r \in Requests, CountReceipt(r) \/ RollBack(r) PROVE GoesOn(p)
  BY <1>1, <1>6, AtRest
<1>7. ASSUME UNCHANGED vars PROVE GoesOn(p)
  BY <1>1, <1>7 DEF vars, books, Rows
<1>8. QED
  BY <1>2, <1>3, <1>4, <1>5, <1>6, <1>7 DEF BooksStep, RowsStep

\* A delivery keeps its line.
KeepsLine(k) ==
  delivery[k] # NoDelivery => delivery'[k] # NoDelivery /\ delivery'[k].line = delivery[k].line

\* A request that carries a delivery goes on.
Carries(r) ==
  /\ carries'[r] = carries[r]
  /\ carries[r] # NoKey =>
       /\ job'[r].on = job[r].on /\ job'[r].n = job[r].n
       /\ job'[r].op = job[r].op \/ job'[r].op = "count"

\* What goes on by itself.
LEMMA CarriedFrame ==
  ASSUME ProcurementConstants, Typed, Typed', AppTyped, Counted', Carried,
         \A p \in Rows : GoesOn(p), \A k \in Keys : KeepsLine(k)
  PROVE  /\ \A p, q \in Rows : KeyIsUnique(p, q)'
         /\ \A p \in Rows : KeyedRow(p)'
         /\ \A r \in Requests : Carries(r) => CarriesAll(r)'
         /\ \A k \in Keys : delivery'[k] = delivery[k] => OfItsKey(k)'
         /\ \A k \in Keys : booked'[k] = booked[k] => BookedOnce(k)'
<1>1. ASSUME NEW p \in Rows PROVE purchase[p].key \in Keys \cup {NoKey}
  BY DEF Typed, PurchaseRecord
<1>2. \A p, q \in Rows : KeyIsUnique(p, q)'
  BY DEF Carried, KeyIsUnique, GoesOn
<1>3. ASSUME NEW p \in Rows PROVE KeyedRow(p)'
  <2>1. KeyedRow(p) /\ GoesOn(p)
    BY DEF Carried
  <2>2. CASE purchase[p].key = NoKey
    BY <2>1, <2>2 DEF GoesOn, KeyedRow
  <2>3. CASE purchase[p].key \in Keys
    BY <2>1, <2>3 DEF GoesOn, KeyedRow, KeepsLine
  <2>4. QED
    BY <1>1, <2>2, <2>3
<1>4. ASSUME NEW r \in Requests, Carries(r) PROVE CarriesAll(r)'
  <2>1. SUFFICES ASSUME carries'[r] # NoKey
                 PROVE  /\ job'[r].op \in {"receive", "count"}
                        /\ purchase'[job'[r].on].key = carries'[r]
                        /\ job'[r].n = delivery'[carries'[r]].line.qty
    BY DEF CarriesAll
  <2>2. /\ carries'[r] = carries[r] /\ carries[r] \in Keys /\ CarriesAll(r)
        /\ job'[r].on = job[r].on /\ job'[r].n = job[r].n
        /\ job'[r].op = job[r].op \/ job'[r].op = "count"
    BY <1>4, <2>1 DEF Carries, Carried, AppTyped
  <2>3. /\ job[r].op \in {"receive", "count"}
        /\ purchase[job[r].on].key = carries[r]
        /\ job[r].n = delivery[carries[r]].line.qty
    BY <2>1, <2>2 DEF CarriesAll
  <2>4. job[r].on \in Rows
    BY <2>3 DEF Typed, Idle
  <2>5. delivery[carries[r]] # NoDelivery
    BY <2>2, <2>3, <2>4 DEF Carried, KeyedRow, ProcurementConstants
  <2>6. delivery'[carries[r]].line = delivery[carries[r]].line
    BY <2>2, <2>5 DEF KeepsLine
  <2>7. purchase'[job[r].on].key = purchase[job[r].on].key
    BY <2>4 DEF GoesOn
  <2>8. QED
    BY <2>2, <2>3, <2>6, <2>7
<1>5. ASSUME NEW k \in Keys, delivery'[k] = delivery[k] PROVE OfItsKey(k)'
  BY <1>5 DEF Carried, OfItsKey, GoesOn
<1>6. ASSUME NEW k \in Keys, booked'[k] = booked[k] PROVE BookedOnce(k)'
  <2>1. SUFFICES ASSUME booked'[k] > 0
                 PROVE  \E p \in Rows' :
                          /\ purchase'[p].key = k
                          /\ purchase'[p].line = 1 =>
                               booked'[k] = 1 /\ purchase'[p].received = purchase'[p].qty
    BY DEF BookedOnce
  <2>2. PICK p \in Rows :
          /\ purchase[p].key = k
          /\ purchase[p].line = 1 => booked[k] = 1 /\ purchase[p].received = purchase[p].qty
    BY <1>6, <2>1 DEF Carried, BookedOnce
  <2>3. /\ purchase[p].received \in Nat /\ purchase[p].qty \in Nat /\ GoesOn(p)
    BY RowNumbers
  <2>4. purchase'[p] \in PurchaseRecord /\ purchase'[p].received <= purchase'[p].qty
    BY <2>3 DEF GoesOn, Typed, Counted, LinesKept
  <2>5. purchase'[p].received \in Nat /\ purchase'[p].qty \in Nat
    BY <2>4 DEF PurchaseRecord, ProcurementConstants
  <2>6. QED
    BY <1>6, <2>2, <2>3, <2>4, <2>5 DEF GoesOn
<1>7. QED
  BY <1>2, <1>3, <1>4, <1>5, <1>6

\* The back office ends no request of a delivery.
LEMMA OfficeLetsCarry ==
  ASSUME ProcurementConstants, Typed, AppTyped, Carried, BackOffice \/ UNCHANGED allVars,
         NEW r \in Requests
  PROVE  Carries(r)
<1>0. carries' = carries
  BY DEF BackOffice, app, allVars
<1>1. SUFFICES ASSUME carries[r] # NoKey
               PROVE  /\ job'[r].on = job[r].on /\ job'[r].n = job[r].n
                      /\ job'[r].op = job[r].op \/ job'[r].op = "count"
  BY <1>0 DEF Carries
<1>2. job[r].op \in {"receive", "count"} /\ job[r] # Idle
  BY <1>1 DEF Carried, CarriesAll, Idle
<1>3. ASSUME job'[r] # job[r], BackOffice PROVE CountReceipt(r)
  <2>1. ASSUME NEW q \in Requests, NEW p \in Purchases, Reads(q, p) PROVE job'[r] = job[r]
    BY <1>2, <2>1, ReadEffects
  <2>2. ASSUME NEW q \in Requests, Writes(q), job[q].op # "count" PROVE job'[r] = job[r]
    <3>1. job[q].op # "receive"
      BY <2>2 DEF Writes, SetStatus, DeletePurchase, ReplaceLines, ReceivePurchase,
             CreateSupplierDebitNote, CreateGoodsReceiptAddons, CreatePayment
    <3>2. QED
      BY <1>2, <2>2, <3>1, WritesOneRow DEF Typed
  <2>3. ASSUME NEW q \in Requests, CountReceipt(q), q # r PROVE job'[r] = job[r]
    BY <2>3, AtRest
  <2>4. ASSUME NewOrder PROVE job'[r] = job[r]
    BY <2>4 DEF NewOrder, CreatePurchase
  <2>5. ASSUME NEW p \in Purchases, Changes(p) PROVE job'[r] = job[r]
    BY <2>5, ChangesOneRow
  <2>6. ASSUME Order PROVE job'[r] = job[r]
    <3>1. \A q \in Requests : SetStatus(q) \/ DeletePurchase(q) \/ (\E line \in Lines : ReplaceLines(q, line))
            => Writes(q) /\ job[q].op # "count"
      BY DEF Writes, SetStatus, DeletePurchase, ReplaceLines
    <3>2. QED
      BY <2>1, <2>2, <2>5, <2>6, <3>1 DEF Order, Reads, Changes
  <2>7. ASSUME Goods, ~CountReceipt(r) PROVE job'[r] = job[r]
    <3>1. \A approved \in Approvals : approved \in BOOLEAN
      BY DEF Approvals
    <3>2. QED
      BY <2>1, <2>3, <2>5, <2>7, <3>1 DEF Goods, Reads, Changes
  <2>8. ASSUME Money PROVE job'[r] = job[r]
    <3>1. \A approved \in Approvals : approved \in BOOLEAN
      BY DEF Approvals
    <3>2. \A q \in Requests : \/ \E approved \in Approvals : CreateSupplierDebitNote(q, approved)
                              \/ CreateGoodsReceiptAddons(q) \/ CreatePayment(q)
            => Writes(q) /\ job[q].op # "count"
      BY <3>1 DEF Writes, CreateSupplierDebitNote, CreateGoodsReceiptAddons, CreatePayment
    <3>3. QED
      BY <2>1, <2>2, <2>8, <3>2 DEF Money, Reads
  <2>9. ASSUME NEW q \in Requests, carries[q] = NoKey, ReceivePurchase(q) \/ RollBack(q)
        PROVE  job'[r] = job[r]
    BY <1>1, <2>9 DEF ReceivePurchase, RollBack, End, Typed
  <2>10. QED
    BY <1>3, <2>4, <2>6, <2>7, <2>8, <2>9 DEF BackOffice
<1>4. ASSUME UNCHANGED allVars PROVE job'[r] = job[r]
  BY <1>4 DEF allVars, vars, books
<1>5. ASSUME CountReceipt(r)
      PROVE  /\ job'[r].on = job[r].on /\ job'[r].n = job[r].n /\ job'[r].op = "count"
  <2>1. job[r] \in JobRecord
    BY <1>2 DEF Typed
  <2>2. job'[r] = [job[r] EXCEPT !.op = "count"]
    BY <1>5 DEF CountReceipt, Typed
  <2>3. QED
    BY <2>1, <2>2 DEF JobRecord
<1>6. QED
  BY <1>3, <1>4, <1>5

\* A purchase that is new has the key of no other row.
LEMMA NewRowCarried ==
  ASSUME ProcurementConstants, Typed, NEW p \in Purchases, NEW l \in Locations,
         NEW line \in Lines, NEW paid \in Nat, NEW key \in Keys \cup {NoKey},
         CreatePurchase(p, l, line, paid, key), \A q, r \in Rows : KeyIsUnique(q, r)'
  PROVE  \A q, r \in Rows' : KeyIsUnique(q, r)'
<1>1. /\ Rows' = Rows \cup {p} /\ purchase'[p].key = key
      /\ \A q \in Rows : purchase'[q] = purchase[q]
  BY CreatesOneRow
<1>2. key # NoKey => \A q \in Rows : purchase[q].key # key
  BY DEF CreatePurchase, KeyTaken
<1>3. QED
  BY <1>1, <1>2 DEF KeyIsUnique

LEMMA OfficeKeepsCarried ==
  ASSUME ProcurementConstants, Typed, Typed', AppTyped, Counted', Carried, BooksStep,
         BackOffice \/ UNCHANGED allVars
  PROVE  Carried'
<1>1. UNCHANGED <<delivery, booked, unsaid>>
  BY DEF BackOffice, app, allVars
<1>2. \A p \in Rows : GoesOn(p)
  BY RowsGoOn
<1>3. \A k \in Keys : KeepsLine(k)
  BY <1>1 DEF KeepsLine
<1>4. /\ \A p, q \in Rows : KeyIsUnique(p, q)'
      /\ \A p \in Rows : KeyedRow(p)'
      /\ \A r \in Requests : Carries(r) => CarriesAll(r)'
      /\ \A k \in Keys : delivery'[k] = delivery[k] => OfItsKey(k)'
      /\ \A k \in Keys : booked'[k] = booked[k] => BookedOnce(k)'
  BY <1>2, <1>3, CarriedFrame
<1>5. \A r \in Requests : CarriesAll(r)'
  BY <1>4, OfficeLetsCarry
<1>6. \A k \in Keys : OfItsKey(k)' /\ Told(k)' /\ BookedOnce(k)'
  BY <1>1, <1>4 DEF Told, Carried
<1>7. /\ \A p, q \in Rows' : KeyIsUnique(p, q)'
      /\ \A p \in Rows' : KeyedRow(p)'
  <2>1. CASE NewOrder
    <3>1. PICK p \in Purchases, l \in Locations, line \in Lines, paid \in Nat :
            CreatePurchase(p, l, line, paid, NoKey)
      BY <2>1 DEF NewOrder, ProcurementConstants
    <3>2. Rows' = Rows \cup {p} /\ purchase'[p].key = NoKey
      <4>1. NoKey \in Keys \cup {NoKey}
        OBVIOUS
      <4>2. QED
        BY <3>1, <4>1, CreatesOneRow
    <3>3. KeyedRow(p)'
      BY <3>2 DEF KeyedRow
    <3>4. QED
      BY <1>4, <3>1, <3>2, <3>3, NewRowCarried
  <2>2. CASE Rows' = Rows
    BY <1>4, <2>2
  <2>3. NewOrder \/ Rows' = Rows
    <3>1. CASE UNCHANGED allVars
      BY <3>1 DEF allVars, vars, books, Rows
    <3>2. CASE BackOffice
      BY <3>2, OfficeStepIsRowsStep, RowsStay
    <3>3. QED
      BY <3>1, <3>2
  <2>4. QED
    BY <2>1, <2>2, <2>3
<1>8. QED
  BY <1>5, <1>6, <1>7 DEF Carried

\* A delivery that is only given another stage.
Restaged(d, new, stages) ==
  new # NoDelivery /\ new.line = d.line /\ new.of = d.of /\ new.stage \in stages

LEMMA Stages ==
  ASSUME NEW d \in DeliveryRecord
  PROVE  /\ Restaged(d, Refused(d), {"dropped", "failed"})
         /\ Restaged(d, Disconnected(d), {"queued", "failed"})
         /\ Restaged(d, [d EXCEPT !.stage = "queued", !.queued = TRUE], {"queued"})
         /\ Restaged(d, [d EXCEPT !.stage = "receiving"], {"receiving"})
         /\ Restaged(d, [d EXCEPT !.stage = "done"], {"done"})
BY DEF Restaged, DeliveryRecord, Refused, Disconnected, NoDelivery

\* Steps of the app that write no book and end no request.
LEMMA AppAloneKeepsCarried ==
  ASSUME ProcurementConstants, Typed, Typed', AppTyped, Counted', Carried, BooksStep,
         UNCHANGED <<vars, carries, booked>>, unsaid \subseteq unsaid',
         NEW k \in Keys,
         \A j \in Keys \ {k} : delivery'[j] = delivery[j],
         KeepsLine(k), OfItsKey(k)', Told(k)'
  PROVE  Carried'
<1>1. Rows' = Rows /\ UNCHANGED <<purchase, job>>
  BY DEF vars, books, Rows
<1>2. \A p \in Rows : GoesOn(p)
  BY RowsGoOn
<1>3. \A j \in Keys : KeepsLine(j)
  BY DEF KeepsLine
<1>4. /\ \A p, q \in Rows : KeyIsUnique(p, q)'
      /\ \A p \in Rows : KeyedRow(p)'
      /\ \A r \in Requests : Carries(r) => CarriesAll(r)'
      /\ \A j \in Keys : delivery'[j] = delivery[j] => OfItsKey(j)'
      /\ \A j \in Keys : booked'[j] = booked[j] => BookedOnce(j)'
  BY <1>2, <1>3, CarriedFrame
<1>5. \A r \in Requests : Carries(r)
  BY <1>1 DEF Carries
<1>6. \A j \in Keys \ {k} : Told(j)'
  BY DEF Carried, Told
<1>7. QED
  BY <1>1, <1>4, <1>5, <1>6 DEF Carried

LEMMA Answering ==
  ASSUME AppTyped, NEW k \in Keys, delivery[k] \in DeliveryRecord, NEW p, NEW heard \in BOOLEAN,
         delivery' = [delivery EXCEPT ![k] =
           IF heard THEN [@ EXCEPT !.stage = "created", !.of = p]
                    ELSE [@ EXCEPT !.stage = "queued", !.queued = TRUE]]
  PROVE  /\ \A j \in Keys \ {k} : delivery'[j] = delivery[j]
         /\ delivery'[k] # NoDelivery /\ delivery'[k].line = delivery[k].line
         /\ \/ delivery'[k].stage = "queued"
            \/ delivery'[k].stage = "created" /\ delivery'[k].of = p
<1>1. /\ \A j \in Keys \ {k} : delivery'[j] = delivery[j]
      /\ \/ delivery'[k] = [delivery[k] EXCEPT !.stage = "created", !.of = p]
         \/ delivery'[k] = [delivery[k] EXCEPT !.stage = "queued", !.queued = TRUE]
  BY DEF AppTyped
<1> DEFINE new == [delivery[k] EXCEPT !.stage = "created", !.of = p]
<1>2. new.stage = "created" /\ new.of = p /\ new.line = delivery[k].line
  BY DEF DeliveryRecord
<1>3. Restaged(delivery[k], [delivery[k] EXCEPT !.stage = "queued", !.queued = TRUE], {"queued"})
  BY Stages
<1> HIDE DEF new
<1>4. new # NoDelivery
  BY <1>2 DEF NoDelivery
<1>5. delivery'[k] = new \/ delivery'[k] = [delivery[k] EXCEPT !.stage = "queued", !.queued = TRUE]
  BY <1>1 DEF new
<1>6. QED
  BY <1>1, <1>2, <1>3, <1>4, <1>5 DEF Restaged

LEMMA CarriedStep ==
  ASSUME ProcurementConstants, Typed, Typed', AppTyped, AppTyped', Counted, Counted', Carried,
         [AppNext]_allVars
  PROVE  Carried'
<1>0. BooksStep
  BY AppStepIsBooksStep
<1>00. \A k \in Keys : delivery[k].stage # "none" => delivery[k] \in DeliveryRecord
  BY DEF AppTyped, NoDelivery
<1>1. ASSUME NEW k \in Keys, NEW l \in Locations, NEW line \in Lines, NEW online \in BOOLEAN,
             Arrive(k, l, line, online)
      PROVE  Carried'
  <2>1. /\ UNCHANGED <<vars, carries, booked, unsaid>> /\ delivery[k] = NoDelivery
        /\ \A j \in Keys \ {k} : delivery'[j] = delivery[j]
        /\ delivery'[k].stage \in {"posting", "queued"}
    BY <1>1 DEF Arrive, AppTyped
  <2>2. KeepsLine(k) /\ OfItsKey(k)'
    BY <2>1 DEF KeepsLine, OfItsKey
  <2>3. Told(k)'
    BY <2>1 DEF Carried, Told, NoDelivery
  <2>4. QED
    BY <1>0, <2>1, <2>2, <2>3, AppAloneKeepsCarried
<1>2. ASSUME NEW k \in Keys, Unreached(k) \/ RefusePurchase(k) \/ RefuseReceipt(k) \/ LoseServer(k)
      PROVE  Carried'
  <2>1. /\ UNCHANGED <<vars, carries, booked>>
        /\ unsaid' \in {unsaid, unsaid \cup {k}}
        /\ booked[k] > 0 /\ delivery[k].stage = "receiving" => k \in unsaid' \/ k \in unsaid
        /\ \/ delivery' = [delivery EXCEPT ![k] = Refused(delivery[k])]
           \/ delivery' = [delivery EXCEPT ![k] = Disconnected(delivery[k])]
           \/ delivery' = [delivery EXCEPT ![k] =
                             [delivery[k] EXCEPT !.stage = "queued", !.queued = TRUE]]
        /\ delivery[k].stage \in {"posting", "queued", "created", "receiving"}
    BY <1>2 DEF Unreached, RefusePurchase, RefuseReceipt, LoseServer, Posting
  <2>2. delivery[k] \in DeliveryRecord
    BY <1>00, <2>1
  <2>3. Restaged(delivery[k], delivery'[k], {"queued", "failed", "dropped"})
    <3>1. \/ delivery'[k] = Refused(delivery[k])
          \/ delivery'[k] = Disconnected(delivery[k])
          \/ delivery'[k] = [delivery[k] EXCEPT !.stage = "queued", !.queued = TRUE]
      BY <2>1 DEF AppTyped
    <3>2. /\ Restaged(delivery[k], Refused(delivery[k]), {"dropped", "failed"})
          /\ Restaged(delivery[k], Disconnected(delivery[k]), {"queued", "failed"})
          /\ Restaged(delivery[k], [delivery[k] EXCEPT !.stage = "queued", !.queued = TRUE], {"queued"})
      BY <2>2, Stages
    <3>3. QED
      BY <3>1, <3>2 DEF Restaged
  <2>4. \A j \in Keys \ {k} : delivery'[j] = delivery[j]
    BY <2>1 DEF AppTyped
  <2>5. KeepsLine(k) /\ OfItsKey(k)'
    BY <2>3 DEF Restaged, KeepsLine, OfItsKey
  <2>6. Told(k)'
    BY <2>1, <2>3 DEF Restaged, Told, Carried
  <2>7. QED
    BY <1>0, <2>1, <2>4, <2>5, <2>6, AppAloneKeepsCarried
<1>3. ASSUME NEW k \in Keys, NEW p \in Purchases, NEW heard \in BOOLEAN, FindPurchase(k, p, heard)
      PROVE  Carried'
  <2>1. /\ UNCHANGED <<vars, carries, booked, unsaid>>
        /\ delivery[k].stage \in {"posting", "queued"}
        /\ p \in Rows /\ purchase[p].key = k
        /\ delivery' = [delivery EXCEPT ![k] =
             IF heard THEN [@ EXCEPT !.stage = "created", !.of = p]
                      ELSE [@ EXCEPT !.stage = "queued", !.queued = TRUE]]
    BY <1>3 DEF FindPurchase, Posting, Answered, Live
  <2>2. /\ \A j \in Keys \ {k} : delivery'[j] = delivery[j]
        /\ delivery'[k] # NoDelivery /\ delivery'[k].line = delivery[k].line
        /\ \/ delivery'[k].stage = "queued"
           \/ delivery'[k].stage = "created" /\ delivery'[k].of = p
    BY <1>00, <2>1, Answering
  <2>3. Rows' = Rows /\ purchase' = purchase
    BY <2>1 DEF vars, books, Rows
  <2>4. KeepsLine(k) /\ OfItsKey(k)'
    BY <2>1, <2>2, <2>3 DEF KeepsLine, OfItsKey
  <2>5. Told(k)'
    BY <2>1, <2>2 DEF Told, Carried
  <2>6. QED
    BY <1>0, <2>1, <2>2, <2>4, <2>5, AppAloneKeepsCarried
<1>4. ASSUME NEW k \in Keys, NEW p \in Purchases, NEW heard \in BOOLEAN, PostPurchase(k, p, heard)
      PROVE  Carried'
  <2>1. /\ UNCHANGED <<carries, booked, unsaid>>
        /\ delivery[k].stage \in {"posting", "queued"}
        /\ CreatePurchase(p, delivery[k].at, delivery[k].line, 0, k)
        /\ delivery' = [delivery EXCEPT ![k] =
             IF heard THEN [@ EXCEPT !.stage = "created", !.of = p]
                      ELSE [@ EXCEPT !.stage = "queued", !.queued = TRUE]]
    BY <1>4 DEF PostPurchase, Posting, Answered
  <2>2. /\ \A j \in Keys \ {k} : delivery'[j] = delivery[j]
        /\ delivery'[k] # NoDelivery /\ delivery'[k].line = delivery[k].line
        /\ \/ delivery'[k].stage = "queued"
           \/ delivery'[k].stage = "created" /\ delivery'[k].of = p
    BY <1>00, <2>1, Answering
  <2>3. delivery[k].at \in Locations /\ delivery[k].line \in Lines /\ 0 \in Nat
    BY <1>00, <2>1 DEF DeliveryRecord
  <2>4. /\ job' = job /\ Rows' = Rows \cup {p} /\ purchase'[p].key = k
        /\ purchase'[p].qty = delivery[k].line.qty
    <3>1. /\ job' = job /\ Rows' = Rows \cup {p} /\ purchase'[p].key = k
          /\ purchase'[p] =
               [status |-> "PENDING", approval |-> "PENDING", deleted |-> FALSE,
                at |-> delivery[k].at, key |-> k, item |-> delivery[k].line.item,
                qty |-> delivery[k].line.qty, line |-> 1, received |-> 0, returned |-> 0,
                debited |-> 0, total |-> delivery[k].line.qty, paid |-> 0]
      BY <2>1, <2>3, CreatesOneRow
    <3>2. QED
      BY <3>1
  <2>5. \A q \in Rows : GoesOn(q)
    BY <1>0, RowsGoOn
  <2>6. \A j \in Keys : KeepsLine(j)
    BY <2>2 DEF KeepsLine
  <2>7. /\ \A q, r \in Rows : KeyIsUnique(q, r)'
        /\ \A q \in Rows : KeyedRow(q)'
        /\ \A r \in Requests : Carries(r) => CarriesAll(r)'
        /\ \A j \in Keys : delivery'[j] = delivery[j] => OfItsKey(j)'
        /\ \A j \in Keys : booked'[j] = booked[j] => BookedOnce(j)'
    BY <2>5, <2>6, CarriedFrame
  <2>8. \A q, r \in Rows' : KeyIsUnique(q, r)'
    BY <2>1, <2>3, <2>7, NewRowCarried
  <2>9. KeyedRow(p)'
    BY <2>2, <2>4 DEF KeyedRow
  <2>10. \A r \in Requests : CarriesAll(r)'
    BY <2>1, <2>4, <2>7 DEF Carries
  <2>11. OfItsKey(k)'
    BY <2>2, <2>4 DEF OfItsKey
  <2>12. \A j \in Keys : Told(j)'
    BY <2>1, <2>2 DEF Told, Carried
  <2>13. QED
    BY <2>1, <2>2, <2>4, <2>7, <2>8, <2>9, <2>10, <2>11, <2>12 DEF Carried
<1>5. ASSUME NEW k \in Keys, NEW r \in Requests, PostReceipt(k, r)
      PROVE  Carried'
  <2>1. /\ UNCHANGED <<booked, unsaid>> /\ delivery[k].stage = "created"
        /\ BeginReceipt(r, delivery[k].of, delivery[k].line.qty)
        /\ delivery' = [delivery EXCEPT ![k] = [delivery[k] EXCEPT !.stage = "receiving"]]
        /\ carries' = [carries EXCEPT ![r] = k]
    BY <1>5 DEF PostReceipt
  <2>2. delivery[k] \in DeliveryRecord
    BY <1>00, <2>1
  <2>3. /\ Restaged(delivery[k], delivery'[k], {"receiving"})
        /\ \A j \in Keys \ {k} : delivery'[j] = delivery[j]
    <3>1. /\ delivery'[k] = [delivery[k] EXCEPT !.stage = "receiving"]
          /\ \A j \in Keys \ {k} : delivery'[j] = delivery[j]
      BY <2>1 DEF AppTyped
    <3>2. QED
      BY <2>2, <3>1, Stages
  <2>4. delivery[k].of \in Rows /\ purchase[delivery[k].of].key = k
    BY <2>1 DEF Carried, OfItsKey
  <2>5. /\ Rows' = Rows /\ purchase' = purchase /\ job[r] = Idle
        /\ \A q \in Requests \ {r} : job'[q] = job[q]
        /\ job'[r] = [op |-> "receive", on |-> delivery[k].of, n |-> delivery[k].line.qty,
                      line |-> purchase[delivery[k].of].line]
    BY <2>1 DEF BeginReceipt, Begin, Typed, Rows
  <2>6. \A q \in Rows : GoesOn(q)
    BY <1>0, RowsGoOn
  <2>7. \A j \in Keys : KeepsLine(j)
    BY <2>3 DEF KeepsLine, Restaged
  <2>8. /\ \A p, q \in Rows : KeyIsUnique(p, q)'
        /\ \A p \in Rows : KeyedRow(p)'
        /\ \A q \in Requests : Carries(q) => CarriesAll(q)'
        /\ \A j \in Keys : delivery'[j] = delivery[j] => OfItsKey(j)'
        /\ \A j \in Keys : booked'[j] = booked[j] => BookedOnce(j)'
    BY <2>6, <2>7, CarriedFrame
  <2>9. carries'[r] = k /\ \A q \in Requests \ {r} : carries'[q] = carries[q]
    BY <2>1 DEF AppTyped
  <2>10. CarriesAll(r)'
    BY <2>3, <2>4, <2>5, <2>9 DEF CarriesAll, Restaged
  <2>11. \A q \in Requests \ {r} : CarriesAll(q)'
    BY <2>5, <2>8, <2>9 DEF Carries
  <2>12. OfItsKey(k)'
    BY <2>3, <2>4, <2>5 DEF OfItsKey, Restaged
  <2>13. \A j \in Keys : Told(j)'
    BY <2>1, <2>3 DEF Told, Carried, Restaged
  <2>14. QED
    BY <2>1, <2>3, <2>5, <2>8, <2>10, <2>11, <2>12, <2>13 DEF Carried
<1>6. ASSUME NEW r \in Requests, NEW addonsFail \in BOOLEAN, BookDelivery(r, addonsFail)
      PROVE  Carried'
  <2>1. PICK k \in Keys : k = carries[r]
    BY <1>6 DEF BookDelivery, AppTyped
  <2>2. /\ ReceivePurchase(r) /\ k # NoKey
        /\ booked' = [booked EXCEPT ![k] = booked[k] + 1]
        /\ carries' = [carries EXCEPT ![r] = NoKey]
        /\ \/ /\ delivery[k].stage # "receiving" /\ delivery' = [delivery EXCEPT ![k] = delivery[k]]
              /\ unsaid' = unsaid \cup {k}
           \/ /\ delivery[k].stage = "receiving"
              /\ delivery' = [delivery EXCEPT ![k] = Refused(delivery[k])]
              /\ unsaid' = unsaid \cup {k}
           \/ /\ delivery[k].stage = "receiving"
              /\ delivery' = [delivery EXCEPT ![k] = [delivery[k] EXCEPT !.stage = "done"]]
              /\ unsaid' = unsaid
    BY <1>6, <2>1 DEF BookDelivery
  <2>3. PICK p \in Rows : p = job[r].on
    BY <2>2, WritesOneRow DEF Writes
  <2>4. /\ Rows' = Rows /\ job[r] \in JobRecord /\ IsReceived(r, p)
        /\ \A q \in Requests \ {r} : job'[q] = job[q]
    <3>1. Writes(r)
      BY <2>2 DEF Writes
    <3>2. /\ job[r] \in JobRecord /\ Rewritten(p) /\ \A q \in Requests \ {r} : job'[q] = job[q]
      BY <2>3, <3>1, WritesOneRow DEF Typed
    <3>3. IsReceived(r, p)
      <4>1. p \in Purchases /\ purchase[p] \in PurchaseRecord
        BY <2>3 DEF Typed, Rows
      <4>2. QED
        BY <2>2, <2>3, <4>1 DEF ReceivePurchase, Typed, PurchaseRecord, IsReceived, SameMoney
    <3>4. QED
      BY <3>2, <3>3, RowReplaced
  <2>5. /\ purchase[p].key = k /\ job[r].n = delivery[k].line.qty
        /\ purchase[p].line = 1 => purchase[p].qty = job[r].n
    BY <2>1, <2>2, <2>3 DEF Carried, CarriesAll, KeyedRow
  <2>6. /\ delivery'[k] = delivery[k] \/ Restaged(delivery[k], delivery'[k], {"dropped", "failed", "done"})
        /\ \A j \in Keys \ {k} : delivery'[j] = delivery[j]
        /\ delivery'[k].stage = "done" \/ k \in unsaid'
        /\ unsaid' \in {unsaid, unsaid \cup {k}}
    <3>1. \A j \in Keys \ {k} : delivery'[j] = delivery[j]
      BY <2>2 DEF AppTyped
    <3>2. CASE delivery[k].stage = "receiving"
      <4>1. delivery[k] \in DeliveryRecord
        BY <1>00, <3>2
      <4>2. /\ Restaged(delivery[k], Refused(delivery[k]), {"dropped", "failed"})
            /\ Restaged(delivery[k], [delivery[k] EXCEPT !.stage = "done"], {"done"})
        BY <4>1, Stages
      <4>3. \/ delivery'[k] = Refused(delivery[k]) /\ unsaid' = unsaid \cup {k}
            \/ delivery'[k] = [delivery[k] EXCEPT !.stage = "done"] /\ unsaid' = unsaid
        BY <2>2, <3>2 DEF AppTyped
      <4>4. QED
        BY <3>1, <4>2, <4>3 DEF Restaged
    <3>3. CASE delivery[k].stage # "receiving"
      BY <2>2, <3>1, <3>3 DEF AppTyped
    <3>4. QED
      BY <3>2, <3>3
  <2>7. \A q \in Rows : GoesOn(q)
    BY <1>0, RowsGoOn
  <2>8. \A j \in Keys : KeepsLine(j)
    BY <2>6 DEF KeepsLine, Restaged
  <2>9. /\ \A q, s \in Rows : KeyIsUnique(q, s)'
        /\ \A q \in Rows : KeyedRow(q)'
        /\ \A q \in Requests : Carries(q) => CarriesAll(q)'
        /\ \A j \in Keys : delivery'[j] = delivery[j] => OfItsKey(j)'
        /\ \A j \in Keys : booked'[j] = booked[j] => BookedOnce(j)'
    BY <2>7, <2>8, CarriedFrame
  <2>10. BookedOnce(k)'
    <3>1. /\ p \in Rows' /\ purchase'[p].key = k
          /\ purchase'[p].line = purchase[p].line /\ purchase'[p].qty = purchase[p].qty
          /\ purchase'[p].received = purchase[p].received + job[r].n
      BY <2>4, <2>5, <2>7 DEF IsReceived, GoesOn
    <3>2. ASSUME purchase[p].line = 1
          PROVE  booked'[k] = 1 /\ purchase'[p].received = purchase'[p].qty
      <4>1. /\ purchase[p].received \in Nat /\ purchase[p].qty \in Nat \ {0}
        BY RowNumbers
      <4>2. purchase[p].received + job[r].n <= purchase[p].qty
        BY <2>3, <2>4 DEF Counted, CountKnows, IsReceived
      <4>3. purchase[p].qty = job[r].n /\ purchase[p].received = 0
        BY <2>5, <3>2, <4>1, <4>2
      <4>4. ~(booked[k] > 0)
        <5>1. SUFFICES ASSUME booked[k] > 0 PROVE FALSE
          OBVIOUS
        <5>2. PICK q \in Rows :
                /\ purchase[q].key = k
                /\ purchase[q].line = 1 => purchase[q].received = purchase[q].qty
          BY <5>1 DEF Carried, BookedOnce
        <5>3. q = p
          BY <2>2, <2>5, <5>2 DEF Carried, KeyIsUnique
        <5>4. QED
          BY <3>2, <4>1, <4>3, <5>2, <5>3
      <4>5. booked[k] \in Nat /\ booked'[k] = booked[k] + 1
        BY <2>2 DEF AppTyped
      <4>6. QED
        BY <3>1, <4>1, <4>3, <4>4, <4>5
    <3>3. QED
      BY <3>1, <3>2 DEF BookedOnce
  <2>11. OfItsKey(k)'
    BY <2>6, <2>9 DEF OfItsKey, Restaged
  <2>12. /\ booked'[k] = booked[k] + 1 /\ booked[k] \in Nat
         /\ \A j \in Keys \ {k} : booked'[j] = booked[j]
    BY <2>2 DEF AppTyped
  <2>13. \A j \in Keys : Told(j)'
    BY <2>6, <2>12 DEF Told, Carried
  <2>14. carries'[r] = NoKey /\ \A q \in Requests \ {r} : carries'[q] = carries[q]
    BY <2>2 DEF AppTyped
  <2>15. \A q \in Requests : CarriesAll(q)'
    <3>1. CarriesAll(r)'
      BY <2>14 DEF CarriesAll
    <3>2. \A q \in Requests \ {r} : CarriesAll(q)'
      BY <2>4, <2>9, <2>14 DEF Carries
    <3>3. QED
      BY <3>1, <3>2
  <2>16. QED
    BY <2>4, <2>6, <2>9, <2>10, <2>11, <2>12, <2>13, <2>15 DEF Carried
<1>7. ASSUME NEW r \in Requests, FailDelivery(r)
      PROVE  Carried'
  <2>1. PICK k \in Keys : k = carries[r]
    BY <1>7 DEF FailDelivery, AppTyped
  <2>2. /\ RollBack(r) /\ UNCHANGED <<booked, unsaid>>
        /\ carries' = [carries EXCEPT ![r] = NoKey]
        /\ \/ delivery' = [delivery EXCEPT ![k] = delivery[k]]
           \/ /\ delivery[k].stage = "receiving"
              /\ delivery' = [delivery EXCEPT ![k] = Refused(delivery[k])]
    BY <1>7, <2>1 DEF FailDelivery
  <2>3. Rows' = Rows /\ \A q \in Requests \ {r} : job'[q] = job[q]
    BY <2>2, AtRest
  <2>4. /\ \/ delivery'[k] = delivery[k]
           \/ /\ delivery[k].stage = "receiving"
              /\ Restaged(delivery[k], delivery'[k], {"dropped", "failed"})
        /\ \A j \in Keys \ {k} : delivery'[j] = delivery[j]
    <3>1. /\ \A j \in Keys \ {k} : delivery'[j] = delivery[j]
          /\ \/ delivery'[k] = delivery[k]
             \/ delivery[k].stage = "receiving" /\ delivery'[k] = Refused(delivery[k])
      BY <2>2 DEF AppTyped
    <3>2. delivery[k].stage = "receiving" =>
            Restaged(delivery[k], Refused(delivery[k]), {"dropped", "failed"})
      BY <1>00, Stages
    <3>3. QED
      BY <3>1, <3>2
  <2>5. \A q \in Rows : GoesOn(q)
    BY <1>0, RowsGoOn
  <2>6. \A j \in Keys : KeepsLine(j)
    BY <2>4 DEF KeepsLine, Restaged
  <2>7. /\ \A q, s \in Rows : KeyIsUnique(q, s)'
        /\ \A q \in Rows : KeyedRow(q)'
        /\ \A q \in Requests : Carries(q) => CarriesAll(q)'
        /\ \A j \in Keys : delivery'[j] = delivery[j] => OfItsKey(j)'
        /\ \A j \in Keys : booked'[j] = booked[j] => BookedOnce(j)'
    BY <2>5, <2>6, CarriedFrame
  <2>8. OfItsKey(k)'
    BY <2>4, <2>7 DEF OfItsKey, Restaged
  <2>9. \A j \in Keys : Told(j)'
    BY <2>2, <2>4 DEF Told, Carried, Restaged
  <2>10. carries'[r] = NoKey /\ \A q \in Requests \ {r} : carries'[q] = carries[q]
    BY <2>2 DEF AppTyped
  <2>11. \A q \in Requests : CarriesAll(q)'
    <3>1. CarriesAll(r)'
      BY <2>10 DEF CarriesAll
    <3>2. \A q \in Requests \ {r} : CarriesAll(q)'
      BY <2>3, <2>7, <2>10 DEF Carries
    <3>3. QED
      BY <3>1, <3>2
  <2>12. QED
    BY <2>2, <2>3, <2>4, <2>7, <2>8, <2>9, <2>11 DEF Carried
<1>8. ASSUME BackOffice \/ UNCHANGED allVars
      PROVE  Carried'
  BY <1>0, <1>8, OfficeKeepsCarried
<1>9. QED
  BY <1>1, <1>2, <1>3, <1>4, <1>5, <1>6, <1>7, <1>8 DEF AppNext, Deliver

----------------------------------------------------------------------------
(* Goods                                                                   *)

\* What a line has left of its goods, and where.
KeptOf(b, p) == b[p].received - b[p].returned - b[p].debited
PlaceOf(b, p) == <<b[p].at, VariantOf(b[p].item)>>
KeptAt(b, k) ==
  Within([p \in {q \in Purchases : b[q] # NoPurchase} |-> KeptOf(b, p)],
         {p \in Purchases : b[p] # NoPurchase /\ PlaceOf(b, p) = k}, Purchases)

\* The sum of the property, as one over all purchases.
LEMMA KeptSum ==
  ASSUME NEW b, NEW W, IsFiniteSet(W), NEW f, \A p \in W : f[p] = KeptOf(b, p)
  PROVE  MapThenSumSet(LAMBDA p : b[p].received - b[p].returned - b[p].debited, W) = SumOf(f, W)
<1> DEFINE Step(g, S) == IF S = {} THEN 0
             ELSE b[CHOOSE s \in S : TRUE].received - b[CHOOSE s \in S : TRUE].returned
                    - b[CHOOSE s \in S : TRUE].debited + g[S \ {CHOOSE s \in S : TRUE}]
           sum == MapThenSumSet(LAMBDA p : b[p].received - b[p].returned - b[p].debited, W)
<1>1. PICK g : Adds(g, f, W)
  BY AddsExists
<1>2. g = [S \in SUBSET W |-> Step(g, S)]
  BY <1>1, OneLess DEF Adds, KeptOf, Chosen
<1>3. PICK h : h = [S \in SUBSET W |-> Step(h, S)] /\ sum = h[W]
  BY <1>2 DEF MapThenSumSet, MapThenFoldSet
<1> HIDE DEF sum
<1>4. Adds(h, f, W)
  <2>1. ASSUME NEW S \in SUBSET W
        PROVE  h[S] = IF S = {} THEN 0 ELSE f[Chosen(S)] + h[S \ {Chosen(S)}]
    <3>1. h[S] = Step(h, S)
      BY <1>3
    <3>2. S # {} => f[Chosen(S)] = KeptOf(b, Chosen(S))
      BY OneLess
    <3>3. QED
      BY <3>1, <3>2 DEF KeptOf, Chosen
  <2>2. h = [S \in SUBSET W |-> h[S]]
    BY <1>3
  <2>3. QED
    BY <2>1, <2>2 DEF Adds
<1>5. sum = SumOf(f, W)
  BY <1>3, <1>4, SumIs
<1>6. QED
  BY <1>5 DEF sum

LEMMA GoodsAreKept ==
  ASSUME ProcurementConstants, NEW b, NEW k,
         \A p \in Purchases : b[p] # NoPurchase => KeptOf(b, p) \in Int
  PROVE  LET of == {p \in {q \in Purchases : b[q] # NoPurchase} :
                      <<b[p].at, VariantOf(b[p].item)>> = k}
         IN MapThenSumSet(LAMBDA p : b[p].received - b[p].returned - b[p].debited, of)
              = SumOf(KeptAt(b, k), Purchases)
<1> DEFINE rows == {q \in Purchases : b[q] # NoPurchase}
           of == {p \in rows : <<b[p].at, VariantOf(b[p].item)>> = k}
           f == [p \in rows |-> KeptOf(b, p)]
           Sum(W) == MapThenSumSet(LAMBDA p : b[p].received - b[p].returned - b[p].debited, W)
<1>1. of = {p \in Purchases : b[p] # NoPurchase /\ PlaceOf(b, p) = k} /\ of \subseteq rows
  BY DEF PlaceOf
<1>2. IsFiniteSet(of) /\ of \in SUBSET Purchases /\ \A p \in of : f[p] = KeptOf(b, p) /\ f[p] \in Int
  BY FS_Subset DEF ProcurementConstants
<1>3. KeptAt(b, k) = Within(f, of, Purchases)
  BY <1>1 DEF KeptAt
<1> HIDE DEF f, of
<1>4. Sum(of) = SumOf(f, of)
  BY <1>2, KeptSum
<1>5. SumOf(f, of) = SumOf(Within(f, of, Purchases), Purchases)
  BY <1>2, SumPart DEF ProcurementConstants
<1>6. Sum(of) = SumOf(KeptAt(b, k), Purchases)
  BY <1>3, <1>4, <1>5
<1>7. QED
  BY <1>6 DEF of

LEMMA KeptValues ==
  ASSUME NEW b, NEW k, NEW p \in Purchases
  PROVE  KeptAt(b, k)[p] = IF b[p] # NoPurchase /\ PlaceOf(b, p) = k THEN KeptOf(b, p) ELSE 0
BY DEF KeptAt, Within

LEMMA KeptIsNumber ==
  ASSUME ProcurementConstants, NEW b, NEW p, b[p] \in PurchaseRecord
  PROVE  KeptOf(b, p) \in Int
<1>1. b[p].received \in Nat /\ b[p].returned \in Nat /\ b[p].debited \in Nat
  BY DEF PurchaseRecord
<1>2. QED
  BY <1>1 DEF KeptOf

LEMMA GoodsSums ==
  ASSUME ProcurementConstants
  PROVE  /\ Typed => (GoodsFollowLines <=>
              \A k \in Places : onHand[k] = SumOf(KeptAt(purchase, k), Purchases))
         /\ Typed' => (GoodsFollowLines' <=>
              \A k \in Places : onHand'[k] = SumOf(KeptAt(purchase', k), Purchases))
<1> DEFINE Of(b, k) == {p \in {q \in Purchases : b[q] # NoPurchase} :
                          <<b[p].at, VariantOf(b[p].item)>> = k}
           Sum(b, k) == MapThenSumSet(LAMBDA p :
                          b[p].received - b[p].returned - b[p].debited, Of(b, k))
<1>1. ASSUME NEW b, \A p \in Purchases : b[p] # NoPurchase => b[p] \in PurchaseRecord
      PROVE  \A k \in Places : Sum(b, k) = SumOf(KeptAt(b, k), Purchases)
  <2>1. \A p \in Purchases : b[p] # NoPurchase => KeptOf(b, p) \in Int
    BY <1>1, KeptIsNumber
  <2>2. QED
    BY <2>1, GoodsAreKept
<1>2. /\ GoodsFollowLines <=> \A k \in Places : onHand[k] = Sum(purchase, k)
      /\ GoodsFollowLines' <=> \A k \in Places : onHand'[k] = Sum(purchase', k)
  <2>1. GoodsFollowLines <=> \A k \in Places : onHand[k] = Sum(purchase, k)
    BY DEF GoodsFollowLines, Rows, MapThenSumSet, MapThenFoldSet
  <2>2. GoodsFollowLines' <=> \A k \in Places : onHand'[k] = Sum(purchase', k)
    BY DEF GoodsFollowLines, Rows, MapThenSumSet, MapThenFoldSet
  <2>3. QED
    BY <2>1, <2>2
<1> HIDE DEF Sum
<1>3. ASSUME Typed PROVE \A k \in Places : Sum(purchase, k) = SumOf(KeptAt(purchase, k), Purchases)
  BY <1>1, <1>3 DEF Typed, Rows
<1>4. ASSUME Typed' PROVE \A k \in Places : Sum(purchase', k) = SumOf(KeptAt(purchase', k), Purchases)
  BY <1>1, <1>4 DEF Typed, Rows
<1>5. QED
  BY <1>2, <1>3, <1>4

\* What a step does to goods: nothing, or n to the line of p and to its place.
Moves(p, n) ==
  /\ onHand' = [onHand EXCEPT ![PlaceOf(purchase, p)] = @ + n]
  /\ purchase'[p] # NoPurchase /\ PlaceOf(purchase', p) = PlaceOf(purchase, p)
  /\ KeptOf(purchase', p) = KeptOf(purchase, p) + n
  /\ \A q \in Purchases \ {p} : purchase'[q] = purchase[q]

Rests ==
  /\ onHand' = onHand
  /\ \A k \in Places, q \in Purchases : KeptAt(purchase', k)[q] = KeptAt(purchase, k)[q]

\* A row that is written without goods.
LEMMA RowRests ==
  ASSUME ProcurementConstants, Typed, NEW p \in Rows, Rewritten(p), onHand' = onHand,
         KeptOf(purchase', p) = KeptOf(purchase, p),
         PlaceOf(purchase', p) = PlaceOf(purchase, p) \/ KeptOf(purchase, p) = 0
  PROVE  Rests
<1>1. Rows' = Rows /\ \A q \in Purchases \ {p} : purchase'[q] = purchase[q]
  BY RowReplaced
<1>2. purchase[p] # NoPurchase /\ purchase'[p] # NoPurchase /\ p \in Purchases
  BY <1>1 DEF Rows
<1>3. ASSUME NEW k \in Places, NEW q \in Purchases
      PROVE  KeptAt(purchase', k)[q] = KeptAt(purchase, k)[q]
  <2>1. CASE q = p
    BY <1>2, <2>1, KeptValues
  <2>2. CASE q # p
    <3>1. purchase'[q] = purchase[q]
      BY <1>1, <2>2
    <3>2. PlaceOf(purchase', q) = PlaceOf(purchase, q) /\ KeptOf(purchase', q) = KeptOf(purchase, q)
      BY <3>1 DEF PlaceOf, KeptOf
    <3>3. QED
      BY <3>1, <3>2, KeptValues
  <2>3. QED
    BY <2>1, <2>2
<1>4. QED
  BY <1>3 DEF Rests

LEMMA PlaceIsOne ==
  ASSUME Typed, NEW p \in Rows
  PROVE  PlaceOf(purchase, p) \in Places
BY DEF Rows, Typed, PurchaseRecord, PlaceOf, Places, VariantOf, Items, Variants

LEMMA WritesMove ==
  ASSUME ProcurementConstants, Typed, LinesKept, onHand \in [Places -> Int],
         NEW r \in Requests, Writes(r)
  PROVE  Rests \/ \E p \in Rows, n \in Int : Moves(p, n)
<1> DEFINE p == job[r].on
<1>1. /\ p \in Purchases /\ p \in Rows /\ purchase[p] \in PurchaseRecord /\ job[r] \in JobRecord
      /\ Rewritten(p)
  BY WritesOneRow DEF Typed, Rows
<1>2. /\ purchase[p].received \in Nat /\ purchase[p].returned \in Nat /\ purchase[p].debited \in Nat
      /\ purchase[p].returned <= purchase[p].received /\ job[r].n \in Nat
  BY <1>1 DEF PurchaseRecord, JobRecord, LinesKept
<1>3. \A q \in Purchases \ {p} : purchase'[q] = purchase[q]
  BY <1>1, RowReplaced
<1>4. ASSUME SetStatus(r) \/ DeletePurchase(r) \/ CreateGoodsReceiptAddons(r) \/ CreatePayment(r)
      PROVE  Rests
  <2>1. onHand' = onHand
    BY <1>4 DEF SetStatus, DeletePurchase, CreateGoodsReceiptAddons, CreatePayment, stock, balances
  <2>2. KeptOf(purchase', p) = KeptOf(purchase, p) /\ PlaceOf(purchase', p) = PlaceOf(purchase, p)
    BY <1>1, <1>4 DEF SetStatus, DeletePurchase, CreateGoodsReceiptAddons, CreatePayment,
                      Typed, PurchaseRecord, KeptOf, PlaceOf
  <2>3. QED
    BY <1>1, <2>1, <2>2, RowRests
<1>5. ASSUME NEW line \in Lines, ReplaceLines(r, line) PROVE Rests
  <2>1. onHand' = onHand
    BY <1>5 DEF ReplaceLines, stock, balances
  <2>2. KeptOf(purchase, p) = 0
    BY <1>2, <1>5 DEF ReplaceLines, Referenced, KeptOf
  <2>3. KeptOf(purchase', p) = KeptOf(purchase, p)
    BY <1>1, <1>5 DEF ReplaceLines, Typed, PurchaseRecord, KeptOf
  <2>4. QED
    BY <1>1, <2>1, <2>2, <2>3, RowRests
<1>6. ASSUME ReceivePurchase(r) PROVE Moves(p, job[r].n)
  <2>1. onHand' = [onHand EXCEPT ![PlaceOf(purchase, p)] = @ + job[r].n]
    BY <1>6 DEF ReceivePurchase, Stocked, PlaceOf
  <2>2. /\ purchase'[p].received = purchase[p].received + job[r].n
        /\ purchase'[p].returned = purchase[p].returned /\ purchase'[p].debited = purchase[p].debited
        /\ purchase'[p].at = purchase[p].at /\ purchase'[p].item = purchase[p].item
    BY <1>1, <1>6 DEF ReceivePurchase, Typed, PurchaseRecord
  <2>3. QED
    BY <1>1, <1>2, <1>3, <2>1, <2>2, RowReplaced DEF Moves, KeptOf, PlaceOf, Rows
<1>7. ASSUME NEW approved \in BOOLEAN, CreateSupplierDebitNote(r, approved)
      PROVE  Moves(p, 0 - job[r].n)
  <2>1. /\ PlaceOf(purchase, p) = <<purchase[p].at, VariantOf(purchase[p].item)>>
        /\ onHand' = [onHand EXCEPT ![PlaceOf(purchase, p)] = @ - job[r].n]
    BY <1>7 DEF CreateSupplierDebitNote, Issue, PlaceOf
  <2>2. /\ purchase'[p].received = purchase[p].received
        /\ purchase'[p].returned = purchase[p].returned
        /\ purchase'[p].debited = purchase[p].debited + job[r].n
        /\ purchase'[p].at = purchase[p].at /\ purchase'[p].item = purchase[p].item
    BY <1>1, <1>7 DEF CreateSupplierDebitNote, Typed, PurchaseRecord
  <2>3. onHand' = [onHand EXCEPT ![PlaceOf(purchase, p)] = @ + (0 - job[r].n)]
    <3>1. \A x \in Int : x - job[r].n = x + (0 - job[r].n)
      BY <1>2
    <3>2. onHand[PlaceOf(purchase, p)] \in Int
      BY <1>1, PlaceIsOne
    <3> HIDE DEF p
    <3>3. QED
      BY <2>1, <3>1, <3>2
  <2>4. QED
    BY <1>1, <1>2, <1>3, <2>2, <2>3, RowReplaced DEF Moves, KeptOf, PlaceOf, Rows
<1>8. QED
  BY <1>1, <1>2, <1>4, <1>5, <1>6, <1>7 DEF Writes

LEMMA ChangesMove ==
  ASSUME ProcurementConstants, Typed, onHand \in [Places -> Int], NEW p \in Purchases, Changes(p)
  PROVE  Rests \/ \E n \in Int : Moves(p, n)
<1>1. /\ p \in Rows /\ purchase[p] \in PurchaseRecord /\ Rewritten(p)
  BY ChangesOneRow DEF Typed
<1>2. \A q \in Purchases \ {p} : purchase'[q] = purchase[q]
  BY <1>1, RowReplaced
<1>3. ASSUME Approve(p) \/ Reject(p) PROVE Rests
  <2>1. onHand' = onHand
    BY <1>3 DEF Approve, Reject, stock, balances
  <2>2. KeptOf(purchase', p) = KeptOf(purchase, p) /\ PlaceOf(purchase', p) = PlaceOf(purchase, p)
    BY <1>1, <1>3 DEF Approve, Reject, Typed, PurchaseRecord, KeptOf, PlaceOf
  <2>3. QED
    BY <1>1, <2>1, <2>2, RowRests
<1>4. ASSUME NEW n \in 1..MaxLine, NEW approved \in BOOLEAN, CreatePurchaseReturn(p, n, approved)
      PROVE  n \in Int /\ Moves(p, 0 - n)
  <2>1. onHand' = [onHand EXCEPT ![PlaceOf(purchase, p)] = @ - n]
    BY <1>4 DEF CreatePurchaseReturn, Issue, PlaceOf
  <2>2. /\ purchase'[p].received = purchase[p].received
        /\ purchase'[p].returned = purchase[p].returned + n
        /\ purchase'[p].debited = purchase[p].debited
        /\ purchase'[p].at = purchase[p].at /\ purchase'[p].item = purchase[p].item
    BY <1>1, <1>4 DEF CreatePurchaseReturn, Typed, PurchaseRecord
  <2>3. /\ purchase[p].received \in Nat /\ purchase[p].returned \in Nat
        /\ purchase[p].debited \in Nat /\ n \in Nat
    BY <1>1 DEF PurchaseRecord, ProcurementConstants
  <2>4. onHand' = [onHand EXCEPT ![PlaceOf(purchase, p)] = @ + (0 - n)]
    <3>1. \A x \in Int : x - n = x + (0 - n)
      BY <2>3
    <3>2. onHand[PlaceOf(purchase, p)] \in Int
      BY <1>1, PlaceIsOne
    <3>3. QED
      BY <2>1, <3>1, <3>2
  <2>5. QED
    BY <1>1, <1>2, <2>2, <2>3, <2>4, RowReplaced DEF Moves, KeptOf, PlaceOf, Rows
<1>5. QED
  BY <1>3, <1>4 DEF Changes

LEMMA StepMoves ==
  ASSUME ProcurementConstants, Typed, LinesKept, onHand \in [Places -> Int], BooksStep
  PROVE  Rests \/ \E p \in Rows, n \in Int : Moves(p, n)
<1>1. ASSUME UNCHANGED <<stock, purchase>> PROVE Rests
  BY <1>1 DEF Rests, stock, balances
<1>2. ASSUME NEW r \in Requests, NEW p \in Purchases, Reads(r, p)
      PROVE  UNCHANGED <<stock, purchase>>
  BY <1>2 DEF Reads, BeginUpdate, BeginDelete, BeginReceipt, BeginReduction, BeginPayment, Begin
<1>3. ASSUME NEW r \in Requests, CountReceipt(r) \/ RollBack(r)
      PROVE  UNCHANGED <<stock, purchase>>
  BY <1>3 DEF CountReceipt, RollBack
<1>4. ASSUME UNCHANGED vars PROVE UNCHANGED <<stock, purchase>>
  BY <1>4 DEF vars, books
<1>5. ASSUME NEW p \in Purchases, NEW l \in Locations, NEW line \in Lines, NEW paid \in Nat,
             NEW key \in Keys \cup {NoKey}, CreatePurchase(p, l, line, paid, key)
      PROVE  Rests
  <2>1. onHand' = onHand /\ p \notin Rows /\ p \in Purchases
    BY <1>5 DEF CreatePurchase, stock, balances, Rows
  <2>2. \A q \in Purchases \ {p} : purchase'[q] = purchase[q]
    BY <1>5 DEF CreatePurchase, Typed
  <2>3. purchase[p] = NoPurchase /\ KeptOf(purchase', p) = 0
    BY <1>5 DEF CreatePurchase, Typed, KeptOf
  <2>4. ASSUME NEW k \in Places, NEW q \in Purchases
        PROVE  KeptAt(purchase', k)[q] = KeptAt(purchase, k)[q]
    <3>1. CASE q = p
      BY <2>3, <3>1, KeptValues
    <3>2. CASE q # p
      <4>1. purchase'[q] = purchase[q]
        BY <2>2, <3>2
      <4>2. PlaceOf(purchase', q) = PlaceOf(purchase, q) /\ KeptOf(purchase', q) = KeptOf(purchase, q)
        BY <4>1 DEF PlaceOf, KeptOf
      <4>3. QED
        BY <4>1, <4>2, KeptValues
    <3>3. QED
      BY <3>1, <3>2
  <2>5. QED
    BY <2>1, <2>4 DEF Rests
<1>6. ASSUME NEW p \in Purchases, Changes(p)
      PROVE  Rests \/ \E n \in Int : p \in Rows /\ Moves(p, n)
  BY <1>6, ChangesMove, ChangesOneRow
<1>7. QED
  BY <1>1, <1>2, <1>3, <1>4, <1>5, <1>6, WritesMove DEF BooksStep, RowsStep, Creates

LEMMA GoodsStep ==
  ASSUME ProcurementConstants, Typed, Typed', LinesKept, GoodsInv, BooksStep
  PROVE  GoodsInv'
<1>1. \A k \in Places, p \in Purchases :
        KeptAt(purchase, k)[p] \in Int /\ KeptAt(purchase', k)[p] \in Int
  BY KeptValues, KeptIsNumber DEF Typed, Rows
<1>2. \A k \in Places : /\ onHand[k] \in Int
                        /\ onHand[k] = SumOf(KeptAt(purchase, k), Purchases)
  BY GoodsSums DEF GoodsInv
<1>3. CASE Rests
  <2>1. \A k \in Places :
          SumOf(KeptAt(purchase', k), Purchases) = SumOf(KeptAt(purchase, k), Purchases)
    BY <1>3, SumSame DEF Rests, ProcurementConstants
  <2>2. \A k \in Places : onHand'[k] = SumOf(KeptAt(purchase', k), Purchases)
    BY <1>2, <1>3, <2>1 DEF Rests
  <2>3. QED
    BY <1>3, <2>2, GoodsSums DEF GoodsInv, Rests
<1>4. ASSUME NEW p \in Rows, NEW n \in Int, Moves(p, n) PROVE GoodsInv'
  <2> DEFINE at == PlaceOf(purchase, p)
  <2>1. p \in Purchases /\ purchase[p] # NoPurchase /\ KeptOf(purchase, p) \in Int
    BY KeptIsNumber DEF Rows, Typed
  <2>2. at \in Places
    BY PlaceIsOne
  <2>3. /\ onHand' \in [Places -> Int]
        /\ onHand'[at] = onHand[at] + n
        /\ \A k \in Places \ {at} : onHand'[k] = onHand[k]
    BY <1>2, <1>4, <2>2 DEF Moves, GoodsInv
  <2>4. ASSUME NEW k \in Places
        PROVE  onHand'[k] = SumOf(KeptAt(purchase', k), Purchases)
    <3> DEFINE old == KeptAt(purchase, k)
               new == KeptAt(purchase', k)
    <3>1. ASSUME NEW q \in Purchases \ {p} PROVE old[q] = new[q]
      <4>1. purchase'[q] = purchase[q]
        BY <1>4 DEF Moves
      <4>2. PlaceOf(purchase', q) = PlaceOf(purchase, q) /\ KeptOf(purchase', q) = KeptOf(purchase, q)
        BY <4>1 DEF PlaceOf, KeptOf
      <4>3. QED
        BY <4>1, <4>2, KeptValues
    <3>2. /\ old[p] = IF at = k THEN KeptOf(purchase, p) ELSE 0
          /\ new[p] = IF at = k THEN KeptOf(purchase, p) + n ELSE 0
      BY <1>4, <2>1, KeptValues DEF Moves
    <3>3. \A q \in Purchases : old[q] \in Int /\ new[q] \in Int
      BY <1>1
    <3>4. onHand[k] = SumOf(old, Purchases) /\ onHand[k] \in Int
      BY <1>2
    <3> HIDE DEF old, new, at
    <3>5. SumOf(new, Purchases) = SumOf(old, Purchases) + new[p] - old[p]
      BY <2>1, <3>1, <3>3, SumChange DEF ProcurementConstants
    <3>6. onHand'[k] = SumOf(new, Purchases)
      BY <2>1, <2>3, <3>2, <3>3, <3>4, <3>5
    <3>7. QED
      BY <3>6 DEF new
  <2>5. QED
    BY <2>3, <2>4, GoodsSums DEF GoodsInv
<1>5. QED
  BY <1>3, <1>4, StepMoves DEF GoodsInv

----------------------------------------------------------------------------
(* The theorems                                                            *)

LEMMA InitEstablishes ==
  ASSUME ProcurementConstants, AppInit
  PROVE  AppInv
<1>1. Rows = {} /\ purchase = [p \in Purchases |-> NoPurchase]
  BY DEF AppInit, Init, Rows
<1>2. /\ job = [r \in Requests |-> Idle]
      /\ carries = [r \in Requests |-> NoKey]
      /\ delivery = [k \in Keys |-> NoDelivery] /\ booked = [k \in Keys |-> 0] /\ unsaid = {}
  BY DEF AppInit, Init
<1>3. \A r \in Requests : job[r] = Idle /\ job[r].op = "none"
  BY <1>2 DEF Idle
<1>4. Typed
  BY <1>1, <1>2 DEF Typed
<1>5. Counted
  BY <1>1, <1>3 DEF Counted, LinesKept, CountKnows, OneCounts
<1>6. Alone /\ Final /\ Owed
  BY <1>1, <1>3 DEF Alone, AloneWith, Final, FinalFor, Owed, OwedFor
<1>7. AppTyped
  BY <1>2 DEF AppTyped
<1>8. Carried
  BY <1>1, <1>2 DEF Carried, CarriesAll, OfItsKey, Told, BookedOnce, NoDelivery
<1>9. GoodsInv
  <2>1. onHand = [k \in Places |-> 0]
    BY DEF AppInit, Init, StockInit
  <2>2. ASSUME NEW k \in Places PROVE SumOf(KeptAt(purchase, k), Purchases) = 0
    <3>1. \A p \in Purchases : KeptAt(purchase, k)[p] = 0
      BY <1>1, KeptValues
    <3>2. QED
      BY <3>1, SumOfZeros DEF ProcurementConstants
  <2>3. QED
    BY <1>4, <2>1, <2>2, GoodsSums DEF GoodsInv
<1>10. QED
  BY <1>4, <1>5, <1>6, <1>7, <1>8, <1>9 DEF AppInv

LEMMA StepKeeps ==
  ASSUME ProcurementConstants, AppInv, [AppNext]_allVars
  PROVE  AppInv'
<1>1. BooksStep
  BY AppStepIsBooksStep DEF AppInv
<1>2. Typed'
  BY <1>1, TypedStep DEF AppInv
<1>3. Counted'
  BY <1>1, <1>2, CountedStep DEF AppInv
<1>4. Alone' /\ Final' /\ Owed'
  BY <1>1, <1>2, AloneStep, FinalStep, OwedStep DEF AppInv
<1>5. AppTyped'
  BY AppTypedStep DEF AppInv
<1>6. Carried'
  BY <1>2, <1>3, <1>5, CarriedStep DEF AppInv
<1>7. GoodsInv'
  BY <1>1, <1>2, GoodsStep DEF AppInv, Counted
<1>8. QED
  BY <1>2, <1>3, <1>4, <1>5, <1>6, <1>7 DEF AppInv

\* What the theorems below follow from: what requests, purchases and the app's deliveries
\* know of each other holds throughout (CreatePurchase to createQuickGrn).
THEOREM AppInvariant == AppSpec => []AppInv
<1>1. AppInit => AppInv
  BY ProcurementConstants, InitEstablishes
<1>2. AppInv /\ [AppNext]_allVars => AppInv'
  BY ProcurementConstants, StepKeeps
<1>3. QED
  BY <1>1, <1>2, PTL DEF AppSpec

\* ReceivePurchase and CreatePurchaseReturn: however many receipts, returns and updates
\* of purchases overlap, a line takes in no more than was ordered and gives back no more
\* than came in.  The number a receipt draws holds its location until it commits.
THEOREM LinesAreKept == AppSpec => []LinesKept
<1>1. AppInv => LinesKept
  BY DEF AppInv, Counted
<1>2. QED
  BY <1>1, AppInvariant, PTL

\* ReceivePurchase, CreatePurchaseReturn and CreateSupplierDebitNote: the balance of a
\* variant at a location is the sum, over all the lines of purchases for it, of what came
\* in less what went back and what debit notes took, however requests overlap, lines are
\* replaced and purchases deleted.
THEOREM GoodsAreAccountedFor == AppSpec => []GoodsFollowLines
<1>1. AppInv => GoodsFollowLines
  BY DEF AppInv, GoodsInv
<1>2. QED
  BY <1>1, AppInvariant, PTL

\* DeletePurchase, UpdatePurchase and ReceivePurchase: a purchase whose goods are all in
\* is RECEIVED and not deleted for as long as nobody sets its status by hand after goods
\* came in and no two requests on it overlap.
THEOREM ReceivedStaysReceived == AppSpec => []ReceivedIsFinal
<1>1. AppInv => ReceivedIsFinal
  BY DEF AppInv, Final, FinalAt, Undisturbed, ReceivedIsFinal
<1>2. QED
  BY <1>1, AppInvariant, PTL

\* CreatePayment and updatePurchaseTotalsTx: no payment exceeds what is outstanding when
\* it is recorded and no adjustment brings a total below zero, on a purchase no two
\* requests of which overlapped.
THEOREM PaymentsWithinTotal == AppSpec => PaidWithinTotal
<1>1. AppInv /\ [AppNext]_allVars =>
        [\A p \in Rows \ raced' :
           /\ purchase'[p].total >= 0
           /\ purchase'[p].paid > purchase[p].paid => purchase'[p].paid <= purchase'[p].total]_vars
  <2>1. SUFFICES ASSUME AppInv, [AppNext]_allVars, NEW p \in Rows, p \notin raced'
                 PROVE  /\ purchase'[p].total >= 0
                        /\ purchase'[p].paid > purchase[p].paid =>
                             purchase'[p].paid <= purchase'[p].total
    OBVIOUS
  <2>2. BooksStep /\ Typed'
    BY <2>1, ProcurementConstants, AppStepIsBooksStep, TypedStep DEF AppInv
  <2>3. Settled(p)
    BY <2>1, <2>2, ProcurementConstants, OwedStep DEF AppInv
  <2>4. QED
    BY <2>1, <2>3 DEF Settled, OwedAt
<1>2. QED
  BY <1>1, AppInvariant, PTL DEF AppSpec, PaidWithinTotal

\* createQuickGrn and the queue of the app: however its posts are lost, repeated and
\* interleaved with what the back office does to the purchase, a delivery is received at
\* most once unless its lines were replaced, and the app is wrong about it only if it
\* lost the answer or the add-ons failed.
THEOREM DeliveriesBookedOnce == AppSpec => []DeliveryBooked
<1>1. AppInv => DeliveryBooked
  <2>1. SUFFICES ASSUME AppInv, NEW k \in Keys
                 PROVE  /\ booked[k] > 1 => \E p \in Rows : purchase[p].key = k /\ purchase[p].line > 1
                        /\ delivery[k].stage = "done" => booked[k] > 0
                        /\ delivery[k].stage \in {"failed", "dropped"} /\ booked[k] > 0 => k \in unsaid
    BY DEF DeliveryBooked
  <2>2. Told(k) /\ BookedOnce(k) /\ booked[k] \in Nat
    BY <2>1 DEF AppInv, Carried, AppTyped
  <2>3. ASSUME booked[k] > 1
        PROVE  \E p \in Rows : purchase[p].key = k /\ purchase[p].line > 1
    <3>1. PICK p \in Rows : purchase[p].key = k /\ (purchase[p].line = 1 => booked[k] = 1)
      BY <2>2, <2>3 DEF BookedOnce
    <3>2. purchase[p].line \in Nat \ {0}
      BY <2>1, ProcurementConstants, RowNumbers DEF AppInv
    <3>3. QED
      BY <2>3, <3>1, <3>2
  <2>4. QED
    BY <2>2, <2>3 DEF Told
<1>2. QED
  BY <1>1, AppInvariant, PTL
=============================================================================
