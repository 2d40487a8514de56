----------------------------- MODULE ShopProofs -----------------------------
(***************************************************************************)
(* Theorems of the shop: stock, documents, quotes, edits, the catalogue    *)
(* and amounts, for any locations, goods, documents, quotes, products,     *)
(* prices, taxes and overlapping requests.                                 *)
(***************************************************************************)
EXTENDS MCShop, SumTheorems, TLAPS

----------------------------------------------------------------------------
(* The inductive invariant                                                 *)

Books == StockTypeOK /\ BooksAgree

\* A request on a transfer has found its row.
TransfersTyped ==
  /\ transfer \in [Transfers -> Transport!TransferRecord \cup {NoTransfer}]
  /\ moving \in [Requests -> [op : {"none", "approve", "complete", "cancel"},
                              on : Transfers \cup {NoTransfer}, approved : BOOLEAN]]
  /\ \A r \in Requests : moving[r].op # "none" =>
       moving[r].on \in Transfers /\ transfer[moving[r].on] \in Transport!TransferRecord

\* A request on a sale has found its row.
DocumentsTyped ==
  /\ sale \in [Sales -> Docs!DocumentRecord \cup {NoSale}]
  /\ taking \in [Requests -> [op : {"none", "till", "return"},
                              on : Sales \cup {NoSale}, qty : Nat]]
  /\ \A r \in Requests : taking[r].op # "none" =>
       taking[r].on \in Sales /\ sale[taking[r].on] \in Docs!DocumentRecord

\* The completed sales that have the serial on their line.
Sells(doc, i) ==
  doc # NoSale /\ ~doc.deleted /\ doc.status = "COMPLETED" /\ doc.item = i /\ doc.qty > 0
SoldBy(i) == {s \in Sales : Sells(sale[s], i)}

\* Among the sales the code has kept track of a serial has one buyer, and once it is sold
\* it stays so.
SerialsFollow ==
  \A i \in Serials :
    /\ \A s, d \in SoldBy(i) \ disputed : s = d
    /\ SoldBy(i) \ disputed # {} => serial[i].status = "SOLD"
    /\ serial[i].status = "SOLD" /\ disputed = {} => SoldBy(i) # {}

OnlyDocumentsSell ==
  part # "documents" =>
    /\ \A s \in Sales : sale[s] = NoSale
    /\ \A i \in Serials : serial[i].status # "SOLD"

QuoteJob ==
  [op : {"none", "lines", "head", "status", "delete", "convert"},
   on : Quotes \cup {NoQuote},
   at : {"", "check", "loaded", "view", "cleared", "added", "head", "sell", "mark"},
   id : Nat, head : Nat, seen : SUBSET Nat, status : Offers!Statuses]

QuotesTyped ==
  /\ quote \in [Quotes -> Offers!QuoteRecord \cup {NoQuote}]
  /\ lines \in [Quotes -> SUBSET Nat]
  /\ sales \in [Quotes -> SUBSET [id : Nat, head : Nat, lines : SUBSET Nat]]
  /\ doing \in [Requests -> QuoteJob]
  /\ made \in Nat
  /\ \A q \in Quotes : \A s, t \in sales[q] : s = t

\* Where a request is, by what it does.
JobFits(j) ==
  /\ j.op = "none" <=> j.on = NoQuote
  /\ j.at \in {"loaded", "view", "cleared"} => j.op = "lines"
  /\ j.at = "added" => j.op = "head"
  /\ j.at \in {"head", "sell", "mark"} <=> j.op = "convert"

QuoteJobsFit ==
  \A r \in Requests :
    JobFits(doing[r]) /\ (doing[r].on # NoQuote => quote[doing[r].on] # NoQuote)

\* What a request has read of its quote is still so, and who edits it has not found it
\* converted.
UpToDate(j, q) ==
  /\ j.op # "convert" => ~quote[q].converted
  /\ j.at \in {"view", "cleared", "added", "sell"} => j.seen = lines[q]
  /\ j.at \in {"head", "sell"} => j.head = quote[q].head

\* The total is that of the head and the lines, and the sale sold them.
AsSold(q) ==
  /\ quote[q].total = [head |-> quote[q].head, lines |-> lines[q]]
  /\ \A s \in sales[q] : s.head = quote[q].head /\ s.lines = lines[q]

\* What holds of a quote, and of one that no two requests met on.
KeptOf(q) ==
  /\ quote[q] = NoQuote => sales[q] = {}
  /\ q \notin crossed =>
       /\ \A r, o \in Requests : doing[r].on = q /\ doing[o].on = q => r = o
       /\ quote[q] # NoQuote => AsSold(q)
       /\ \A r \in Requests : doing[r].on = q => UpToDate(doing[r], q)

QuotesKept == \A q \in Quotes : KeptOf(q)

ShopInv ==
  /\ Books /\ TransfersTyped
  /\ DocumentsTyped /\ SerialsFollow /\ OnlyDocumentsSell
  /\ QuotesTyped /\ QuoteJobsFit /\ QuotesKept

----------------------------------------------------------------------------
(* Stock                                                                   *)

\* What both operations leave alone: the serials elsewhere, the other places.
LEMMA PlacesOfItems ==
  ASSUME NEW l \in Locations, NEW i \in Items
  PROVE  /\ <<l, VariantOf(i)>> \in Places
         /\ <<l, VariantOf(i)>>[2] = VariantOf(i)
         /\ i \in Serials => VariantOf(i) = Serialized
         /\ i \notin Serials => VariantOf(i) = i /\ i \in Plain /\ i # Serialized
BY StockConstants DEF Places, Items, Variants, VariantOf

LEMMA SerialsFinite ==
  ASSUME NEW l
  PROVE  IsFiniteSet(InStock(l)) /\ Cardinality(InStock(l)) \in Nat
BY StockConstants, FS_Subset, FS_CardinalityType DEF InStock

\* An issue keeps the books: the quantity leaves the balance and the movements, what the
\* lots do not cover is noted, and a serial leaves the ones in stock.
LEMMA IssueKeepsBooks ==
  ASSUME NEW l \in Locations, NEW i \in Items, NEW q \in Nat, NEW approved \in BOOLEAN,
         NEW status \in SerialStatus \ {"IN_STOCK"},
         Books, MayIssue(l, i, q, approved), Issue(l, i, q, status)
  PROVE  Books'
<1> DEFINE k == <<l, VariantOf(i)>>
<1> USE DEF Books
<1>1. PICK p \in Places : p = k
  BY PlacesOfItems
<1>2. StockTypeOK'
  <2>1. lots[p] - Covered(p, q) \in Nat /\ uncovered[p] + q - Covered(p, q) \in Nat
    BY DEF StockTypeOK, Covered
  <2>2. serial' \in [Serials -> SerialRecord]
    BY DEF StockTypeOK, Issue, SerialRecord
  <2> QED
    BY <1>1, <2>1, <2>2 DEF StockTypeOK, Issue
<1>3. ASSUME NEW m \in Places
      PROVE  /\ onHand'[m] = moved'[m]
             /\ onHand'[m] = lots'[m] - uncovered'[m]
             /\ policy' = "DONT_ALLOW" \/ m[2] \notin Plain \ BatchTracked => uncovered'[m] = 0
  <2>1. CASE m # p
    BY <1>1, <2>1 DEF StockTypeOK, Issue, BooksAgree
  <2>2. CASE m = p
    <3>1. /\ onHand'[m] = onHand[m] - q /\ moved'[m] = moved[m] - q
          /\ lots'[m] = lots[m] - Covered(m, q)
          /\ uncovered'[m] = uncovered[m] + q - Covered(m, q)
      BY <1>1, <2>2 DEF StockTypeOK, Issue
    <3>2. lots[m] < q => policy # "DONT_ALLOW" /\ i \in Plain \ BatchTracked
      BY <1>1, <2>2 DEF MayIssue, Permitted
    <3>3. lots[m] < q => m[2] \in Plain \ BatchTracked
      BY <1>1, <2>2, <3>2, PlacesOfItems, StockConstants
    <3>4. policy' = policy /\ lots[m] \in Nat /\ uncovered[m] \in Nat /\ onHand[m] \in Int
      BY DEF Issue, StockTypeOK
    <3>5. Covered(m, q) = IF lots[m] < q THEN lots[m] ELSE q
      BY DEF Covered
    <3> QED
      BY <3>1, <3>2, <3>3, <3>4, <3>5 DEF BooksAgree
  <2> QED
    BY <2>1, <2>2
<1>4. ASSUME NEW m \in Locations
      PROVE  onHand'[<<m, Serialized>>] = Cardinality(InStock(m)')
  <2>0. onHand[<<m, Serialized>>] = Cardinality(InStock(m))
    BY DEF BooksAgree, SerialsCounted
  <2>1. CASE i \notin Serials \/ m # l
    <3>1. onHand'[<<m, Serialized>>] = onHand[<<m, Serialized>>]
      <4>1. <<m, Serialized>> \in Places /\ <<m, Serialized>> # p
        BY <1>1, <2>1, PlacesOfItems DEF Places, Variants
      <4> QED
        BY <1>1, <4>1 DEF Issue, StockTypeOK
    <3>2. InStock(m)' = InStock(m)
      BY <2>1 DEF InStock, Issue, MayIssue, StockTypeOK
    <3> QED
      BY <2>0, <3>1, <3>2
  <2>2. CASE i \in Serials /\ m = l
    <3>1. q = 1 /\ i \in InStock(m)
      BY <2>2 DEF MayIssue, InStock
    <3>2. InStock(m)' = InStock(m) \ {i}
      BY <2>2, <3>1 DEF InStock, Issue, StockTypeOK
    <3>3. onHand'[<<m, Serialized>>] = onHand[<<m, Serialized>>] - 1
      BY <1>1, <2>2, <3>1, PlacesOfItems DEF Issue, StockTypeOK
    <3>4. Cardinality(InStock(m) \ {i}) = Cardinality(InStock(m)) - 1
      BY <3>1, SerialsFinite, FS_RemoveElement
    <3> QED
      BY <2>0, <3>2, <3>3, <3>4
  <2> QED
    BY <2>1, <2>2
<1> QED
  BY <1>2, <1>3, <1>4 DEF BooksAgree, SerialsCounted

\* So does a receipt of goods that are not in stock yet.
LEMMA ReceiptKeepsBooks ==
  ASSUME NEW l \in Locations, NEW i \in Items, NEW q \in Nat,
         i \in Serials => q = 1 /\ serial[i].status # "IN_STOCK",
         Books, Stocked(l, i, q)
  PROVE  Books'
<1> DEFINE k == <<l, VariantOf(i)>>
<1> USE DEF Books
<1>1. PICK p \in Places : p = k
  BY PlacesOfItems
<1>2. StockTypeOK'
  <2>1. serial' \in [Serials -> SerialRecord]
    BY DEF StockTypeOK, Stocked, SerialRecord, SerialStatus
  <2> QED
    BY <1>1, <2>1 DEF StockTypeOK, Stocked
<1>3. ASSUME NEW m \in Places
      PROVE  /\ onHand'[m] = moved'[m]
             /\ onHand'[m] = lots'[m] - uncovered'[m]
             /\ policy' = "DONT_ALLOW" \/ m[2] \notin Plain \ BatchTracked => uncovered'[m] = 0
  <2>1. CASE m # p
    BY <1>1, <2>1 DEF StockTypeOK, Stocked, BooksAgree
  <2>2. CASE m = p
    <3>1. /\ onHand'[m] = onHand[m] + q /\ moved'[m] = moved[m] + q
          /\ lots'[m] = lots[m] + q /\ uncovered' = uncovered /\ policy' = policy
      BY <1>1, <2>2 DEF StockTypeOK, Stocked
    <3> QED
      BY <3>1 DEF BooksAgree, StockTypeOK
  <2> QED
    BY <2>1, <2>2
<1>4. ASSUME NEW m \in Locations
      PROVE  onHand'[<<m, Serialized>>] = Cardinality(InStock(m)')
  <2>0. onHand[<<m, Serialized>>] = Cardinality(InStock(m))
    BY DEF BooksAgree, SerialsCounted
  <2>1. CASE i \notin Serials \/ m # l
    <3>1. onHand'[<<m, Serialized>>] = onHand[<<m, Serialized>>]
      <4>1. <<m, Serialized>> \in Places /\ <<m, Serialized>> # p
        BY <1>1, <2>1, PlacesOfItems DEF Places, Variants
      <4> QED
        BY <1>1, <4>1 DEF Stocked, StockTypeOK
    <3>2. InStock(m)' = InStock(m)
      BY <2>1 DEF InStock, Stocked, StockTypeOK
    <3> QED
      BY <2>0, <3>1, <3>2
  <2>2. CASE i \in Serials /\ m = l
    <3>1. q = 1 /\ i \notin InStock(m)
      BY <2>2 DEF InStock
    <3>2. InStock(m)' = InStock(m) \cup {i}
      BY <2>2, <3>1 DEF InStock, Stocked, StockTypeOK
    <3>3. onHand'[<<m, Serialized>>] = onHand[<<m, Serialized>>] + 1
      BY <1>1, <2>2, <3>1, PlacesOfItems DEF Stocked, StockTypeOK
    <3>4. Cardinality(InStock(m) \cup {i}) = Cardinality(InStock(m)) + 1
      BY <3>1, SerialsFinite, FS_AddElement
    <3> QED
      BY <2>0, <3>2, <3>3, <3>4
  <2> QED
    BY <2>1, <2>2
<1> QED
  BY <1>2, <1>3, <1>4 DEF BooksAgree, SerialsCounted

\* And the edit of a sale of a plain variant, which receives the old line and issues the
\* new one.
LEMMA EditKeepsBooks ==
  ASSUME NEW l \in Locations, NEW v \in Plain, NEW old \in Nat, NEW new \in Nat,
         NEW approved \in BOOLEAN,
         lots[<<l, v>>] + old < new => v \notin BatchTracked,
         lots[<<l, v>>] + old < new => Permitted(approved),
         Books, Docs!Replaced(<<l, v>>, old, new)
  PROVE  Books'
<1> USE DEF Books
<1>1. PICK p \in Places : p = <<l, v>>
  BY DEF Places, Variants
<1>2. StockTypeOK'
  BY <1>1 DEF StockTypeOK, Docs!Replaced
<1>3. ASSUME NEW m \in Places
      PROVE  /\ onHand'[m] = moved'[m]
             /\ onHand'[m] = lots'[m] - uncovered'[m]
             /\ policy' = "DONT_ALLOW" \/ m[2] \notin Plain \ BatchTracked => uncovered'[m] = 0
  <2>1. CASE m # p
    BY <1>1, <2>1 DEF StockTypeOK, Docs!Replaced, BooksAgree
  <2>2. CASE m = p
    <3> DEFINE consumed == IF lots[m] + old < new THEN lots[m] + old ELSE new
    <3>1. /\ onHand'[m] = onHand[m] + old - new /\ moved'[m] = moved[m] + old - new
          /\ lots'[m] = lots[m] + old - consumed
          /\ uncovered'[m] = uncovered[m] + new - consumed /\ policy' = policy
      BY <1>1, <2>2 DEF StockTypeOK, Docs!Replaced
    <3>2. lots[m] + old < new => policy # "DONT_ALLOW" /\ m[2] \in Plain \ BatchTracked
      BY <1>1, <2>2 DEF Permitted
    <3>3. lots[m] \in Nat /\ uncovered[m] \in Nat /\ onHand[m] \in Int /\ moved[m] \in Int
      BY DEF StockTypeOK
    <3> QED
      BY <3>1, <3>2, <3>3 DEF BooksAgree
  <2> QED
    BY <2>1, <2>2
<1>4. ASSUME NEW m \in Locations
      PROVE  onHand'[<<m, Serialized>>] = Cardinality(InStock(m)')
  <2>1. <<m, Serialized>> \in Places /\ <<m, Serialized>> # p
    BY <1>1, StockConstants DEF Places, Variants
  <2>2. onHand'[<<m, Serialized>>] = onHand[<<m, Serialized>>]
    BY <1>1, <2>1 DEF Docs!Replaced, StockTypeOK
  <2>3. InStock(m)' = InStock(m)
    BY DEF InStock, Docs!Replaced
  <2> QED
    BY <2>2, <2>3 DEF BooksAgree, SerialsCounted
<1> QED
  BY <1>2, <1>3, <1>4 DEF BooksAgree, SerialsCounted

----------------------------------------------------------------------------
(* Transfers                                                               *)

\* The operations on stock are those of Stock, in both modules that use them.
LEMMA TransportOperations ==
  ASSUME NEW l, NEW i, NEW q, NEW approved, NEW status
  PROVE  /\ Transport!VariantOf(i) = VariantOf(i)
         /\ Transport!MayIssue(l, i, q, approved) <=> MayIssue(l, i, q, approved)
         /\ Transport!Issue(l, i, q, status) <=> Issue(l, i, q, status)
         /\ Transport!MayReceive(i, q) <=> MayReceive(i, q)
         /\ Transport!Stocked(l, i, q) <=> Stocked(l, i, q)
<1>1. Transport!VariantOf(i) = VariantOf(i)
  BY DEF Transport!VariantOf, VariantOf
<1>2. Transport!MayIssue(l, i, q, approved) <=> MayIssue(l, i, q, approved)
  BY <1>1 DEF Transport!MayIssue, MayIssue, Transport!Permitted, Permitted
<1>3. Transport!Issue(l, i, q, status) <=> Issue(l, i, q, status)
  BY <1>1 DEF Transport!Issue, Issue, Transport!Covered, Covered
<1>4. Transport!MayReceive(i, q) <=> MayReceive(i, q)
  BY DEF Transport!MayReceive, MayReceive
<1>5. Transport!Stocked(l, i, q) <=> Stocked(l, i, q)
  BY <1>1 DEF Transport!Stocked, Stocked
<1> QED
  BY <1>1, <1>2, <1>3, <1>4, <1>5

NoneNewlySold ==
  \A i \in Serials : serial'[i].status = "SOLD" => serial[i].status = "SOLD"

LEMMA IssueSellsOnlyAsSold ==
  ASSUME StockTypeOK, NEW l, NEW i, NEW q, NEW status, status # "SOLD",
         Issue(l, i, q, status)
  PROVE  NoneNewlySold
BY DEF NoneNewlySold, Issue, StockTypeOK

LEMMA ReceiptSellsNone ==
  ASSUME StockTypeOK, NEW l, NEW i, NEW q, Stocked(l, i, q)
  PROVE  NoneNewlySold
BY DEF NoneNewlySold, Stocked, StockTypeOK

LEMMA TransportLines ==
  ASSUME NEW ln \in Transport!Lines
  PROVE  ln.item \in Items /\ ln.qty \in Nat /\ ln.qty \in 1..MaxMoved
BY ShopConstants DEF Transport!Lines, Items, Transport!InventoryConstants

\* A transfer whose status changes stays a transfer.
LEMMA FinishKeepsTransfers ==
  ASSUME TransfersTyped, NEW r \in Requests, moving[r].op # "none",
         NEW status \in {"IN_TRANSIT", "COMPLETED", "CANCELLED"},
         Transport!Finish(r, status)
  PROVE  TransfersTyped'
<1>1. PICK t \in Transfers : t = moving[r].on /\ transfer[t] \in Transport!TransferRecord
  BY DEF TransfersTyped
<1>2. /\ transfer' = [transfer EXCEPT ![t].status = status]
      /\ moving' = [moving EXCEPT ![r] = Transport!Idle]
  BY <1>1 DEF Transport!Finish
<1>3. [transfer[t] EXCEPT !.status = status] \in Transport!TransferRecord
  BY <1>1 DEF Transport!TransferRecord
<1>4. \A s \in Transfers :
        transfer'[s] = IF s = t THEN [transfer[t] EXCEPT !.status = status] ELSE transfer[s]
  BY <1>2 DEF TransfersTyped
<1>5. transfer' \in [Transfers -> Transport!TransferRecord \cup {NoTransfer}]
  BY <1>2, <1>3 DEF TransfersTyped
<1>6. moving' \in [Requests -> [op : {"none", "approve", "complete", "cancel"},
                                on : Transfers \cup {NoTransfer}, approved : BOOLEAN]]
  BY <1>2 DEF TransfersTyped, Transport!Idle
<1>7. ASSUME NEW o \in Requests, moving'[o].op # "none"
      PROVE  moving'[o].on \in Transfers /\ transfer'[moving'[o].on] \in Transport!TransferRecord
  <2>1. o # r /\ moving'[o] = moving[o]
    BY <1>2, <1>7 DEF TransfersTyped, Transport!Idle
  <2> QED
    BY <1>3, <1>4, <1>7, <2>1 DEF TransfersTyped
<1> QED
  BY <1>5, <1>6, <1>7 DEF TransfersTyped

LEMMA LookKeepsTransfers ==
  ASSUME TransfersTyped, NEW r \in Requests, NEW t \in Transfers, NEW approved \in BOOLEAN,
         NEW op \in {"approve", "complete", "cancel"}, NEW status,
         Transport!Look(r, op, t, status, approved)
  PROVE  TransfersTyped'
<1>1. /\ transfer' = transfer
      /\ moving' = [moving EXCEPT ![r] = [op |-> op, on |-> t, approved |-> approved]]
      /\ transfer[t] \in Transport!TransferRecord
  BY DEF Transport!Look, TransfersTyped
<1> QED
  BY <1>1 DEF TransfersTyped

\* Whatever transfers and adjustments do, the books of the stock agree, and no serial is
\* sold by them.
LEMMA TransportKeeps ==
  ASSUME Books, TransfersTyped, Transport!Next
  PROVE  Books' /\ TransfersTyped' /\ NoneNewlySold
<1>0. StockTypeOK
  BY DEF Books
<1>same. ASSUME UNCHANGED stock PROVE Books' /\ NoneNewlySold
  BY <1>same DEF stock, balances, Books, BooksAgree, StockTypeOK, SerialsCounted, InStock,
     NoneNewlySold
<1>rest. ASSUME UNCHANGED <<transfer, moving>> PROVE TransfersTyped'
  BY <1>rest DEF TransfersTyped
<1>1. ASSUME NEW l \in Locations, NEW ln \in Transport!Lines, Transport!AdjustIn(l, ln)
      PROVE  Books' /\ TransfersTyped' /\ NoneNewlySold
  <2>1. MayReceive(ln.item, ln.qty) /\ Stocked(l, ln.item, ln.qty)
    BY <1>1, TransportOperations DEF Transport!AdjustIn
  <2>2. Books'
    BY <2>1, TransportLines, ReceiptKeepsBooks DEF MayReceive
  <2> QED
    BY <1>0, <1>1, <1>rest, <2>1, <2>2, ReceiptSellsNone DEF Transport!AdjustIn
<1>2. ASSUME NEW l \in Locations, NEW ln \in Transport!Lines, NEW a \in BOOLEAN,
             Transport!AdjustOut(l, ln, a)
      PROVE  Books' /\ TransfersTyped' /\ NoneNewlySold
  <2>1. /\ MayIssue(l, ln.item, ln.qty, a)
        /\ Issue(l, ln.item, ln.qty, "ADJUSTED_OUT")
    BY <1>2, TransportOperations DEF Transport!AdjustOut
  <2>2. "ADJUSTED_OUT" \in SerialStatus \ {"IN_STOCK"}
    BY DEF SerialStatus
  <2>3. Books'
    BY <2>1, <2>2, TransportLines, IssueKeepsBooks
  <2> QED
    BY <1>0, <1>2, <1>rest, <2>1, <2>3, IssueSellsOnlyAsSold DEF Transport!AdjustOut
<1>3. ASSUME NEW t \in Transfers, NEW from \in Locations, NEW to \in Locations,
             NEW ln \in Transport!Lines, Transport!CreateStockTransfer(t, from, to, ln)
      PROVE  Books' /\ TransfersTyped' /\ NoneNewlySold
  <2> DEFINE new == [status |-> "PENDING", from |-> from, to |-> to,
                     item |-> ln.item, qty |-> ln.qty]
  <2>1. transfer' = [transfer EXCEPT ![t] = new] /\ moving' = moving /\ UNCHANGED stock
    BY <1>3 DEF Transport!CreateStockTransfer, Transport!stock, Transport!balances, stock, balances
  <2>2. new \in Transport!TransferRecord
    BY TransportLines DEF Transport!TransferRecord, Items, Transport!Items
  <2>3. TransfersTyped'
    BY <2>1, <2>2 DEF TransfersTyped
  <2> QED
    BY <1>same, <2>1, <2>3
<1>4. ASSUME NEW r \in Requests, NEW t \in Transfers, NEW a \in BOOLEAN,
             \/ Transport!BeginApprove(r, t, a)
             \/ Transport!BeginComplete(r, t) \/ Transport!BeginCancel(r, t)
      PROVE  Books' /\ TransfersTyped' /\ NoneNewlySold
  <2>1. TransfersTyped'
    BY <1>4, LookKeepsTransfers
    DEF Transport!BeginApprove, Transport!BeginComplete, Transport!BeginCancel
  <2>2. UNCHANGED stock
    BY <1>4 DEF Transport!BeginApprove, Transport!BeginComplete, Transport!BeginCancel,
       Transport!Look, Transport!stock, Transport!balances, stock, balances
  <2> QED
    BY <1>same, <2>1, <2>2
<1>5. ASSUME NEW r \in Requests, Transport!ApproveStockTransfer(r)
      PROVE  Books' /\ TransfersTyped' /\ NoneNewlySold
  <2>1. PICK t \in Transport!TransferRecord : t = transfer[moving[r].on]
    BY <1>5 DEF Transport!ApproveStockTransfer, TransfersTyped
  <2>2. /\ MayIssue(t.from, t.item, t.qty, moving[r].approved)
        /\ Issue(t.from, t.item, t.qty, "TRANSFER_IN_TRANSIT")
        /\ moving[r].op # "none"
        /\ Transport!Finish(r, "IN_TRANSIT")
    BY <1>5, <2>1, TransportOperations DEF Transport!ApproveStockTransfer
  <2>3. /\ t.from \in Locations /\ t.item \in Items /\ t.qty \in Nat
        /\ moving[r].approved \in BOOLEAN
        /\ "TRANSFER_IN_TRANSIT" \in SerialStatus \ {"IN_STOCK"}
    BY <2>1, ShopConstants DEF Transport!TransferRecord, TransfersTyped, SerialStatus, Items,
       Transport!Items, Transport!InventoryConstants
  <2>4. Books'
    BY <2>2, <2>3, IssueKeepsBooks
  <2> QED
    BY <1>0, <2>2, <2>4, IssueSellsOnlyAsSold, FinishKeepsTransfers
<1>6. ASSUME NEW r \in Requests, Transport!CompleteStockTransfer(r)
      PROVE  Books' /\ TransfersTyped' /\ NoneNewlySold
  <2>1. PICK t \in Transport!TransferRecord : t = transfer[moving[r].on]
    BY <1>6 DEF Transport!CompleteStockTransfer, TransfersTyped
  <2>2. /\ t.item \in Serials => t.qty = 1 /\ serial[t.item].status = "TRANSFER_IN_TRANSIT"
        /\ Stocked(t.to, t.item, t.qty)
        /\ moving[r].op # "none"
        /\ Transport!Finish(r, "COMPLETED")
    BY <1>6, <2>1, TransportOperations DEF Transport!CompleteStockTransfer
  <2>3. t.to \in Locations /\ t.item \in Items /\ t.qty \in Nat
    BY <2>1, ShopConstants DEF Transport!TransferRecord, Items, Transport!Items,
       Transport!InventoryConstants
  <2>4. Books'
    BY <2>2, <2>3, ReceiptKeepsBooks
  <2> QED
    BY <1>0, <2>2, <2>4, ReceiptSellsNone, FinishKeepsTransfers
<1>7. ASSUME NEW r \in Requests, Transport!CancelStockTransfer(r)
      PROVE  Books' /\ TransfersTyped' /\ NoneNewlySold
  BY <1>same, <1>7, FinishKeepsTransfers
  DEF Transport!CancelStockTransfer, Transport!stock, Transport!balances, stock, balances
<1>8. ASSUME NEW r \in Requests, Transport!RollBack(r)
      PROVE  Books' /\ TransfersTyped' /\ NoneNewlySold
  <2>1. TransfersTyped'
    BY <1>8 DEF Transport!RollBack, TransfersTyped, Transport!Idle
  <2> QED
    BY <1>same, <1>8, <2>1 DEF Transport!RollBack, Transport!stock, Transport!balances,
       stock, balances
<1> QED
  BY <1>1, <1>2, <1>3, <1>4, <1>5, <1>6, <1>7, <1>8 DEF Transport!Next, Transport!Adjust

----------------------------------------------------------------------------
(* Documents of sales                                                      *)

LEMMA DocumentOperations ==
  ASSUME NEW l, NEW i, NEW q, NEW approved, NEW status
  PROVE  /\ Docs!VariantOf(i) = VariantOf(i)
         /\ Docs!MayIssue(l, i, q, approved) <=> MayIssue(l, i, q, approved)
         /\ Docs!Issue(l, i, q, status) <=> Issue(l, i, q, status)
         /\ Docs!MayReceive(i, q) <=> MayReceive(i, q)
         /\ Docs!Stocked(l, i, q) <=> Stocked(l, i, q)
<1>1. Docs!VariantOf(i) = VariantOf(i)
  BY DEF Docs!VariantOf, VariantOf
<1>2. Docs!MayIssue(l, i, q, approved) <=> MayIssue(l, i, q, approved)
  BY <1>1 DEF Docs!MayIssue, MayIssue, Docs!Permitted, Permitted
<1>3. Docs!Issue(l, i, q, status) <=> Issue(l, i, q, status)
  BY <1>1 DEF Docs!Issue, Issue, Docs!Covered, Covered
<1>4. Docs!MayReceive(i, q) <=> MayReceive(i, q)
  BY DEF Docs!MayReceive, MayReceive
<1>5. Docs!Stocked(l, i, q) <=> Stocked(l, i, q)
  BY <1>1 DEF Docs!Stocked, Stocked
<1> QED
  BY <1>1, <1>2, <1>3, <1>4, <1>5

LEMMA DocumentLines ==
  ASSUME NEW ln \in Docs!Lines
  PROVE  ln.item \in Items /\ ln.qty \in Nat /\ ln.qty > 0
BY ShopConstants DEF Docs!Lines, Items, Docs!SaleConstants

LEMMA NoSaleIsNone == NoSale \notin Docs!DocumentRecord /\ NoSale \notin Sales
BY ShopConstants DEF Docs!SaleConstants

LEMMA DocumentsAtShelf ==
  ASSUME NEW doc \in Docs!DocumentRecord
  PROVE  /\ doc.at \in Shelf /\ doc.at \in Locations /\ doc.item \in Items
         /\ doc.qty \in Nat /\ doc.back \in Nat /\ doc.deleted \in BOOLEAN
         /\ doc.source \in Sales \cup {NoSale}
BY ShopConstants DEF Docs!DocumentRecord, Items, Docs!Items

\* A new document.
LEMMA DocumentTyped ==
  ASSUME NEW at \in Shelf, NEW status \in {"DRAFT", "COMPLETED", "VOID"},
         NEW channel \in {"POS", "INVOICE", "HELD", "POS_REFUND", "NONE"},
         NEW item \in Items, NEW qty \in Nat, NEW source \in Sales \cup {NoSale}, NEW back \in Nat
  PROVE  /\ Docs!Document(at, status, channel, item, qty, source, back) \in Docs!DocumentRecord
         /\ Docs!Document(at, status, channel, item, qty, source, back).status = status
         /\ Docs!Document(at, status, channel, item, qty, source, back).item = item
         /\ Docs!Document(at, status, channel, item, qty, source, back).qty = qty
         /\ ~Docs!Document(at, status, channel, item, qty, source, back).deleted
BY DEF Docs!Document, Docs!DocumentRecord, Items, Docs!Items

\* A row of a document is written, and requests rest or stay as they are.
LEMMA RowWritten ==
  ASSUME DocumentsTyped, NEW s \in Sales, NEW doc \in Docs!DocumentRecord,
         sale' = [sale EXCEPT ![s] = doc],
         taking' = taking \/ \E r \in Requests : taking' = [taking EXCEPT ![r] = Docs!Idle]
  PROVE  /\ DocumentsTyped'
         /\ sale'[s] = doc
         /\ \A x \in Sales : x # s => sale'[x] = sale[x]
<1>1. sale'[s] = doc /\ \A x \in Sales : x # s => sale'[x] = sale[x]
  BY DEF DocumentsTyped
<1>2. sale' \in [Sales -> Docs!DocumentRecord \cup {NoSale}]
  BY DEF DocumentsTyped
<1>3. taking' \in [Requests -> [op : {"none", "till", "return"},
                                on : Sales \cup {NoSale}, qty : Nat]]
  BY DEF DocumentsTyped, Docs!Idle
<1>4. \A r \in Requests : taking'[r].op # "none" => taking'[r] = taking[r]
  BY DEF DocumentsTyped, Docs!Idle
<1>5. ASSUME NEW r \in Requests, taking'[r].op # "none"
      PROVE  taking'[r].on \in Sales /\ sale'[taking'[r].on] \in Docs!DocumentRecord
  BY <1>1, <1>4, <1>5 DEF DocumentsTyped
<1> QED
  BY <1>1, <1>2, <1>3, <1>5 DEF DocumentsTyped

\* No sale of a serial is added that the code keeps track of, and none is lost unless a
\* sale became disputed.
LEMMA NothingNewSold ==
  ASSUME SerialsFollow,
         \A i \in Serials : SoldBy(i)' \ disputed' \subseteq SoldBy(i) \ disputed,
         \A i \in Serials : serial'[i].status = "SOLD" <=> serial[i].status = "SOLD",
         disputed' = {} => disputed = {} /\ \A i \in Serials : SoldBy(i) \subseteq SoldBy(i)'
  PROVE  SerialsFollow'
<1> SUFFICES ASSUME NEW i \in Serials
             PROVE  /\ \A s, d \in SoldBy(i)' \ disputed' : s = d
                    /\ SoldBy(i)' \ disputed' # {} => serial'[i].status = "SOLD"
                    /\ serial'[i].status = "SOLD" /\ disputed' = {} => SoldBy(i)' # {}
  BY DEF SerialsFollow
<1>1. /\ \A s, d \in SoldBy(i) \ disputed : s = d
      /\ SoldBy(i) \ disputed # {} => serial[i].status = "SOLD"
      /\ serial[i].status = "SOLD" /\ disputed = {} => SoldBy(i) # {}
  BY DEF SerialsFollow
<1> QED
  BY <1>1

\* One row is written that sells nothing the row before it did not.
LEMMA RowSellsNothing ==
  ASSUME SerialsFollow, NEW s \in Sales, NEW doc,
         \A x \in Sales : x # s => sale'[x] = sale[x],
         sale'[s] = doc,
         \A i \in Serials : Sells(doc, i) /\ s \notin disputed' => Sells(sale[s], i),
         disputed \subseteq disputed',
         disputed' = {} => \A i \in Serials : Sells(sale[s], i) => Sells(doc, i),
         \A i \in Serials : serial'[i].status = "SOLD" <=> serial[i].status = "SOLD"
  PROVE  SerialsFollow'
<1>1. \A i \in Serials : SoldBy(i)' = {x \in Sales : Sells(sale'[x], i)}
  BY DEF SoldBy, Sells
<1>2. ASSUME NEW i \in Serials
      PROVE  /\ SoldBy(i)' \ disputed' \subseteq SoldBy(i) \ disputed
             /\ disputed' = {} => SoldBy(i) \subseteq SoldBy(i)'
  BY <1>1 DEF SoldBy
<1> QED
  BY <1>2, NothingNewSold

\* A sale takes its stock: what it sells was on no sale the code kept track of.
LEMMA RowSells ==
  ASSUME SerialsFollow, StockTypeOK, NEW s \in Sales, NEW doc, NEW l, NEW q, NEW approved,
         \A x \in Sales : x # s => sale'[x] = sale[x],
         sale'[s] = doc, doc # NoSale, doc.status = "COMPLETED", doc.qty > 0,
         MayIssue(l, doc.item, q, approved), Issue(l, doc.item, q, "SOLD"),
         disputed \subseteq disputed',
         disputed' = {} => ~doc.deleted /\ \A i \in Serials : ~Sells(sale[s], i)
  PROVE  SerialsFollow'
<1> SUFFICES ASSUME NEW i \in Serials
             PROVE  /\ \A x, y \in SoldBy(i)' \ disputed' : x = y
                    /\ SoldBy(i)' \ disputed' # {} => serial'[i].status = "SOLD"
                    /\ serial'[i].status = "SOLD" /\ disputed' = {} => SoldBy(i)' # {}
  BY DEF SerialsFollow
<1>0. /\ \A x, y \in SoldBy(i) \ disputed : x = y
      /\ SoldBy(i) \ disputed # {} => serial[i].status = "SOLD"
      /\ serial[i].status = "SOLD" /\ disputed = {} => SoldBy(i) # {}
  BY DEF SerialsFollow
<1>1. SoldBy(i)' = {x \in Sales : Sells(sale'[x], i)}
  BY DEF SoldBy, Sells
<1>2. CASE i = doc.item
  <2>1. serial[i].status = "IN_STOCK" /\ serial'[i].status = "SOLD"
    BY <1>2 DEF MayIssue, Issue
  <2>2. SoldBy(i) \ disputed = {}
    BY <1>0, <2>1
  <2>3. SoldBy(i)' \ disputed' \subseteq {s}
    BY <1>1, <2>2 DEF SoldBy
  <2>4. disputed' = {} => s \in SoldBy(i)'
    BY <1>1, <1>2 DEF Sells
  <2> QED
    BY <2>1, <2>3, <2>4
<1>3. CASE i # doc.item
  <2>1. serial'[i] = serial[i]
    BY <1>3 DEF Issue
  <2>2. ~Sells(doc, i)
    BY <1>3 DEF Sells
  <2>3. SoldBy(i)' \ disputed' \subseteq SoldBy(i) \ disputed
    BY <1>1, <2>2 DEF SoldBy
  <2>4. disputed' = {} => SoldBy(i)' = SoldBy(i) /\ disputed = {}
    BY <1>1, <2>2 DEF SoldBy
  <2> QED
    BY <1>0, <2>1, <2>3, <2>4
<1> QED
  BY <1>2, <1>3

\* A receipt of a serial that was unknown sells none.
LEMMA ReceiptKeepsSold ==
  ASSUME NEW l, NEW i, NEW q, MayReceive(i, q), Stocked(l, i, q)
  PROVE  \A s \in Serials : serial'[s].status = "SOLD" <=> serial[s].status = "SOLD"
BY DEF MayReceive, Stocked

DocumentsGoal == Books' /\ DocumentsTyped' /\ SerialsFollow'

\* Steps that leave stock, and the sales, as they are.
LEMMA StockKept ==
  ASSUME UNCHANGED stock
  PROVE  /\ Books => Books'
         /\ \A s \in Serials : serial'[s].status = "SOLD" <=> serial[s].status = "SOLD"
BY DEF stock, balances, Books, BooksAgree, StockTypeOK, SerialsCounted, InStock

LEMMA SalesKept ==
  ASSUME SerialsFollow, UNCHANGED <<sale, disputed>>,
         \A s \in Serials : serial'[s].status = "SOLD" <=> serial[s].status = "SOLD"
  PROVE  SerialsFollow'
<1>1. \A i \in Serials : SoldBy(i)' = SoldBy(i)
  BY DEF SoldBy
<1> QED
  BY <1>1, NothingNewSold

LEMMA SupplyKeeps ==
  ASSUME Books, DocumentsTyped, SerialsFollow,
         NEW l \in Shelf, NEW i \in Items, NEW q \in Nat, Docs!Supply(l, i, q)
  PROVE  DocumentsGoal
<1>1. /\ MayReceive(i, q) /\ Stocked(l, i, q)
      /\ UNCHANGED <<sale, taking, disputed>>
  BY DocumentOperations DEF Docs!Supply, Docs!documents
<1>2. Books'
  BY <1>1, ShopConstants, ReceiptKeepsBooks DEF MayReceive
<1>3. DocumentsTyped'
  BY <1>1 DEF DocumentsTyped
<1> QED
  BY <1>1, <1>2, <1>3, ReceiptKeepsSold, SalesKept DEF DocumentsGoal

LEMMA CreateSaleKeeps ==
  ASSUME Books, DocumentsTyped, SerialsFollow,
         NEW s \in Sales, NEW l \in Shelf, NEW channel \in {"POS", "INVOICE"},
         NEW ln \in Docs!Lines, NEW approved \in BOOLEAN,
         Docs!CreateSale(s, l, channel, ln, approved)
  PROVE  DocumentsGoal
<1> DEFINE doc == Docs!Document(l, "COMPLETED", channel, ln.item, ln.qty, NoSale, 0)
<1>1. /\ sale[s] = NoSale
      /\ MayIssue(l, ln.item, ln.qty, approved)
      /\ Issue(l, ln.item, ln.qty, "SOLD")
      /\ sale' = [sale EXCEPT ![s] = doc]
      /\ UNCHANGED <<taking, disputed>>
  BY DocumentOperations DEF Docs!CreateSale
<1>2. /\ doc \in Docs!DocumentRecord /\ doc.status = "COMPLETED" /\ doc.item = ln.item
      /\ doc.qty = ln.qty /\ ~doc.deleted /\ doc.qty > 0 /\ doc # NoSale
      /\ ln.item \in Items /\ ln.qty \in Nat
  BY DocumentTyped, DocumentLines, NoSaleIsNone
<1>3. DocumentsTyped' /\ sale'[s] = doc /\ \A x \in Sales : x # s => sale'[x] = sale[x]
  BY <1>1, <1>2, RowWritten
<1>4. Books'
  <2>1. l \in Locations /\ "SOLD" \in SerialStatus \ {"IN_STOCK"}
    BY ShopConstants DEF SerialStatus
  <2> QED
    BY <1>1, <1>2, <2>1, IssueKeepsBooks
<1>5. \A i \in Serials : ~Sells(sale[s], i)
  BY <1>1 DEF Sells
<1>6. SerialsFollow'
  BY <1>1, <1>2, <1>3, <1>5, RowSells DEF Books
<1> QED
  BY <1>3, <1>4, <1>6 DEF DocumentsGoal

LEMMA CreateHeldSaleKeeps ==
  ASSUME Books, DocumentsTyped, SerialsFollow,
         NEW s \in Sales, NEW l \in Shelf, NEW ln \in Docs!Lines,
         Docs!CreateHeldSale(s, l, ln)
  PROVE  DocumentsGoal
<1> DEFINE doc == Docs!Document(l, "DRAFT", "HELD", ln.item, ln.qty, NoSale, 0)
<1>1. /\ sale[s] = NoSale
      /\ sale' = [sale EXCEPT ![s] = doc]
      /\ UNCHANGED <<taking, disputed>> /\ UNCHANGED stock
  BY DEF Docs!CreateHeldSale, Docs!stock, Docs!balances, stock, balances
<1>2. doc \in Docs!DocumentRecord /\ doc.status = "DRAFT"
  BY DocumentLines DEF Docs!Document, Docs!DocumentRecord, Items, Docs!Items
<1>3. DocumentsTyped' /\ sale'[s] = doc /\ \A x \in Sales : x # s => sale'[x] = sale[x]
  BY <1>1, <1>2, RowWritten
<1>4. \A i : ~Sells(doc, i) /\ ~Sells(sale[s], i)
  BY <1>1, <1>2 DEF Sells
<1>5. SerialsFollow'
  BY <1>1, <1>3, <1>4, StockKept, RowSellsNothing
<1> QED
  BY <1>1, <1>3, <1>5, StockKept DEF DocumentsGoal

LEMMA FinalizeKeeps ==
  ASSUME Books, DocumentsTyped, SerialsFollow,
         NEW s \in Sales, NEW ln \in Docs!Lines, NEW approved \in BOOLEAN,
         Docs!FinalizeHeldSale(s, ln, approved)
  PROVE  DocumentsGoal
<1>1. PICK old \in Docs!DocumentRecord : old = sale[s]
  BY DEF Docs!FinalizeHeldSale, Docs!Rows, DocumentsTyped
<1>2. /\ MayIssue(old.at, ln.item, ln.qty, approved)
      /\ Issue(old.at, ln.item, ln.qty, "SOLD")
      /\ disputed' = IF old.status # "DRAFT" \/ old.deleted THEN disputed \cup {s} ELSE disputed
      /\ UNCHANGED taking
  BY <1>1, DocumentOperations DEF Docs!FinalizeHeldSale
<1>3. PICK qty \in Nat :
        /\ sale' = [sale EXCEPT ![s].status = "COMPLETED", ![s].item = ln.item, ![s].qty = qty]
        /\ qty > 0
  <2>1. PICK kept \in {0, old.qty} :
          sale' = [sale EXCEPT ![s].status = "COMPLETED", ![s].item = ln.item,
                               ![s].qty = kept + ln.qty]
    BY <1>1 DEF Docs!FinalizeHeldSale
  <2>2. kept + ln.qty \in Nat /\ kept + ln.qty > 0
    BY DocumentLines, DocumentsAtShelf
  <2> QED
    BY <2>1, <2>2
<1>4. PICK item \in Items : item = ln.item /\ ln.qty \in Nat
  BY DocumentLines
<1>5. PICK a : a = [old EXCEPT !.status = "COMPLETED"]
  OBVIOUS
<1>6. PICK b : b = [a EXCEPT !.item = item]
  OBVIOUS
<1>7. PICK doc : doc = [b EXCEPT !.qty = qty]
  OBVIOUS
<1>8. /\ doc \in Docs!DocumentRecord /\ doc.status = "COMPLETED" /\ doc.item = item
      /\ doc.qty = qty /\ doc.deleted = old.deleted /\ doc # NoSale
  <2>1. a \in Docs!DocumentRecord /\ a.status = "COMPLETED" /\ a.deleted = old.deleted
    BY <1>5 DEF Docs!DocumentRecord
  <2>2. /\ b \in Docs!DocumentRecord /\ b.status = a.status /\ b.deleted = a.deleted
        /\ b.item = item
    BY <1>6, <2>1 DEF Docs!DocumentRecord, Items, Docs!Items
  <2>3. /\ doc \in Docs!DocumentRecord /\ doc.status = b.status /\ doc.deleted = b.deleted
        /\ doc.item = b.item /\ doc.qty = qty
    BY <1>7, <2>2 DEF Docs!DocumentRecord
  <2> QED
    BY <2>1, <2>2, <2>3, NoSaleIsNone
<1>row. sale' = [sale EXCEPT ![s] = doc]
  <2>1. doc = [old EXCEPT !.status = "COMPLETED", !.item = ln.item, !.qty = qty]
    BY <1>4, <1>5, <1>6, <1>7
  <2> QED
    BY <1>1, <1>3, <2>1
<1>9. DocumentsTyped' /\ sale'[s] = doc /\ \A x \in Sales : x # s => sale'[x] = sale[x]
  BY <1>2, <1>8, <1>row, RowWritten
<1>10. Books'
  <2>1. old.at \in Locations /\ "SOLD" \in SerialStatus \ {"IN_STOCK"}
    BY DocumentsAtShelf DEF SerialStatus
  <2> QED
    BY <1>2, <1>4, <2>1, IssueKeepsBooks
<1>11. disputed \subseteq disputed'
       /\ (disputed' = {} => ~doc.deleted /\ \A i \in Serials : ~Sells(sale[s], i))
  BY <1>1, <1>2, <1>8, DocumentsAtShelf DEF Sells
<1>12. SerialsFollow'
  <2>1. StockTypeOK
    BY DEF Books
  <2> QED
    BY <1>2, <1>3, <1>4, <1>8, <1>9, <1>11, <2>1, RowSells
<1> QED
  BY <1>9, <1>10, <1>12 DEF DocumentsGoal

\* A status set by hand, and a deletion, add no sale the code keeps track of.
LEMMA UpdateSaleKeeps ==
  ASSUME Books, DocumentsTyped, SerialsFollow,
         NEW s \in Sales, NEW status \in {"DRAFT", "COMPLETED", "VOID"},
         Docs!UpdateSale(s, status)
  PROVE  DocumentsGoal
<1>1. PICK old \in Docs!DocumentRecord : old = sale[s]
  BY DEF Docs!UpdateSale, Docs!Live, Docs!Rows, DocumentsTyped
<1>2. PICK doc : doc = [old EXCEPT !.status = status]
  OBVIOUS
<1>3. /\ sale' = [sale EXCEPT ![s] = doc]
      /\ UNCHANGED taking /\ UNCHANGED stock
      /\ disputed \subseteq disputed' /\ s \in disputed'
  BY <1>1, <1>2, NoSaleIsNone
  DEF Docs!UpdateSale, DocumentsTyped, Docs!stock, Docs!balances, stock, balances
<1>4. doc \in Docs!DocumentRecord
  BY <1>1, <1>2 DEF Docs!DocumentRecord
<1>5. DocumentsTyped' /\ sale'[s] = doc /\ \A x \in Sales : x # s => sale'[x] = sale[x]
  BY <1>3, <1>4, RowWritten
<1>6. SerialsFollow'
  BY <1>3, <1>5, StockKept, RowSellsNothing
<1> QED
  BY <1>3, <1>5, <1>6, StockKept DEF DocumentsGoal

LEMMA DeleteSaleKeeps ==
  ASSUME Books, DocumentsTyped, SerialsFollow, NEW s \in Sales, Docs!DeleteSale(s)
  PROVE  DocumentsGoal
<1>1. PICK old \in Docs!DocumentRecord : old = sale[s]
  BY DEF Docs!DeleteSale, Docs!Live, Docs!Rows, DocumentsTyped
<1>2. PICK doc : doc = [old EXCEPT !.deleted = TRUE]
  OBVIOUS
<1>3. /\ sale' = [sale EXCEPT ![s] = doc]
      /\ UNCHANGED taking /\ UNCHANGED stock
      /\ disputed' = IF old.status = "COMPLETED" THEN disputed \cup {s} ELSE disputed
  BY <1>1, <1>2 DEF Docs!DeleteSale, DocumentsTyped, Docs!stock, Docs!balances, stock, balances
<1>4. doc \in Docs!DocumentRecord /\ doc.deleted
  BY <1>1, <1>2 DEF Docs!DocumentRecord
<1>5. DocumentsTyped' /\ sale'[s] = doc /\ \A x \in Sales : x # s => sale'[x] = sale[x]
  BY <1>3, <1>4, RowWritten
<1>6. \A i \in Serials : ~Sells(doc, i) /\ (disputed' = {} => ~Sells(sale[s], i))
  BY <1>1, <1>3, <1>4 DEF Sells
<1>7. SerialsFollow'
  BY <1>3, <1>5, <1>6, StockKept, RowSellsNothing
<1> QED
  BY <1>3, <1>5, <1>7, StockKept DEF DocumentsGoal

\* What comes back sells nothing: the document of a refund has no line of its own.
LEMMA RefundKeeps ==
  ASSUME Books, DocumentsTyped, SerialsFollow,
         NEW s \in Sales, NEW d \in Sales, NEW n \in Nat, NEW channel \in {"POS", "POS_REFUND"},
         sale[s] \in Docs!DocumentRecord, sale[d] = NoSale,
         Docs!MayReceive(sale[s].item, n), Docs!Stocked(sale[s].at, sale[s].item, n),
         sale' = [sale EXCEPT ![d] =
           Docs!Document(sale[s].at, "COMPLETED", channel, sale[s].item, 0, s, n)],
         taking' = taking \/ \E r \in Requests : taking' = [taking EXCEPT ![r] = Docs!Idle],
         disputed' = disputed
  PROVE  DocumentsGoal
<1>1. PICK old \in Docs!DocumentRecord : old = sale[s]
  OBVIOUS
<1>2. /\ MayReceive(old.item, n) /\ Stocked(old.at, old.item, n)
      /\ old.at \in Locations /\ old.at \in Shelf /\ old.item \in Items
  BY <1>1, DocumentOperations, DocumentsAtShelf
<1>3. PICK doc : doc = Docs!Document(old.at, "COMPLETED", channel, old.item, 0, s, n)
  OBVIOUS
<1>4. doc \in Docs!DocumentRecord /\ doc.qty = 0
  BY <1>2, <1>3 DEF Docs!Document, Docs!DocumentRecord, Items, Docs!Items
<1>5. sale' = [sale EXCEPT ![d] = doc]
  BY <1>1, <1>3
<1>6. DocumentsTyped' /\ sale'[d] = doc /\ \A x \in Sales : x # d => sale'[x] = sale[x]
  BY <1>4, <1>5, RowWritten
<1>7. Books'
  BY <1>2, ReceiptKeepsBooks DEF MayReceive
<1>8. \A i \in Serials : ~Sells(doc, i) /\ ~Sells(sale[d], i)
  BY <1>4 DEF Sells
<1>9. SerialsFollow'
  BY <1>2, <1>6, <1>8, ReceiptKeepsSold, RowSellsNothing
<1> QED
  BY <1>6, <1>7, <1>9 DEF DocumentsGoal

\* A request takes up a sale that is there, or lets go of it.
LEMMA JobsTyped ==
  ASSUME DocumentsTyped, NEW r \in Requests, NEW s \in Sales, sale[s] \in Docs!DocumentRecord,
         NEW op \in {"till", "return"}, NEW n \in Nat, UNCHANGED sale,
         taking' = [taking EXCEPT ![r] = [op |-> op, on |-> s, qty |-> n]]
  PROVE  DocumentsTyped'
BY DEF DocumentsTyped

LEMMA LetGoTyped ==
  ASSUME DocumentsTyped, NEW r \in Requests, UNCHANGED sale,
         taking' = [taking EXCEPT ![r] = Docs!Idle]
  PROVE  DocumentsTyped'
BY DEF DocumentsTyped, Docs!Idle

LEMMA BeginKeeps ==
  ASSUME Books, DocumentsTyped, SerialsFollow,
         NEW r \in Requests, NEW s \in Sales, NEW n \in Nat,
         Docs!BeginTillRefund(r, s, n) \/ Docs!BeginReturn(r, s, n)
  PROVE  DocumentsGoal
<1>1. /\ UNCHANGED stock /\ UNCHANGED <<sale, disputed>>
      /\ s \in Docs!Live
      /\ \E op \in {"till", "return"} :
           taking' = [taking EXCEPT ![r] = [op |-> op, on |-> s, qty |-> n]]
  BY DEF Docs!BeginTillRefund, Docs!BeginReturn, Docs!stock, Docs!balances, stock, balances
<1>2. sale[s] \in Docs!DocumentRecord
  BY <1>1 DEF Docs!Live, Docs!Rows, DocumentsTyped
<1>3. DocumentsTyped'
  BY <1>1, <1>2, JobsTyped
<1> QED
  BY <1>1, <1>3, StockKept, SalesKept DEF DocumentsGoal

LEMMA CreateSaleReturnKeeps ==
  ASSUME Books, DocumentsTyped, SerialsFollow, NEW r \in Requests, Docs!CreateSaleReturn(r)
  PROVE  DocumentsGoal
<1>1. PICK s \in Sales : s = taking[r].on /\ sale[s] \in Docs!DocumentRecord
  BY DEF Docs!CreateSaleReturn, DocumentsTyped
<1>2. PICK q \in Nat : q = taking[r].qty
  BY DEF DocumentsTyped
<1>3. PICK old \in Docs!DocumentRecord : old = sale[s]
  BY <1>1
<1>4. /\ MayReceive(old.item, q) /\ Stocked(old.at, old.item, q)
      /\ taking' = [taking EXCEPT ![r] = Docs!Idle]
      /\ UNCHANGED <<sale, disputed>>
  BY <1>1, <1>2, <1>3, DocumentOperations DEF Docs!CreateSaleReturn
<1>5. Books'
  BY <1>3, <1>4, DocumentsAtShelf, ReceiptKeepsBooks DEF MayReceive
<1>6. DocumentsTyped'
  BY <1>4, LetGoTyped
<1> QED
  BY <1>4, <1>5, <1>6, ReceiptKeepsSold, SalesKept DEF DocumentsGoal

LEMMA EditCompletedSaleKeeps ==
  ASSUME Books, DocumentsTyped, SerialsFollow,
         NEW s \in Sales, NEW new \in Nat, NEW approved \in BOOLEAN,
         Docs!EditCompletedSale(s, new, approved)
  PROVE  DocumentsGoal
<1>1. PICK old \in Docs!DocumentRecord : old = sale[s]
  BY DEF Docs!EditCompletedSale, Docs!Completed, Docs!Live, Docs!Rows, DocumentsTyped
<1>2. PICK doc : doc = [old EXCEPT !.qty = new]
  OBVIOUS
<1>3. /\ sale' = [sale EXCEPT ![s] = doc]
      /\ old.item \in Plain
      /\ UNCHANGED <<taking, disputed>>
  BY <1>1, <1>2 DEF Docs!EditCompletedSale, DocumentsTyped
<1>4. doc \in Docs!DocumentRecord /\ doc.item = old.item
  BY <1>1, <1>2 DEF Docs!DocumentRecord
<1>5. DocumentsTyped' /\ sale'[s] = doc /\ \A x \in Sales : x # s => sale'[x] = sale[x]
  BY <1>3, <1>4, RowWritten
<1>6. /\ lots[<<old.at, old.item>>] + old.qty < new => old.item \notin BatchTracked
      /\ lots[<<old.at, old.item>>] + old.qty < new => Permitted(approved)
      /\ Docs!Replaced(<<old.at, old.item>>, old.qty, new)
  BY <1>1 DEF Docs!EditCompletedSale, Docs!Permitted, Permitted
<1>7. Books'
  BY <1>3, <1>6, DocumentsAtShelf, EditKeepsBooks
<1>8. UNCHANGED serial
  BY <1>6 DEF Docs!Replaced
<1>9. \A i \in Serials : ~Sells(doc, i) /\ ~Sells(sale[s], i)
  BY <1>1, <1>3, <1>4, StockConstants DEF Sells
<1>10. SerialsFollow'
  BY <1>3, <1>5, <1>8, <1>9, RowSellsNothing
<1> QED
  BY <1>5, <1>7, <1>10 DEF DocumentsGoal

LEMMA VoidSaleKeeps ==
  ASSUME Books, DocumentsTyped, SerialsFollow,
         NEW s \in Sales, NEW d \in Sales, NEW reversed \in BOOLEAN,
         Docs!VoidSale(d, s, reversed)
  PROVE  DocumentsGoal
<1>1. PICK old \in Docs!DocumentRecord : old = sale[s]
  BY DEF Docs!VoidSale, Docs!Live, Docs!Rows, DocumentsTyped
<1>2. PICK doc : doc = Docs!Document(old.at, "VOID", "NONE", old.item, 0, NoSale, 0)
  OBVIOUS
<1>3. doc \in Docs!DocumentRecord /\ doc.status = "VOID"
  BY <1>1, <1>2, DocumentsAtShelf DEF Docs!Document, Docs!DocumentRecord, Items, Docs!Items
<1>4. /\ sale[d] = NoSale
      /\ sale' = [sale EXCEPT ![d] = doc]
      /\ UNCHANGED <<taking, disputed>>
      /\ UNCHANGED <<policy, onHand, lots, moved, uncovered, serial>>
      /\ aggregate' = [aggregate EXCEPT ![<<old.at, VariantOf(old.item)>>] =
           IF reversed THEN @ + old.qty - old.back ELSE @]
  BY <1>1, <1>2, DocumentOperations DEF Docs!VoidSale
<1>5. DocumentsTyped' /\ sale'[d] = doc /\ \A x \in Sales : x # d => sale'[x] = sale[x]
  BY <1>3, <1>4, RowWritten
<1>6. Books'
  <2>1. PICK k \in Places : k = <<old.at, VariantOf(old.item)>>
    BY DocumentsAtShelf, PlacesOfItems
  <2>2. aggregate' \in [Places -> Int]
    BY <1>4, <2>1, DocumentsAtShelf DEF Books, StockTypeOK
  <2> QED
    BY <1>4, <2>2 DEF Books, StockTypeOK, BooksAgree, SerialsCounted, InStock
<1>7. \A i \in Serials : ~Sells(doc, i) /\ ~Sells(sale[d], i)
  BY <1>3, <1>4 DEF Sells
<1>8. SerialsFollow'
  BY <1>4, <1>5, <1>7, RowSellsNothing
<1> QED
  BY <1>5, <1>6, <1>8 DEF DocumentsGoal

\* Whatever documents do, the books of the stock agree and serials follow their sales.
LEMMA DocumentsKeep ==
  ASSUME Books, DocumentsTyped, SerialsFollow, Docs!Next
  PROVE  DocumentsGoal
<1>0. /\ MaxSupply \in Nat /\ 1..MaxSold \subseteq Nat /\ Shelf \subseteq Locations
      /\ Plain \subseteq Items /\ Serials \subseteq Items
      /\ Docs!Approvals \subseteq BOOLEAN
  <2>1. MaxSupply \in Nat /\ MaxSold \in Nat /\ Shelf \subseteq Locations
    BY ShopConstants DEF Docs!SaleConstants
  <2>2. \A n \in 1..MaxSold : n \in Nat
    BY <2>1
  <2>3. Docs!Approvals \subseteq BOOLEAN
    BY DEF Docs!Approvals
  <2> QED
    BY <2>1, <2>2, <2>3 DEF Items
<1>1. ASSUME NEW l \in Shelf, NEW v \in Plain, Docs!Supply(l, v, MaxSupply)
      PROVE  DocumentsGoal
  BY <1>0, <1>1, SupplyKeeps
<1>2. ASSUME NEW l \in Shelf, NEW i \in Serials, Docs!Supply(l, i, 1)
      PROVE  DocumentsGoal
  BY <1>0, <1>2, SupplyKeeps
<1>3. ASSUME NEW s \in Sales, NEW d \in Sales, NEW n \in 1..MaxSold,
             Docs!CreateRefundInvoice(d, s, n)
      PROVE  DocumentsGoal
  <2>1. n \in Nat
    BY <1>0
  <2> QED
    BY <1>3, <2>1, RefundKeeps
    DEF Docs!CreateRefundInvoice, Docs!Completed, Docs!Live, Docs!Rows, DocumentsTyped
<1>4. ASSUME NEW r \in Requests, NEW d \in Sales, Docs!TillRefund(r, d)
      PROVE  DocumentsGoal
  <2>1. PICK s \in Sales : s = taking[r].on /\ sale[s] \in Docs!DocumentRecord
    BY <1>4 DEF Docs!TillRefund, DocumentsTyped
  <2>2. PICK n \in Nat : n = taking[r].qty
    BY DEF DocumentsTyped
  <2> QED
    BY <1>4, <2>1, <2>2, RefundKeeps DEF Docs!TillRefund
<1>5. ASSUME NEW r \in Requests, Docs!RollBack(r)
      PROVE  DocumentsGoal
  <2>1. /\ UNCHANGED stock /\ UNCHANGED <<sale, disputed>>
        /\ taking' = [taking EXCEPT ![r] = Docs!Idle]
    BY <1>5 DEF Docs!RollBack, Docs!stock, Docs!balances, stock, balances
  <2> QED
    BY <2>1, LetGoTyped, StockKept, SalesKept DEF DocumentsGoal
<1>6. ASSUME NEW s \in Sales, NEW new \in 1..MaxSold, NEW a \in Docs!Approvals,
             Docs!EditCompletedSale(s, new, a)
      PROVE  DocumentsGoal
  BY <1>0, <1>6, EditCompletedSaleKeeps
<1>7. ASSUME NEW r \in Requests, NEW s \in Sales, NEW n \in 1..MaxSold,
             Docs!BeginTillRefund(r, s, n) \/ Docs!BeginReturn(r, s, n)
      PROVE  DocumentsGoal
  BY <1>0, <1>7, BeginKeeps
<1> QED
  BY <1>0, <1>1, <1>2, <1>3, <1>4, <1>5, <1>6, <1>7, CreateSaleKeeps, CreateHeldSaleKeeps,
     FinalizeKeeps, UpdateSaleKeeps, DeleteSaleKeeps, CreateSaleReturnKeeps, VoidSaleKeeps
  DEF Docs!Next, Docs!Request

----------------------------------------------------------------------------
(* Quotes                                                                  *)

QuotesGoal == QuotesTyped' /\ QuoteJobsFit' /\ QuotesKept'

\* A step about one quote leaves what holds of the others.
LEMMA OtherQuotes ==
  ASSUME QuotesKept, NEW q \in Quotes, KeptOf(q)',
         \A p \in Quotes \ {q} :
           /\ quote'[p] = quote[p] /\ lines'[p] = lines[p] /\ sales'[p] = sales[p]
           /\ p \in crossed => p \in crossed',
         \A r \in Requests, p \in Quotes \ {q} : doing'[r].on = p => doing'[r] = doing[r]
  PROVE  QuotesKept'
<1> SUFFICES ASSUME NEW p \in Quotes \ {q} PROVE KeptOf(p)'
  BY DEF QuotesKept
<1>1. KeptOf(p)
  BY DEF QuotesKept
<1>2. AsSold(p)' <=> AsSold(p)
  BY DEF AsSold
<1>3. ASSUME NEW r \in Requests, doing'[r].on = p
      PROVE  doing'[r] = doing[r] /\ (UpToDate(doing[r], p)' <=> UpToDate(doing[r], p))
  BY <1>3 DEF UpToDate
<1> QED
  BY <1>1, <1>2, <1>3 DEF KeptOf

\* One request's job is another one.
LEMMA JobWritten ==
  ASSUME QuotesTyped, NEW r \in Requests, NEW j \in QuoteJob, doing' = [doing EXCEPT ![r] = j]
  PROVE  /\ doing' \in [Requests -> QuoteJob]
         /\ doing'[r] = j
         /\ \A o \in Requests : o # r => doing'[o] = doing[o]
BY DEF QuotesTyped

\* A request begins on a quote that it has found unconverted.
LEMMA StartKeeps ==
  ASSUME QuotesTyped, QuoteJobsFit, QuotesKept,
         NEW r \in Requests, NEW q \in Quotes, NEW j \in QuoteJob,
         quote[q] # NoQuote, ~quote[q].converted,
         j.on = q, JobFits(j), j.at \notin {"view", "cleared", "added", "sell"},
         j.at = "head" => j.head = quote[q].head,
         doing' = [doing EXCEPT ![r] = j], made' \in Nat,
         crossed' = IF Offers!Under(q) = {} THEN crossed ELSE crossed \cup {q},
         UNCHANGED <<quote, lines, sales>>
  PROVE  QuotesGoal
<1>1. /\ doing' \in [Requests -> QuoteJob] /\ doing'[r] = j
      /\ \A o \in Requests : o # r => doing'[o] = doing[o]
  BY JobWritten
<1>2. QuotesTyped'
  BY <1>1 DEF QuotesTyped
<1>3. QuoteJobsFit'
  <2> SUFFICES ASSUME NEW o \in Requests
               PROVE  JobFits(doing'[o]) /\ (doing'[o].on # NoQuote => quote[doing'[o].on] # NoQuote)
    BY DEF QuoteJobsFit, JobFits
  <2> QED
    BY <1>1 DEF QuoteJobsFit
<1>4. KeptOf(q)'
  <2>1. ASSUME q \notin crossed'
        PROVE  /\ q \notin crossed
               /\ \A o \in Requests : doing'[o].on = q => o = r
    BY <1>1, <2>1 DEF Offers!Under
  <2>2. KeptOf(q)
    BY DEF QuotesKept
  <2>3. AsSold(q)' <=> AsSold(q)
    BY DEF AsSold
  <2>4. UpToDate(doing[r], q)'
    BY <1>1 DEF UpToDate
  <2> QED
    BY <1>1, <2>1, <2>2, <2>3, <2>4 DEF KeptOf
<1>5. \A o \in Requests, p \in Quotes \ {q} : doing'[o].on = p => doing'[o] = doing[o]
  BY <1>1
<1>6. QuotesKept'
  BY <1>4, <1>5, OtherQuotes
<1> QED
  BY <1>2, <1>3, <1>6 DEF QuotesGoal

\* A request reads on.
LEMMA AdvanceKeeps ==
  ASSUME QuotesTyped, QuoteJobsFit, QuotesKept,
         NEW r \in Requests, NEW q \in Quotes, NEW j \in QuoteJob,
         doing[r].on = q, j.on = q, JobFits(j),
         UpToDate(doing[r], q) => UpToDate(j, q),
         doing' = [doing EXCEPT ![r] = j],
         UNCHANGED <<quote, lines, sales, made, crossed>>
  PROVE  QuotesGoal
<1>1. /\ doing' \in [Requests -> QuoteJob] /\ doing'[r] = j
      /\ \A o \in Requests : o # r => doing'[o] = doing[o]
  BY JobWritten
<1>2. QuotesTyped'
  BY <1>1 DEF QuotesTyped
<1>3. QuoteJobsFit'
  <2> SUFFICES ASSUME NEW o \in Requests
               PROVE  JobFits(doing'[o]) /\ (doing'[o].on # NoQuote => quote[doing'[o].on] # NoQuote)
    BY DEF QuoteJobsFit, JobFits
  <2> QED
    BY <1>1 DEF QuoteJobsFit
<1>4. KeptOf(q)'
  <2>1. KeptOf(q)
    BY DEF QuotesKept
  <2>2. AsSold(q)' <=> AsSold(q)
    BY DEF AsSold
  <2>3. \A o \in Requests : doing'[o].on = q <=> doing[o].on = q
    BY <1>1
  <2>4. ASSUME NEW o \in Requests, doing'[o].on = q, q \notin crossed
        PROVE  UpToDate(doing[o], q)'
    <3>1. UpToDate(doing[o], q)
      BY <2>1, <2>3, <2>4 DEF KeptOf
    <3>2. UpToDate(doing'[o], q)
      BY <1>1, <3>1
    <3> QED
      BY <3>2 DEF UpToDate
  <2> QED
    BY <2>1, <2>2, <2>3, <2>4 DEF KeptOf
<1>5. \A o \in Requests, p \in Quotes \ {q} : doing'[o].on = p => doing'[o] = doing[o]
  BY <1>1
<1>6. QuotesKept'
  BY <1>4, <1>5, OtherQuotes
<1> QED
  BY <1>2, <1>3, <1>6 DEF QuotesGoal

\* A request writes its quote and is done.
LEMMA CommitKeeps ==
  ASSUME QuotesTyped, QuoteJobsFit, QuotesKept,
         NEW r \in Requests, NEW q \in Quotes, NEW new \in Offers!QuoteRecord, NEW ls \in SUBSET Nat,
         doing[r].on = q, new # NoQuote,
         doing' = [doing EXCEPT ![r] = Offers!Free],
         quote' = [quote EXCEPT ![q] = new], lines' = [lines EXCEPT ![q] = ls],
         crossed \subseteq crossed',
         q \notin crossed' /\ UpToDate(doing[r], q) /\ AsSold(q) =>
           /\ new.total = [head |-> new.head, lines |-> ls]
           /\ \A s \in sales[q] : s.head = new.head /\ s.lines = ls,
         UNCHANGED <<sales, made>>
  PROVE  QuotesGoal
<1>0. Offers!Free \in QuoteJob /\ Offers!Free.on = NoQuote /\ JobFits(Offers!Free)
  BY DEF Offers!Free, QuoteJob, Offers!Statuses, JobFits
<1>1. /\ doing' \in [Requests -> QuoteJob] /\ doing'[r] = Offers!Free
      /\ \A o \in Requests : o # r => doing'[o] = doing[o]
  BY <1>0, JobWritten
<1>2. /\ quote'[q] = new /\ lines'[q] = ls
      /\ \A p \in Quotes \ {q} : quote'[p] = quote[p] /\ lines'[p] = lines[p]
  BY DEF QuotesTyped
<1>3. QuotesTyped'
  BY <1>1 DEF QuotesTyped
<1>4. QuoteJobsFit'
  <2> SUFFICES ASSUME NEW o \in Requests
               PROVE  JobFits(doing'[o]) /\ (doing'[o].on # NoQuote => quote'[doing'[o].on] # NoQuote)
    BY DEF QuoteJobsFit, JobFits
  <2>1. CASE o = r
    BY <1>0, <1>1, <2>1
  <2>2. CASE o # r
    <3>1. doing'[o] = doing[o] /\ doing[o].on \in Quotes \cup {NoQuote}
      BY <1>1, <2>2 DEF QuotesTyped, QuoteJob
    <3> QED
      BY <1>2, <3>1 DEF QuoteJobsFit
  <2> QED
    BY <2>1, <2>2
<1>5. quote[q] # NoQuote
  BY ShopConstants DEF QuoteJobsFit, Offers!QuoteConstants
<1>6. KeptOf(q)'
  <2>1. KeptOf(q)
    BY DEF QuotesKept
  <2>2. ASSUME q \notin crossed'
        PROVE  /\ \A o \in Requests : doing'[o].on # q
               /\ AsSold(q)'
    <3>1. /\ UpToDate(doing[r], q) /\ AsSold(q)
          /\ \A o \in Requests : doing[o].on = q => o = r
      BY <1>5, <2>1, <2>2 DEF KeptOf
    <3>2. NoQuote # q
      BY ShopConstants DEF Offers!QuoteConstants
    <3>3. AsSold(q)'
      BY <1>2, <2>2, <3>1 DEF AsSold
    <3> QED
      BY <1>0, <1>1, <3>1, <3>2, <3>3
  <2> QED
    BY <1>2, <2>2 DEF KeptOf
<1>7. \A o \in Requests, p \in Quotes \ {q} : doing'[o].on = p => doing'[o] = doing[o]
  BY <1>0, <1>1, ShopConstants DEF Offers!QuoteConstants
<1>8. QuotesKept'
  BY <1>2, <1>6, <1>7, OtherQuotes
<1> QED
  BY <1>3, <1>4, <1>8 DEF QuotesGoal

\* A request lets go of its quote.
LEMMA AbandonKeeps ==
  ASSUME QuotesTyped, QuoteJobsFit, QuotesKept, NEW r \in Requests,
         doing' = [doing EXCEPT ![r] = Offers!Free],
         UNCHANGED <<quote, lines, sales, made, crossed>>
  PROVE  QuotesGoal
<1>0. Offers!Free \in QuoteJob /\ Offers!Free.on = NoQuote /\ JobFits(Offers!Free)
  BY DEF Offers!Free, QuoteJob, Offers!Statuses, JobFits
<1>1. /\ doing' \in [Requests -> QuoteJob] /\ doing'[r] = Offers!Free
      /\ \A o \in Requests : o # r => doing'[o] = doing[o]
  BY <1>0, JobWritten
<1>2. QuotesTyped'
  BY <1>1 DEF QuotesTyped
<1>3. QuoteJobsFit'
  <2> SUFFICES ASSUME NEW o \in Requests
               PROVE  JobFits(doing'[o]) /\ (doing'[o].on # NoQuote => quote[doing'[o].on] # NoQuote)
    BY DEF QuoteJobsFit, JobFits
  <2> QED
    BY <1>0, <1>1 DEF QuoteJobsFit
<1>4. ASSUME NEW q \in Quotes PROVE KeptOf(q)'
  <2>1. KeptOf(q) /\ q # NoQuote
    BY ShopConstants DEF QuotesKept, Offers!QuoteConstants
  <2>2. AsSold(q)' <=> AsSold(q)
    BY DEF AsSold
  <2>3. \A o \in Requests : doing'[o].on = q => doing'[o] = doing[o]
    BY <1>0, <1>1, <2>1
  <2>4. \A o \in Requests : doing'[o].on = q => (UpToDate(doing[o], q)' <=> UpToDate(doing[o], q))
    BY <2>3 DEF UpToDate
  <2> QED
    BY <2>1, <2>2, <2>3, <2>4 DEF KeptOf
<1> QED
  BY <1>2, <1>3, <1>4 DEF QuotesGoal, QuotesKept

\* Where a request has its quote from.
LEMMA JobFound ==
  ASSUME QuotesTyped, QuoteJobsFit, NEW r \in Requests, doing[r].op # "none"
  PROVE  /\ doing[r] \in QuoteJob /\ doing[r].on \in Quotes
         /\ quote[doing[r].on] \in Offers!QuoteRecord /\ quote[doing[r].on] # NoQuote
BY DEF QuotesTyped, QuoteJobsFit, JobFits, QuoteJob

LEMMA CreateQuoteKeeps ==
  ASSUME QuotesTyped, QuoteJobsFit, QuotesKept, NEW q \in Quotes, Offers!CreateQuote(q)
  PROVE  QuotesGoal
<1>1. PICK new : new = [head |-> 0, total |-> [head |-> 0, lines |-> {0}], status |-> "DRAFT",
                        converted |-> FALSE, deleted |-> FALSE]
  OBVIOUS
<1>2. /\ new \in Offers!QuoteRecord /\ new.head = 0 /\ new.total = [head |-> 0, lines |-> {0}]
      /\ new # NoQuote
  <2>1. new \in Offers!QuoteRecord
    BY <1>1 DEF Offers!QuoteRecord, Offers!Statuses
  <2> QED
    BY <1>1, <2>1, ShopConstants DEF Offers!QuoteConstants
<1>3. /\ quote[q] = NoQuote
      /\ quote' = [quote EXCEPT ![q] = new] /\ lines' = [lines EXCEPT ![q] = {0}]
      /\ UNCHANGED <<sales, doing, made, crossed>>
  BY <1>1 DEF Offers!CreateQuote
<1>4. /\ quote'[q] = new /\ lines'[q] = {0}
      /\ \A p \in Quotes \ {q} : quote'[p] = quote[p] /\ lines'[p] = lines[p]
  BY <1>3 DEF QuotesTyped
<1>5. QuotesTyped'
  BY <1>2, <1>3 DEF QuotesTyped
<1>6. \A r \in Requests : doing[r].on # q
  BY <1>3, ShopConstants DEF QuoteJobsFit, Offers!QuoteConstants
<1>7. QuoteJobsFit'
  <2> SUFFICES ASSUME NEW r \in Requests
               PROVE  JobFits(doing[r]) /\ (doing[r].on # NoQuote => quote'[doing[r].on] # NoQuote)
    BY <1>3 DEF QuoteJobsFit, JobFits
  <2>1. doing[r].on \in Quotes \cup {NoQuote}
    BY DEF QuotesTyped, QuoteJob
  <2> QED
    BY <1>4, <1>6, <2>1 DEF QuoteJobsFit
<1>8. KeptOf(q)'
  <2>1. sales'[q] = {}
    BY <1>3 DEF QuotesKept, KeptOf
  <2>2. AsSold(q)'
    BY <1>2, <1>4, <2>1 DEF AsSold
  <2> QED
    BY <1>3, <1>6, <2>1, <2>2 DEF KeptOf
<1> QED
  BY <1>3, <1>4, <1>5, <1>7, <1>8, OtherQuotes DEF QuotesGoal

LEMMA PrintQuoteKeeps ==
  ASSUME QuotesTyped, QuoteJobsFit, QuotesKept, NEW q \in Quotes, Offers!PrintQuote(q)
  PROVE  QuotesGoal
<1>1. PICK old \in Offers!QuoteRecord : old = quote[q]
  BY DEF Offers!PrintQuote, Offers!Live, QuotesTyped
<1>2. PICK new : new = [old EXCEPT !.status = "SENT"]
  OBVIOUS
<1>3. /\ new \in Offers!QuoteRecord /\ new.head = old.head /\ new.total = old.total
      /\ new.converted = old.converted
  BY <1>1, <1>2 DEF Offers!QuoteRecord, Offers!Statuses
<1>4. /\ old # NoQuote /\ new # NoQuote
      /\ quote' = [quote EXCEPT ![q] = new]
      /\ UNCHANGED <<lines, sales, doing, made, crossed>>
  BY <1>1, <1>2, <1>3, ShopConstants DEF Offers!PrintQuote, Offers!Live, QuotesTyped, Offers!QuoteConstants
<1>5. quote'[q] = new /\ \A p \in Quotes \ {q} : quote'[p] = quote[p]
  BY <1>4 DEF QuotesTyped
<1>6. QuotesTyped'
  BY <1>3, <1>4 DEF QuotesTyped
<1>7. QuoteJobsFit'
  <2> SUFFICES ASSUME NEW r \in Requests
               PROVE  JobFits(doing[r]) /\ (doing[r].on # NoQuote => quote'[doing[r].on] # NoQuote)
    BY <1>4 DEF QuoteJobsFit, JobFits
  <2>1. doing[r].on \in Quotes \cup {NoQuote}
    BY DEF QuotesTyped, QuoteJob
  <2> QED
    BY <1>4, <1>5, <2>1 DEF QuoteJobsFit
<1>8. KeptOf(q)'
  <2>1. KeptOf(q)
    BY DEF QuotesKept
  <2>2. AsSold(q)' <=> AsSold(q)
    BY <1>1, <1>3, <1>4, <1>5 DEF AsSold
  <2>3. \A r \in Requests : UpToDate(doing[r], q)' <=> UpToDate(doing[r], q)
    BY <1>1, <1>3, <1>4, <1>5 DEF UpToDate
  <2> QED
    BY <1>1, <1>4, <1>5, <2>1, <2>2, <2>3 DEF KeptOf
<1> QED
  BY <1>4, <1>5, <1>6, <1>7, <1>8, OtherQuotes DEF QuotesGoal

\* A request on a quote as it begins.
Begun(job, q, id) == [job EXCEPT !.on = q, !.id = id]

LEMMA JobBegun ==
  ASSUME NEW q \in Quotes, NEW id \in Nat, NEW job \in QuoteJob,
         job.op # "none", (job.at = "head" <=> job.op = "convert"), job.at \in {"check", "head"}
  PROVE  /\ Begun(job, q, id) \in QuoteJob /\ JobFits(Begun(job, q, id))
         /\ Begun(job, q, id).on = q
         /\ Begun(job, q, id).at = job.at /\ Begun(job, q, id).head = job.head
<1>1. q # NoQuote
  BY ShopConstants DEF Offers!QuoteConstants
<1>2. PICK j : j = [job EXCEPT !.on = q, !.id = id]
  OBVIOUS
<1>3. /\ j.on = q /\ j.at = job.at /\ j.head = job.head /\ j.op = job.op /\ j.id = id
      /\ j.seen = job.seen /\ j.status = job.status
  BY <1>2 DEF QuoteJob
<1>4. j \in QuoteJob
  <2>1. PICK a : a = [job EXCEPT !.on = q]
    OBVIOUS
  <2>2. a \in QuoteJob
    BY <2>1 DEF QuoteJob
  <2>3. j = [a EXCEPT !.id = id]
    BY <1>2, <2>1
  <2> QED
    BY <2>2, <2>3 DEF QuoteJob
<1>5. JobFits(j)
  BY <1>1, <1>3 DEF JobFits
<1>6. j = Begun(job, q, id)
  BY <1>2 DEF Begun
<1> QED
  BY <1>3, <1>4, <1>5, <1>6

LEMMA BeginUpdateKeeps ==
  ASSUME QuotesTyped, QuoteJobsFit, QuotesKept, NEW r \in Requests, NEW q \in Quotes,
         NEW op \in {"lines", "head", "status"}, NEW st \in Offers!Statuses,
         Offers!BeginUpdate(r, q, op, st)
  PROVE  QuotesGoal
<1>1. PICK job : job = [Offers!Free EXCEPT !.op = op, !.at = "check", !.status = st]
  OBVIOUS
<1>2. job \in QuoteJob /\ job.op = op /\ job.at = "check"
  BY <1>1 DEF Offers!Free, QuoteJob, Offers!Statuses
<1>3. PICK id \in Nat : id = made + 1
  BY DEF QuotesTyped
<1>4. PICK j \in QuoteJob :
        /\ j = Begun(job, q, id)
        /\ JobFits(j) /\ j.on = q /\ j.at = "check"
  BY <1>2, JobBegun
<1>5. /\ quote[q] # NoQuote /\ ~quote[q].converted
      /\ doing' = [doing EXCEPT ![r] = j] /\ made' \in Nat
      /\ crossed' = IF Offers!Under(q) = {} THEN crossed ELSE crossed \cup {q}
      /\ UNCHANGED <<quote, lines, sales>>
  BY <1>1, <1>3, <1>4 DEF Begun, Offers!BeginUpdate, Offers!Live, Offers!Start
<1> QED
  BY <1>4, <1>5, StartKeeps

LEMMA BeginDeleteKeeps ==
  ASSUME QuotesTyped, QuoteJobsFit, QuotesKept, NEW r \in Requests, NEW q \in Quotes,
         Offers!BeginDelete(r, q)
  PROVE  QuotesGoal
<1>1. PICK job : job = [Offers!Free EXCEPT !.op = "delete", !.at = "check"]
  OBVIOUS
<1>2. job \in QuoteJob /\ job.op = "delete" /\ job.at = "check"
  BY <1>1 DEF Offers!Free, QuoteJob, Offers!Statuses
<1>3. PICK id \in Nat : id = made + 1
  BY DEF QuotesTyped
<1>4. PICK j \in QuoteJob :
        /\ j = Begun(job, q, id)
        /\ JobFits(j) /\ j.on = q /\ j.at = "check"
  BY <1>2, JobBegun
<1>5. /\ quote[q] # NoQuote /\ ~quote[q].converted
      /\ doing' = [doing EXCEPT ![r] = j] /\ made' \in Nat
      /\ crossed' = IF Offers!Under(q) = {} THEN crossed ELSE crossed \cup {q}
      /\ UNCHANGED <<quote, lines, sales>>
  BY <1>1, <1>3, <1>4 DEF Begun, Offers!BeginDelete, Offers!Live, Offers!Start
<1> QED
  BY <1>4, <1>5, StartKeeps

LEMMA BeginConvertKeeps ==
  ASSUME QuotesTyped, QuoteJobsFit, QuotesKept, NEW r \in Requests, NEW q \in Quotes,
         Offers!BeginConvert(r, q)
  PROVE  QuotesGoal
<1>0. PICK head \in Nat : head = quote[q].head
  BY DEF Offers!BeginConvert, Offers!Live, QuotesTyped, Offers!QuoteRecord
<1>1. PICK job : job = [Offers!Free EXCEPT !.op = "convert", !.at = "head", !.head = head]
  OBVIOUS
<1>2. job \in QuoteJob /\ job.op = "convert" /\ job.at = "head" /\ job.head = head
  BY <1>1 DEF Offers!Free, QuoteJob, Offers!Statuses
<1>3. PICK id \in Nat : id = made + 1
  BY DEF QuotesTyped
<1>4. PICK j \in QuoteJob :
        /\ j = Begun(job, q, id)
        /\ JobFits(j) /\ j.on = q /\ j.at = "head" /\ j.head = head
  BY <1>2, JobBegun
<1>5. /\ quote[q] # NoQuote /\ ~quote[q].converted
      /\ doing' = [doing EXCEPT ![r] = j] /\ made' \in Nat
      /\ crossed' = IF Offers!Under(q) = {} THEN crossed ELSE crossed \cup {q}
      /\ UNCHANGED <<quote, lines, sales>>
  BY <1>0, <1>1, <1>3, <1>4 DEF Begun, Offers!BeginConvert, Offers!Live, Offers!Start
<1> QED
  BY <1>0, <1>4, <1>5, StartKeeps


\* A request's job when it has read the head, and when it has read the lines.
HeadRead(old, at, head) == [old EXCEPT !.at = at, !.head = head]
LinesRead(old, at, seen) == [old EXCEPT !.at = at, !.seen = seen]

LEMMA JobMoved ==
  ASSUME NEW old \in QuoteJob, NEW seen \in SUBSET Nat, NEW head \in Nat,
         NEW at \in {"loaded", "view", "cleared", "added", "sell", "mark"}
  PROVE  /\ \E j \in QuoteJob :
              /\ j = LinesRead(old, at, seen)
              /\ j.on = old.on /\ j.op = old.op /\ j.head = old.head
              /\ j.at = at /\ j.seen = seen
         /\ \E j \in QuoteJob :
              /\ j = HeadRead(old, at, head)
              /\ j.on = old.on /\ j.op = old.op /\ j.seen = old.seen
              /\ j.at = at /\ j.head = head
<1>1. PICK a : a = [old EXCEPT !.at = at]
  OBVIOUS
<1>2. /\ a \in QuoteJob /\ a.on = old.on /\ a.op = old.op /\ a.head = old.head
      /\ a.at = at /\ a.seen = old.seen
  BY <1>1 DEF QuoteJob
<1>3. PICK b : b = [a EXCEPT !.seen = seen]
  OBVIOUS
<1>4. /\ b \in QuoteJob /\ b.on = a.on /\ b.op = a.op /\ b.head = a.head
      /\ b.at = a.at /\ b.seen = seen
  BY <1>2, <1>3 DEF QuoteJob
<1>5. b = LinesRead(old, at, seen)
  BY <1>1, <1>3 DEF LinesRead
<1>6. PICK c : c = [a EXCEPT !.head = head]
  OBVIOUS
<1>7. /\ c \in QuoteJob /\ c.on = a.on /\ c.op = a.op /\ c.head = head
      /\ c.at = a.at /\ c.seen = a.seen
  BY <1>2, <1>6 DEF QuoteJob
<1>8. c = HeadRead(old, at, head)
  BY <1>1, <1>6 DEF HeadRead
<1> QED
  BY <1>2, <1>4, <1>5, <1>7, <1>8

LEMMA LoadDiscountKeeps ==
  ASSUME QuotesTyped, QuoteJobsFit, QuotesKept, NEW r \in Requests, Offers!LoadDiscount(r)
  PROVE  QuotesGoal
<1>1. /\ doing[r] \in QuoteJob /\ doing[r].on \in Quotes
      /\ quote[doing[r].on] \in Offers!QuoteRecord
  BY JobFound DEF Offers!LoadDiscount
<1>2. PICK q \in Quotes : q = doing[r].on
  BY <1>1
<1>3. PICK head \in Nat : head = quote[q].head
  BY <1>1, <1>2 DEF Offers!QuoteRecord
<1>4. PICK j \in QuoteJob :
        /\ j = HeadRead(doing[r], "loaded", head)
        /\ j.on = doing[r].on /\ j.op = doing[r].op /\ j.at = "loaded"
  <2>1. PICK at \in {"loaded", "view", "cleared", "added", "sell", "mark"} : at = "loaded"
    OBVIOUS
  <2>2. PICK seen \in SUBSET Nat : seen = {}
    OBVIOUS
  <2> QED
    BY <1>1, <2>1, <2>2, JobMoved
<1>5. doing' = [doing EXCEPT ![r] = j] /\ UNCHANGED <<quote, lines, sales, made, crossed>>
  BY <1>2, <1>3, <1>4 DEF HeadRead, Offers!LoadDiscount
<1>6. JobFits(j) /\ (UpToDate(doing[r], q) => UpToDate(j, q))
  BY <1>4 DEF Offers!LoadDiscount, QuoteJobsFit, JobFits, UpToDate
<1> QED
  BY <1>2, <1>4, <1>5, <1>6, AdvanceKeeps

LEMMA ReadKeeps ==
  ASSUME QuotesTyped, QuoteJobsFit, QuotesKept, NEW r \in Requests,
         Offers!ViewLines(r) \/ Offers!Clear(r) \/ Offers!AddUpLines(r) \/ Offers!ReadLines(r)
  PROVE  QuotesGoal
<1>0. doing[r].op # "none"
  BY DEF QuoteJobsFit, JobFits, Offers!ViewLines, Offers!Clear, Offers!AddUpLines, Offers!ReadLines
<1>1. doing[r] \in QuoteJob /\ doing[r].on \in Quotes
  BY <1>0, JobFound
<1>2. PICK q \in Quotes : q = doing[r].on
  BY <1>1
<1>3. lines[q] \in SUBSET Nat /\ doing[r].seen \in SUBSET Nat /\ JobFits(doing[r])
  BY <1>1, <1>2 DEF QuotesTyped, QuoteJob, QuoteJobsFit
<1>4. ASSUME NEW at \in {"view", "cleared", "added", "sell"}, NEW seen \in SUBSET Nat,
             NEW j, j = LinesRead(doing[r], at, seen), doing' = [doing EXCEPT ![r] = j],
             seen = lines[q] \/ (doing[r].at = "view" /\ seen = doing[r].seen \cap lines[q]),
             at \in {"view", "cleared"} => doing[r].op = "lines",
             at = "added" => doing[r].op = "head",
             at = "sell" <=> doing[r].op = "convert",
             at = "sell" => doing[r].at = "head",
             UNCHANGED <<quote, lines, sales, made, crossed>>
      PROVE  QuotesGoal
  <2>1. /\ j \in QuoteJob
        /\ j.on = doing[r].on /\ j.op = doing[r].op /\ j.head = doing[r].head
        /\ j.at = at /\ j.seen = seen
    BY <1>1, <1>4, JobMoved
  <2>2. JobFits(j)
    BY <1>3, <1>4, <2>1 DEF JobFits
  <2>3. ASSUME UpToDate(doing[r], q) PROVE UpToDate(j, q)
    BY <1>4, <2>1, <2>3 DEF UpToDate
  <2> QED
    BY <1>2, <1>4, <2>1, <2>2, <2>3, AdvanceKeeps
<1>5. CASE Offers!ViewLines(r)
  <2>0. /\ doing[r].op = "lines"
        /\ UNCHANGED <<quote, lines, sales, made, crossed>>
    BY <1>3, <1>5 DEF Offers!ViewLines, JobFits
  <2>1. PICK seen \in SUBSET Nat : seen = lines[q]
    BY <1>3
  <2>2. PICK j : j = LinesRead(doing[r], "view", seen)
    OBVIOUS
  <2>3. doing' = [doing EXCEPT ![r] = j]
    BY <1>2, <1>5, <2>1, <2>2 DEF Offers!ViewLines, LinesRead
  <2> QED
    BY <1>4, <2>0, <2>1, <2>2, <2>3
<1>6. CASE Offers!Clear(r)
  <2>1. PICK seen \in SUBSET Nat : seen = doing[r].seen \cap lines[q]
    BY <1>3
  <2>2. PICK j : j = LinesRead(doing[r], "cleared", seen)
    OBVIOUS
  <2>3. doing' = [doing EXCEPT ![r] = j]
    BY <1>1, <1>2, <1>6, <2>1, <2>2 DEF Offers!Clear, LinesRead, QuotesTyped, QuoteJob
  <2> QED
    BY <1>3, <1>4, <1>6, <2>1, <2>2, <2>3 DEF Offers!Clear, JobFits
<1>7. CASE Offers!AddUpLines(r)
  <2>0. /\ doing[r].op = "head"
        /\ UNCHANGED <<quote, lines, sales, made, crossed>>
    BY <1>3, <1>7 DEF Offers!AddUpLines, JobFits
  <2>1. PICK seen \in SUBSET Nat : seen = lines[q]
    BY <1>3
  <2>2. PICK j : j = LinesRead(doing[r], "added", seen)
    OBVIOUS
  <2>3. doing' = [doing EXCEPT ![r] = j]
    BY <1>2, <1>7, <2>1, <2>2 DEF Offers!AddUpLines, LinesRead
  <2> QED
    BY <1>4, <2>0, <2>1, <2>2, <2>3
<1>8. CASE Offers!ReadLines(r)
  <2>0. /\ doing[r].op = "convert" /\ doing[r].at = "head"
        /\ UNCHANGED <<quote, lines, sales, made, crossed>>
    BY <1>3, <1>8 DEF Offers!ReadLines, JobFits
  <2>1. PICK seen \in SUBSET Nat : seen = lines[q]
    BY <1>3
  <2>2. PICK j : j = LinesRead(doing[r], "sell", seen)
    OBVIOUS
  <2>3. doing' = [doing EXCEPT ![r] = j]
    BY <1>2, <1>8, <2>1, <2>2 DEF Offers!ReadLines, LinesRead
  <2> QED
    BY <1>4, <2>0, <2>1, <2>2, <2>3
<1> QED
  BY <1>5, <1>6, <1>7, <1>8

LEMMA SellKeeps ==
  ASSUME QuotesTyped, QuoteJobsFit, QuotesKept, NEW r \in Requests, Offers!Sell(r)
  PROVE  QuotesGoal
<1>1. /\ doing[r].at = "sell" /\ doing[r].op = "convert"
      /\ doing' = [doing EXCEPT ![r].at = "mark"]
      /\ UNCHANGED <<quote, lines, made, crossed>>
  BY DEF Offers!Sell, Offers!Goto, QuoteJobsFit, JobFits
<1>2. PICK q \in Quotes : q = doing[r].on
  BY <1>1, JobFound
<1>3. PICK old \in QuoteJob : old = doing[r]
  BY <1>1, JobFound
<1>4. PICK j : j = [old EXCEPT !.at = "mark"]
  OBVIOUS
<1>5. /\ j \in QuoteJob /\ j.on = q /\ j.op = "convert" /\ j.at = "mark"
  BY <1>1, <1>2, <1>3, <1>4 DEF QuoteJob
<1>6. doing' = [doing EXCEPT ![r] = j]
  BY <1>1, <1>3, <1>4
<1>7. /\ doing' \in [Requests -> QuoteJob] /\ doing'[r] = j
      /\ \A o \in Requests : o # r => doing'[o] = doing[o]
  BY <1>5, <1>6, JobWritten
<1>8. PICK deal \in [id : Nat, head : Nat, lines : SUBSET Nat] :
        /\ deal.head = old.head /\ deal.lines = old.seen
        /\ sales' = IF sales[q] # {} THEN sales ELSE [sales EXCEPT ![q] = {deal}]
  <2>1. PICK deal : deal = [id |-> old.id, head |-> old.head, lines |-> old.seen]
    OBVIOUS
  <2>2. /\ deal \in [id : Nat, head : Nat, lines : SUBSET Nat]
        /\ deal.head = old.head /\ deal.lines = old.seen
    BY <2>1 DEF QuoteJob
  <2>3. sales' = IF sales[q] # {} THEN sales ELSE [sales EXCEPT ![q] = {deal}]
    BY <1>2, <1>3, <2>1 DEF Offers!Sell
  <2> QED
    BY <2>2, <2>3
<1>9. /\ sales'[q] = IF sales[q] # {} THEN sales[q] ELSE {deal}
      /\ \A p \in Quotes \ {q} : sales'[p] = sales[p]
      /\ sales' \in [Quotes -> SUBSET [id : Nat, head : Nat, lines : SUBSET Nat]]
      /\ \A p \in Quotes : \A s, t \in sales'[p] : s = t
  BY <1>8 DEF QuotesTyped
<1>10. QuotesTyped'
  BY <1>1, <1>7, <1>9 DEF QuotesTyped
<1>11. QuoteJobsFit'
  <2> SUFFICES ASSUME NEW o \in Requests
               PROVE  JobFits(doing'[o]) /\ (doing'[o].on # NoQuote => quote[doing'[o].on] # NoQuote)
    BY <1>1 DEF QuoteJobsFit, JobFits
  <2>1. CASE o = r
    <3>1. JobFits(j)
      BY <1>2, <1>5, ShopConstants DEF JobFits, Offers!QuoteConstants
    <3>2. quote[q] # NoQuote
      BY <1>1, <1>2, JobFound
    <3> QED
      BY <1>5, <1>7, <2>1, <3>1, <3>2
  <2>2. CASE o # r
    BY <1>7, <2>2 DEF QuoteJobsFit
  <2> QED
    BY <2>1, <2>2
<1>12. KeptOf(q)'
  <2>1. KeptOf(q) /\ quote[q] # NoQuote
    BY <1>1, <1>2, JobFound DEF QuotesKept
  <2>2. ASSUME q \notin crossed
        PROVE  AsSold(q)' /\ UpToDate(j, q)' /\ \A o \in Requests : doing'[o].on = q => o = r
    <3>1. AsSold(q) /\ UpToDate(old, q)
      BY <1>2, <1>3, <2>1, <2>2 DEF KeptOf
    <3>2. deal.head = quote[q].head /\ deal.lines = lines[q]
      BY <1>1, <1>3, <1>8, <3>1 DEF UpToDate
    <3>3. AsSold(q)'
      BY <1>1, <1>9, <3>1, <3>2 DEF AsSold
    <3>4. UpToDate(j, q)'
      BY <1>5 DEF UpToDate
    <3>5. ASSUME NEW o \in Requests, doing'[o].on = q PROVE o = r
      BY <1>2, <1>7, <2>1, <2>2, <3>5 DEF KeptOf
    <3> QED
      BY <3>3, <3>4, <3>5
  <2> QED
    BY <1>1, <1>7, <2>1, <2>2 DEF KeptOf
<1>13. \A o \in Requests, p \in Quotes \ {q} : doing'[o].on = p => doing'[o] = doing[o]
  BY <1>5, <1>7
<1> QED
  BY <1>1, <1>9, <1>10, <1>11, <1>12, <1>13, OtherQuotes DEF QuotesGoal

LEMMA CommitLinesKeeps ==
  ASSUME QuotesTyped, QuoteJobsFit, QuotesKept, NEW r \in Requests, Offers!CommitLines(r)
  PROVE  QuotesGoal
<1>1. doing[r].at = "cleared" /\ doing[r].op = "lines"
  BY DEF Offers!CommitLines, QuoteJobsFit, JobFits
<1>2. PICK q \in Quotes : q = doing[r].on
  BY <1>1, JobFound
<1>3. PICK job \in QuoteJob, old \in Offers!QuoteRecord :
        job = doing[r] /\ old = quote[q] /\ job.at = "cleared" /\ job.op = "lines"
  BY <1>1, <1>2, JobFound
<1>4. PICK total : total = [head |-> job.head, lines |-> {job.id}]
  OBVIOUS
<1>5. PICK a : a = [old EXCEPT !.total = total]
  OBVIOUS
<1>6. PICK new : new = [a EXCEPT !.head = job.head]
  OBVIOUS
<1>7. new \in Offers!QuoteRecord /\ new.head = job.head /\ new.total = total /\ new # NoQuote
  <2>1. total \in [head : Nat, lines : SUBSET Nat]
    BY <1>4 DEF QuoteJob
  <2>2. a \in Offers!QuoteRecord /\ a.total = total
    BY <1>5, <2>1 DEF Offers!QuoteRecord
  <2>3. new \in Offers!QuoteRecord /\ new.head = job.head /\ new.total = total
    BY <1>6, <2>2 DEF Offers!QuoteRecord, QuoteJob
  <2> QED
    BY <2>3, ShopConstants DEF Offers!QuoteConstants
<1>8. PICK ls \in SUBSET Nat : ls = (lines[q] \ job.seen) \cup {job.id}
  BY DEF QuotesTyped, QuoteJob
<1>9. /\ lines' = [lines EXCEPT ![q] = ls]
      /\ doing' = [doing EXCEPT ![r] = Offers!Free]
      /\ crossed' = IF sales[q] # {} /\ ~old.converted THEN crossed \cup {q} ELSE crossed
      /\ UNCHANGED <<sales, made>>
  BY <1>2, <1>3, <1>8 DEF Offers!CommitLines, Offers!End, QuotesTyped
<1>10. quote' = [quote EXCEPT ![q] = new]
  <2>1. new = [old EXCEPT !.total = total, !.head = job.head]
    BY <1>5, <1>6
  <2>2. quote' = [quote EXCEPT ![q].total = total, ![q].head = job.head]
    BY <1>2, <1>3, <1>4 DEF Offers!CommitLines
  <2> QED
    BY <1>3, <2>1, <2>2 DEF QuotesTyped
<1>11. ASSUME q \notin crossed', UpToDate(job, q)
       PROVE  new.total = [head |-> new.head, lines |-> ls] /\ sales[q] = {}
  BY <1>3, <1>4, <1>7, <1>8, <1>9, <1>11 DEF UpToDate
<1> QED
  BY <1>2, <1>3, <1>7, <1>9, <1>10, <1>11, CommitKeeps

LEMMA CommitHeadKeeps ==
  ASSUME QuotesTyped, QuoteJobsFit, QuotesKept, NEW r \in Requests, Offers!CommitHead(r)
  PROVE  QuotesGoal
<1>1. doing[r].at = "added" /\ doing[r].op = "head"
  BY DEF Offers!CommitHead, QuoteJobsFit, JobFits
<1>2. PICK q \in Quotes : q = doing[r].on
  BY <1>1, JobFound
<1>3. PICK job \in QuoteJob, old \in Offers!QuoteRecord :
        job = doing[r] /\ old = quote[q] /\ job.at = "added" /\ job.op = "head"
  BY <1>1, <1>2, JobFound
<1>4. PICK total : total = [head |-> job.id, lines |-> job.seen]
  OBVIOUS
<1>5. PICK a : a = [old EXCEPT !.head = job.id]
  OBVIOUS
<1>6. PICK new : new = [a EXCEPT !.total = total]
  OBVIOUS
<1>7. new \in Offers!QuoteRecord /\ new.head = job.id /\ new.total = total /\ new # NoQuote
  <2>1. total \in [head : Nat, lines : SUBSET Nat]
    BY <1>4 DEF QuoteJob
  <2>2. a \in Offers!QuoteRecord /\ a.head = job.id
    BY <1>5 DEF Offers!QuoteRecord, QuoteJob
  <2>3. new \in Offers!QuoteRecord /\ new.head = job.id /\ new.total = total
    BY <1>6, <2>1, <2>2 DEF Offers!QuoteRecord
  <2> QED
    BY <2>3, ShopConstants DEF Offers!QuoteConstants
<1>8. PICK ls \in SUBSET Nat : ls = lines[q]
  BY DEF QuotesTyped
<1>9. /\ lines' = [lines EXCEPT ![q] = ls]
      /\ doing' = [doing EXCEPT ![r] = Offers!Free]
      /\ crossed' = IF sales[q] # {} /\ ~old.converted THEN crossed \cup {q} ELSE crossed
      /\ UNCHANGED <<sales, made>>
  BY <1>2, <1>3, <1>8 DEF Offers!CommitHead, Offers!End, QuotesTyped
<1>10. quote' = [quote EXCEPT ![q] = new]
  <2>1. new = [old EXCEPT !.head = job.id, !.total = total]
    BY <1>5, <1>6
  <2>2. quote' = [quote EXCEPT ![q].head = job.id, ![q].total = total]
    BY <1>2, <1>3, <1>4 DEF Offers!CommitHead
  <2> QED
    BY <1>3, <2>1, <2>2 DEF QuotesTyped
<1>11. ASSUME q \notin crossed', UpToDate(job, q)
       PROVE  new.total = [head |-> new.head, lines |-> ls] /\ sales[q] = {}
  BY <1>3, <1>4, <1>7, <1>8, <1>9, <1>11 DEF UpToDate
<1> QED
  BY <1>2, <1>3, <1>7, <1>9, <1>10, <1>11, CommitKeeps

\* What leaves the head, the lines and the total of a quote as they are.
LEMMA MarkKeeps ==
  ASSUME QuotesTyped, QuoteJobsFit, QuotesKept, NEW r \in Requests, NEW q \in Quotes,
         NEW new \in Offers!QuoteRecord,
         doing[r].on = q, doing[r].op # "none",
         new.head = quote[q].head, new.total = quote[q].total,
         quote' = [quote EXCEPT ![q] = new],
         doing' = [doing EXCEPT ![r] = Offers!Free],
         crossed \subseteq crossed', UNCHANGED <<lines, sales, made>>
  PROVE  QuotesGoal
<1>1. PICK ls \in SUBSET Nat : ls = lines[q]
  BY DEF QuotesTyped
<1>2. lines' = [lines EXCEPT ![q] = ls] /\ new # NoQuote
  BY <1>1, ShopConstants DEF QuotesTyped, Offers!QuoteConstants
<1>3. ASSUME AsSold(q)
      PROVE  /\ new.total = [head |-> new.head, lines |-> ls]
             /\ \A s \in sales[q] : s.head = new.head /\ s.lines = ls
  BY <1>1, <1>3 DEF AsSold
<1> QED
  BY <1>2, <1>3, CommitKeeps

LEMMA MarksKeep ==
  ASSUME QuotesTyped, QuoteJobsFit, QuotesKept, NEW r \in Requests,
         Offers!CommitStatus(r) \/ Offers!DeleteQuote(r) \/ Offers!MarkConverted(r)
  PROVE  QuotesGoal
<1>1. doing[r].op # "none" /\ doing' = [doing EXCEPT ![r] = Offers!Free]
  BY DEF Offers!CommitStatus, Offers!DeleteQuote, Offers!MarkConverted, Offers!End,
     QuoteJobsFit, JobFits
<1>2. PICK q \in Quotes : q = doing[r].on
  BY <1>1, JobFound
<1>3. PICK job \in QuoteJob, old \in Offers!QuoteRecord : job = doing[r] /\ old = quote[q]
  BY <1>1, <1>2, JobFound
<1>4. CASE Offers!CommitStatus(r)
  <2>1. PICK new : new = [old EXCEPT !.status = job.status]
    OBVIOUS
  <2>2. new \in Offers!QuoteRecord /\ new.head = old.head /\ new.total = old.total
    BY <2>1 DEF Offers!QuoteRecord, QuoteJob
  <2>3. quote' = [quote EXCEPT ![q] = new] /\ UNCHANGED <<lines, sales, made, crossed>>
    BY <1>2, <1>3, <1>4, <2>1 DEF Offers!CommitStatus
  <2> QED
    BY <1>1, <1>2, <1>3, <2>2, <2>3, MarkKeeps
<1>5. CASE Offers!DeleteQuote(r)
  <2>1. PICK new : new = [old EXCEPT !.deleted = TRUE]
    OBVIOUS
  <2>2. new \in Offers!QuoteRecord /\ new.head = old.head /\ new.total = old.total
    BY <2>1 DEF Offers!QuoteRecord
  <2>3. quote' = [quote EXCEPT ![q] = new]
    BY <1>2, <1>3, <1>5, <2>1 DEF Offers!DeleteQuote
  <2>4. crossed \subseteq crossed' /\ UNCHANGED <<lines, sales, made>>
    BY <1>5 DEF Offers!DeleteQuote
  <2> QED
    BY <1>1, <1>2, <1>3, <2>2, <2>3, <2>4, MarkKeeps
<1>6. CASE Offers!MarkConverted(r)
  <2>0. UNCHANGED <<lines, sales, made, crossed>>
    BY <1>6 DEF Offers!MarkConverted
  <2>1. CASE ~Offers!Live(q)
    <3>1. UNCHANGED quote
      BY <1>2, <1>6, <2>1 DEF Offers!MarkConverted
    <3> QED
      BY <1>1, <2>0, <3>1, AbandonKeeps
  <2>2. CASE Offers!Live(q)
    <3>1. PICK a : a = [old EXCEPT !.status = "CONVERTED"]
      OBVIOUS
    <3>2. PICK new : new = [a EXCEPT !.converted = TRUE]
      OBVIOUS
    <3>3. new \in Offers!QuoteRecord /\ new.head = old.head /\ new.total = old.total
      <4>1. a \in Offers!QuoteRecord /\ a.head = old.head /\ a.total = old.total
        BY <3>1 DEF Offers!QuoteRecord, Offers!Statuses
      <4> QED
        BY <3>2, <4>1 DEF Offers!QuoteRecord
    <3>4. quote' = [quote EXCEPT ![q] = new]
      <4>1. new = [old EXCEPT !.status = "CONVERTED", !.converted = TRUE]
        BY <3>1, <3>2
      <4>2. quote' = [quote EXCEPT ![q].status = "CONVERTED", ![q].converted = TRUE]
        BY <1>2, <1>6, <2>2 DEF Offers!MarkConverted
      <4> QED
        BY <1>3, <4>1, <4>2 DEF QuotesTyped
    <3> QED
      BY <1>1, <1>2, <1>3, <2>0, <3>3, <3>4, MarkKeeps
  <2> QED
    BY <2>1, <2>2
<1> QED
  BY <1>4, <1>5, <1>6

\* Whatever is done with quotes, a quote no two requests met on is as it was sold.
LEMMA QuotesKeep ==
  ASSUME QuotesTyped, QuoteJobsFit, QuotesKept, Offers!QuotesNext
  PROVE  QuotesGoal
<1>1. ASSUME NEW q \in Quotes, Offers!CreateQuote(q) \/ Offers!PrintQuote(q)
      PROVE  QuotesGoal
  BY <1>1, CreateQuoteKeeps, PrintQuoteKeeps
<1>2. ASSUME NEW q \in Quotes, NEW r \in Requests, NEW op \in {"lines", "head"},
             Offers!BeginUpdate(r, q, op, "DRAFT")
      PROVE  QuotesGoal
  BY <1>2, BeginUpdateKeeps DEF Offers!Statuses
<1>3. ASSUME NEW q \in Quotes, NEW r \in Requests, NEW st \in Offers!Statuses,
             Offers!BeginUpdate(r, q, "status", st)
      PROVE  QuotesGoal
  BY <1>3, BeginUpdateKeeps
<1>4. ASSUME NEW q \in Quotes, NEW r \in Requests,
             Offers!BeginDelete(r, q) \/ Offers!BeginConvert(r, q)
      PROVE  QuotesGoal
  BY <1>4, BeginDeleteKeeps, BeginConvertKeeps
<1>5. ASSUME NEW r \in Requests,
             \/ Offers!LoadDiscount(r) \/ Offers!ViewLines(r) \/ Offers!Clear(r)
             \/ Offers!AddUpLines(r) \/ Offers!ReadLines(r) \/ Offers!Sell(r)
      PROVE  QuotesGoal
  BY <1>5, LoadDiscountKeeps, ReadKeeps, SellKeeps
<1>6. ASSUME NEW r \in Requests,
             \/ Offers!CommitLines(r) \/ Offers!CommitHead(r) \/ Offers!CommitStatus(r)
             \/ Offers!DeleteQuote(r) \/ Offers!MarkConverted(r)
      PROVE  QuotesGoal
  BY <1>6, CommitLinesKeeps, CommitHeadKeeps, MarksKeep
<1>7. ASSUME NEW r \in Requests, Offers!Abandon(r)
      PROVE  QuotesGoal
  BY <1>7, AbandonKeeps DEF Offers!Abandon, Offers!End
<1> QED
  BY <1>1, <1>2, <1>3, <1>4, <1>5, <1>6, <1>7 DEF Offers!QuotesNext

----------------------------------------------------------------------------
(* The shop                                                                *)

ShopVars == <<part, stock, transport, docs, edit, offers, goods, prices>>

LEMMA ShopStarts == ShopInit => ShopInv
<1> SUFFICES ASSUME ShopInit PROVE ShopInv
  OBVIOUS
<1>1. Books
  <2>1. StockTypeOK
    BY StockConstants DEF ShopInit, StockInit, StockTypeOK, SerialRecord, SerialStatus
  <2>2. \A l : InStock(l) = {}
    BY DEF ShopInit, StockInit, InStock
  <2>3. \A l \in Locations : <<l, Serialized>> \in Places
    BY DEF Places, Variants
  <2>4. SerialsCounted
    BY <2>2, <2>3, FS_EmptySet DEF ShopInit, StockInit, SerialsCounted
  <2> QED
    BY <2>1, <2>4 DEF ShopInit, StockInit, Books, BooksAgree
<1>2. TransfersTyped
  BY DEF ShopInit, Transport!TransfersInit, Transport!Idle, TransfersTyped
<1>3. DocumentsTyped
  BY DEF ShopInit, Docs!DocumentsInit, Docs!Idle, DocumentsTyped
<1>4. SerialsFollow /\ OnlyDocumentsSell
  BY DEF ShopInit, StockInit, Docs!DocumentsInit, SerialsFollow, OnlyDocumentsSell, SoldBy, Sells
<1>5. Offers!Free \in QuoteJob /\ JobFits(Offers!Free) /\ Offers!Free.on = NoQuote
  BY DEF Offers!Free, QuoteJob, Offers!Statuses, JobFits
<1>6. QuotesTyped /\ QuoteJobsFit
  BY <1>5 DEF ShopInit, Offers!QuotesInit, QuotesTyped, QuoteJobsFit
<1>7. QuotesKept
  BY <1>5, ShopConstants DEF ShopInit, Offers!QuotesInit, Offers!QuoteConstants, QuotesKept, KeptOf
<1> QED
  BY <1>1, <1>2, <1>3, <1>4, <1>6, <1>7 DEF ShopInv

\* What each part of the invariant is about.
LEMMA TransfersRest ==
  ASSUME TransfersTyped, UNCHANGED transport PROVE TransfersTyped'
BY DEF TransfersTyped, transport

LEMMA DocumentsRest ==
  ASSUME DocumentsTyped, UNCHANGED docs PROVE DocumentsTyped'
BY DEF DocumentsTyped, docs

LEMMA QuotesRest ==
  ASSUME QuotesTyped, QuoteJobsFit, QuotesKept, UNCHANGED offers PROVE QuotesGoal
BY DEF QuotesGoal, QuotesTyped, QuoteJobsFit, JobFits, QuotesKept, KeptOf, AsSold, UpToDate, offers

\* Where no document is written, no serial is on one.
LEMMA NothingSold ==
  ASSUME OnlyDocumentsSell, SerialsFollow, part # "documents", UNCHANGED part, UNCHANGED docs,
         NoneNewlySold
  PROVE  OnlyDocumentsSell' /\ SerialsFollow'
<1>1. OnlyDocumentsSell'
  BY DEF OnlyDocumentsSell, NoneNewlySold, docs
<1>2. \A i : SoldBy(i)' = {}
  BY DEF OnlyDocumentsSell, SoldBy, Sells, docs
<1> QED
  BY <1>1, <1>2 DEF OnlyDocumentsSell, SerialsFollow

LEMMA StockRests ==
  ASSUME Books, OnlyDocumentsSell, SerialsFollow, UNCHANGED part, UNCHANGED docs, UNCHANGED stock
  PROVE  Books' /\ OnlyDocumentsSell' /\ SerialsFollow'
<1>1. Books' /\ \A s \in Serials : serial'[s].status = "SOLD" <=> serial[s].status = "SOLD"
  BY StockKept
<1>2. SerialsFollow'
  BY <1>1, SalesKept DEF docs
<1>3. OnlyDocumentsSell'
  BY <1>1 DEF OnlyDocumentsSell, docs
<1> QED
  BY <1>1, <1>2, <1>3

LEMMA ShopKeeps == ShopInv /\ [ShopNext]_ShopVars => ShopInv'
<1> SUFFICES ASSUME ShopInv, [ShopNext]_ShopVars PROVE ShopInv'
  OBVIOUS
<1> USE DEF ShopInv
<1>1. CASE part = "transport" /\ Transport!Next /\ UNCHANGED <<part, docs, edit, offers, goods, prices>>
  <2>1. Books' /\ TransfersTyped' /\ NoneNewlySold
    BY <1>1, TransportKeeps
  <2>2. OnlyDocumentsSell' /\ SerialsFollow'
    BY <1>1, <2>1, NothingSold
  <2> QED
    BY <1>1, <2>1, <2>2, DocumentsRest, QuotesRest DEF QuotesGoal
<1>2. CASE part = "documents" /\ Docs!Next /\ UNCHANGED <<part, transport, edit, offers, goods, prices>>
  <2>1. OnlyDocumentsSell'
    BY <1>2 DEF OnlyDocumentsSell
  <2> QED
    BY <1>2, <2>1, DocumentsKeep, TransfersRest, QuotesRest DEF DocumentsGoal, QuotesGoal
<1>3. CASE Offers!QuotesNext /\ UNCHANGED <<part, stock, transport, docs, edit, goods, prices>>
  BY <1>3, QuotesKeep, StockRests, TransfersRest, DocumentsRest DEF QuotesGoal
<1>4. CASE UNCHANGED <<part, stock, transport, docs, offers>>
  BY <1>4, StockRests, TransfersRest, DocumentsRest, QuotesRest DEF QuotesGoal
<1> QED
  BY <1>1, <1>2, <1>3, <1>4 DEF ShopNext, ShopVars

LEMMA ShopInvariant == ShopSpec => []ShopInv
<1>1. ShopVars = <<part, stock, transport, docs, edit, offers, goods, prices>>
  BY DEF ShopVars
<1> QED
  BY <1>1, ShopStarts, ShopKeeps, PTL DEF ShopSpec, ShopVars

\* The balance of every variant at every place is the sum of its movements and what its
\* lots hold less what was issued without one, and of serials their number: whatever
\* transfers, adjustments, sales, refunds, returns and edits do, in whatever order
\* (IssueStockTx, ReceiveStockTx and all that call them).
THEOREM StockBooksAgree == ShopSpec => []BooksAgree
<1>1. ShopInv => BooksAgree
  BY DEF ShopInv, Books
<1> QED
  BY <1>1, ShopInvariant, PTL

\* The cardinality that the parts speak of.
LEMMA SameCardinality ==
  \A S : Offers!Cardinality(S) = Cardinality(S) /\ Docs!Cardinality(S) = Cardinality(S)
BY Zenon DEF Cardinality, Offers!Cardinality, Docs!Cardinality

\* Among the sales whose stock the code has kept track of a serial number is on one
\* completed sale, and while it has kept track of all of them a serial is sold if and
\* only if it is on one (CreateSale, FinalizeHeldSale, CreateRefundInvoice, VoidSale).
THEOREM SerialsSoldOnce == ShopSpec => []SerialSoldOnce
<1>1. ShopInv => SerialSoldOnce
  <2> SUFFICES ASSUME ShopInv PROVE SerialSoldOnce
    OBVIOUS
  <2>1. ASSUME NEW i \in Serials
        PROVE  {s \in Docs!Completed : sale[s].item = i /\ sale[s].qty > 0} = SoldBy(i)
    BY DEF SoldBy, Sells, Docs!Completed, Docs!Live, Docs!Rows
  <2>2. ASSUME NEW i \in Serials
        PROVE  Cardinality(SoldBy(i) \ disputed) <= 1
    <3>1. CASE SoldBy(i) \ disputed = {}
      BY <3>1, FS_EmptySet
    <3>2. CASE SoldBy(i) \ disputed # {}
      <4>1. PICK s : s \in SoldBy(i) \ disputed
        BY <3>2
      <4>2. SoldBy(i) \ disputed = {s}
        BY <4>1 DEF ShopInv, SerialsFollow
      <4> QED
        BY <4>2, FS_Singleton
    <3> QED
      BY <3>1, <3>2
  <2>3. ASSUME NEW i \in Serials
        PROVE  /\ SoldBy(i) # {} /\ disputed = {} => serial[i].status = "SOLD"
               /\ serial[i].status = "SOLD" => SoldBy(i) # {} \/ disputed # {}
    <3>1. disputed = {} => SoldBy(i) \ disputed = SoldBy(i)
      OBVIOUS
    <3> QED
      BY <3>1 DEF ShopInv, SerialsFollow
  <2> QED
    BY <2>1, <2>2, <2>3, SameCardinality DEF SerialSoldOnce, Docs!SerialSoldOnce
<1> QED
  BY <1>1, ShopInvariant, PTL

\* However many conversions, retries and crashes there were, a quote is sold once, and one
\* that no two requests met on keeps the head and the lines that were sold
\* (ConvertQuoteToSale, UpdateQuote, DeleteQuote).
THEOREM QuotesSoldAsTheyAre == ShopSpec => []QuoteSoldAsIs
<1>1. ShopInv => QuoteSoldAsIs
  <2> SUFFICES ASSUME ShopInv PROVE QuoteSoldAsIs
    OBVIOUS
  <2>1. ASSUME NEW q \in Quotes
        PROVE  Cardinality(sales[q]) <= 1
    <3>1. CASE sales[q] = {}
      BY <3>1, FS_EmptySet
    <3>2. CASE sales[q] # {}
      <4>1. PICK s : s \in sales[q]
        BY <3>2
      <4>2. sales[q] = {s}
        BY <4>1 DEF ShopInv, QuotesTyped
      <4>3. Cardinality({s}) = 1
        BY FS_Singleton
      <4> QED
        BY <4>2, <4>3
    <3> QED
      BY <3>1, <3>2
  <2>2. ASSUME NEW q \in Quotes, quote[q] # NoQuote, q \notin crossed
        PROVE  /\ quote[q].total = [head |-> quote[q].head, lines |-> lines[q]]
               /\ \A s \in sales[q] : <<s.head, s.lines>> = <<quote[q].head, lines[q]>>
    <3>1. AsSold(q)
      BY <2>2 DEF ShopInv, QuotesKept, KeptOf
    <3> QED
      BY <3>1 DEF AsSold
  <2> QED
    BY <2>1, <2>2, SameCardinality DEF QuoteSoldAsIs, Offers!QuoteSoldAsIs
<1> QED
  BY <1>1, ShopInvariant, PTL


----------------------------------------------------------------------------
(* The edit of a sale                                                      *)

\* Where a request is, by what it does.
StepFitsJob ==
  \A r \in Requests :
    /\ editing[r] = "none" <=> step[r] = "idle"
    /\ step[r] = "clear" => editing[r] = "edit"
    /\ editing[r] = "edit" => edition[r] > 1

EditUnderWay == \E r \in Requests : editing[r] = "edit"

\* Nothing runs beside an edit.
EditsAlone ==
  \A r, q \in Requests : editing[r] = "edit" /\ q # r => editing[q] = "none"

\* A request posts the amounts the sale has, and a line it has passed has them.
PostsCurrent ==
  \A r \in Requests :
    /\ step[r] \in {"post", "finish"} => amounts[r] = version
    /\ step[r] = "post" => \A i \in 1..PostedLines : i < line[r] => ledger[i] = version
    /\ step[r] = "finish" => \A i \in 1..PostedLines : ledger[i] = version

\* No line is of an older version once an edit has cleared them, and none is missing
\* once a posting has come to its end.
LinesCurrent ==
  /\ (\A r \in Requests : step[r] # "clear") => \A i \in 1..PostedLines : ledger[i] \in {0, version}
  /\ ~EditUnderWay /\ (row = "COMPLETED" \/ version > 1) =>
       \A i \in 1..PostedLines : ledger[i] = version

\* The register has had every change of cash but that of the edit under way.
CashCurrent ==
  /\ ~EditUnderWay => deltas = 2..version
  /\ \A r \in Requests : editing[r] = "edit" =>
       /\ edition[r] = version /\ version > 1
       /\ deltas = 2..(version - 1)

EditInv ==
  /\ Edit!TypeOK
  /\ StepFitsJob
  /\ ~disturbed => EditsAlone /\ PostsCurrent /\ LinesCurrent /\ CashCurrent

\* Every step leaves the sale, its books and the requests well-typed.
LEMMA EditTyped ==
  ASSUME Edit!EditConstants, Edit!TypeOK, StepFitsJob, [Edit!Next]_(Edit!vars)
  PROVE  Edit!TypeOK'
<1> USE DEF Edit!EditConstants, Edit!books, Edit!bounds, Edit!Goto, Edit!Begins, Edit!Done
<1>1. ASSUME NEW r \in Requests, Edit!OpenEdit(r) PROVE Edit!TypeOK'
  BY <1>1 DEF Edit!TypeOK, Edit!OpenEdit
<1>2. ASSUME NEW r \in Requests, Edit!CommitEdit(r) PROVE Edit!TypeOK'
  BY <1>2 DEF Edit!TypeOK, Edit!CommitEdit
<1>3. ASSUME NEW r \in Requests, Edit!StartWalk(r) \/ Edit!Repair(r) PROVE Edit!TypeOK'
  BY <1>3 DEF Edit!TypeOK, Edit!StartWalk, Edit!Repair, Edit!Walk
<1>4. ASSUME NEW r \in Requests, Edit!ClearLedger(r) PROVE Edit!TypeOK'
  BY <1>4 DEF Edit!TypeOK, Edit!ClearLedger
<1>5. ASSUME NEW r \in Requests, Edit!ReadSale(r) PROVE Edit!TypeOK'
  BY <1>5 DEF Edit!TypeOK, Edit!ReadSale
<1>6. ASSUME NEW r \in Requests, Edit!PostLine(r) PROVE Edit!TypeOK'
  <2>1. ledger' \in [1..PostedLines -> 0..MaxVersion]
    BY <1>6 DEF Edit!TypeOK, Edit!PostLine
  <2>2. line' \in [Requests -> 1..PostedLines]
    <3>1. line \in [Requests -> 1..PostedLines]
      BY DEF Edit!TypeOK
    <3>2. CASE line[r] < PostedLines
      <4>1. line' = [line EXCEPT ![r] = line[r] + 1] /\ line[r] + 1 \in 1..PostedLines
        BY <1>6, <3>1, <3>2 DEF Edit!PostLine
      <4>2. QED
        BY <3>1, <4>1
    <3>3. CASE ~(line[r] < PostedLines)
      BY <1>6, <3>1, <3>3 DEF Edit!PostLine
    <3>4. QED
      BY <3>2, <3>3
  <2>3. step' \in [Requests -> {"idle", "clear", "read", "post", "finish"}]
    BY <1>6 DEF Edit!TypeOK, Edit!PostLine
  <2>4. QED
    BY <1>6, <2>1, <2>2, <2>3 DEF Edit!TypeOK, Edit!PostLine
<1>7. ASSUME NEW r \in Requests, Edit!RecordCashDelta(r) PROVE Edit!TypeOK'
  <2>1. edition[r] \in 2..MaxVersion
    BY <1>7 DEF Edit!TypeOK, StepFitsJob, Edit!RecordCashDelta
  <2>2. QED
    BY <1>7, <2>1 DEF Edit!TypeOK, Edit!RecordCashDelta
<1>8. ASSUME NEW r \in Requests, Edit!FinishWalk(r) \/ Edit!StatementError(r) PROVE Edit!TypeOK'
  <2>1. CASE Edit!FinishWalk(r)
    BY <2>1 DEF Edit!TypeOK, Edit!FinishWalk
  <2>2. CASE Edit!StatementError(r)
    BY <2>2 DEF Edit!TypeOK, Edit!StatementError
  <2>3. QED
    BY <1>8, <2>1, <2>2
<1>9. CASE Edit!Crash
  BY <1>9 DEF Edit!TypeOK, Edit!Crash
<1>10. CASE UNCHANGED Edit!vars
  BY <1>10 DEF Edit!TypeOK, Edit!vars, Edit!requests
<1>11. QED
  BY <1>1, <1>2, <1>3, <1>4, <1>5, <1>6, <1>7, <1>8, <1>9, <1>10 DEF Edit!Next, Edit!Progress

LEMMA StepFitsJobStays ==
  ASSUME Edit!EditConstants, Edit!TypeOK, StepFitsJob, [Edit!Next]_(Edit!vars)
  PROVE  StepFitsJob'
<1> USE DEF Edit!EditConstants, Edit!books, Edit!bounds, Edit!Goto, Edit!Begins, Edit!Done
<1>1. ASSUME NEW r \in Requests, Edit!OpenEdit(r) PROVE StepFitsJob'
  BY <1>1 DEF Edit!TypeOK, StepFitsJob, Edit!OpenEdit
<1>2. ASSUME NEW r \in Requests, Edit!CommitEdit(r) PROVE StepFitsJob'
  BY <1>2 DEF Edit!TypeOK, StepFitsJob, Edit!CommitEdit
<1>3. ASSUME NEW r \in Requests, Edit!StartWalk(r) \/ Edit!Repair(r) PROVE StepFitsJob'
  BY <1>3 DEF Edit!TypeOK, StepFitsJob, Edit!StartWalk, Edit!Repair, Edit!Walk
<1>4. ASSUME NEW r \in Requests, Edit!ClearLedger(r) \/ Edit!ReadSale(r) \/ Edit!PostLine(r)
      PROVE  StepFitsJob'
  BY <1>4 DEF Edit!TypeOK, StepFitsJob, Edit!ClearLedger, Edit!ReadSale, Edit!PostLine
<1>5. ASSUME NEW r \in Requests, Edit!RecordCashDelta(r) \/ Edit!FinishWalk(r) \/ Edit!StatementError(r)
      PROVE  StepFitsJob'
  BY <1>5 DEF Edit!TypeOK, StepFitsJob, Edit!RecordCashDelta, Edit!FinishWalk, Edit!StatementError
<1>6. CASE Edit!Crash \/ UNCHANGED Edit!vars
  BY <1>6 DEF Edit!TypeOK, StepFitsJob, Edit!Crash, Edit!vars, Edit!requests
<1>7. QED
  BY <1>1, <1>2, <1>3, <1>4, <1>5, <1>6 DEF Edit!Next, Edit!Progress

\* What a step leaves to claim, once an edit failed or ran beside another request.
Current == EditsAlone /\ PostsCurrent /\ LinesCurrent /\ CashCurrent

\* An edit begins alone, or the claim ends.
LEMMA CommitEditCurrent ==
  ASSUME Edit!EditConstants, EditInv, ~disturbed', NEW r \in Requests, Edit!CommitEdit(r)
  PROVE  Current'
<1> USE DEF Edit!EditConstants, Edit!books, Edit!bounds, Edit!Goto, Edit!Begins
<1>1. Edit!TypeOK /\ StepFitsJob /\ Current
  BY DEF EditInv, Edit!CommitEdit, Edit!TypeOK, Current
<1>2. \A q \in Requests : editing[q] = "none" /\ step[q] = "idle"
  BY <1>1 DEF Edit!CommitEdit, Edit!TypeOK, StepFitsJob
<1>3. /\ \A q \in Requests : q # r => editing'[q] = "none" /\ step'[q] = "idle"
      /\ editing'[r] = "edit" /\ step'[r] = "clear"
  BY <1>1, <1>2 DEF Edit!CommitEdit, Edit!TypeOK
<1>4. EditsAlone' /\ PostsCurrent'
  BY <1>3 DEF EditsAlone, PostsCurrent
<1>5. LinesCurrent'
  BY <1>3 DEF LinesCurrent, EditUnderWay
<1>6. CashCurrent'
  <2>1. deltas' = 2..version /\ version' = version + 1 /\ edition'[r] = version + 1
    BY <1>1, <1>2 DEF Edit!CommitEdit, Edit!TypeOK, Current, CashCurrent, EditUnderWay
  <2>2. version' > 1 /\ version' - 1 = version
    BY <1>1, <2>1 DEF Edit!TypeOK
  <2>3. \A q \in Requests : editing'[q] = "edit" <=> q = r
    BY <1>3
  <2>4. QED
    BY <2>1, <2>2, <2>3 DEF CashCurrent, EditUnderWay
<1>7. QED
  BY <1>4, <1>5, <1>6 DEF Current

\* A walk begins beside walks only.
LEMMA WalkCurrent ==
  ASSUME Edit!EditConstants, EditInv, ~disturbed', NEW r \in Requests, step[r] = "idle",
         row # "COMPLETED", Edit!Walk(r)
  PROVE  Current'
<1> USE DEF Edit!EditConstants, Edit!books, Edit!bounds, Edit!Goto, Edit!Begins
<1>1. Edit!TypeOK /\ StepFitsJob /\ Current
  BY DEF EditInv, Edit!Walk, Edit!TypeOK, Current
<1>2. \A q \in Requests : editing[q] # "edit" /\ editing'[q] # "edit"
  BY <1>1 DEF Edit!Walk, Edit!TypeOK, StepFitsJob
<1>3. \A q \in Requests : step'[q] = IF q = r THEN "read" ELSE step[q]
  BY <1>1 DEF Edit!Walk, Edit!TypeOK
<1>4. UNCHANGED <<version, ledger, deltas, edition, amounts, line>> /\ row' = "PROCESSING"
  BY DEF Edit!Walk
<1>5. EditsAlone'
  BY <1>2 DEF EditsAlone
<1>6. PostsCurrent'
  BY <1>1, <1>3, <1>4 DEF Current, PostsCurrent
<1>7. LinesCurrent'
  BY <1>1, <1>2, <1>3, <1>4 DEF Current, LinesCurrent, EditUnderWay, StepFitsJob
<1>8. CashCurrent'
  BY <1>1, <1>2, <1>4 DEF Current, CashCurrent, EditUnderWay
<1>9. QED
  BY <1>5, <1>6, <1>7, <1>8 DEF Current

\* DELETE and RecordSale's reads and writes, of an edit or a walk.
LEMMA PostingCurrent ==
  ASSUME Edit!EditConstants, EditInv, ~disturbed', NEW r \in Requests,
         Edit!ClearLedger(r) \/ Edit!ReadSale(r) \/ Edit!PostLine(r)
  PROVE  Current'
<1> USE DEF Edit!EditConstants, Edit!books, Edit!bounds, Edit!Goto
<1>1. Edit!TypeOK /\ StepFitsJob /\ Current
  BY DEF EditInv, Edit!ClearLedger, Edit!ReadSale, Edit!PostLine, Current
<1>2. UNCHANGED <<version, row, deltas, edition, editing>>
  BY DEF Edit!ClearLedger, Edit!ReadSale, Edit!PostLine
<1>3. EditsAlone' /\ CashCurrent'
  BY <1>1, <1>2 DEF Current, EditsAlone, CashCurrent, EditUnderWay
<1>4. CASE Edit!ClearLedger(r)
  <2>1. \A q \in Requests : q # r => step[q] = "idle" /\ step'[q] = "idle"
    BY <1>1, <1>4 DEF Edit!ClearLedger, Edit!TypeOK, StepFitsJob, Current, EditsAlone
  <2>2. step'[r] = "read" /\ EditUnderWay' /\ ledger' = [i \in 1..PostedLines |-> 0]
    BY <1>1, <1>2, <1>4 DEF Edit!ClearLedger, Edit!TypeOK, StepFitsJob, EditUnderWay
  <2>3. PostsCurrent'
    BY <2>1, <2>2 DEF PostsCurrent
  <2>4. LinesCurrent'
    BY <2>2 DEF LinesCurrent
  <2>5. QED
    BY <1>3, <2>3, <2>4 DEF Current
<1>5. CASE Edit!ReadSale(r)
  <2>1. /\ UNCHANGED ledger /\ step[r] = "read"
        /\ \A q \in Requests : q # r =>
             step'[q] = step[q] /\ amounts'[q] = amounts[q] /\ line'[q] = line[q]
        /\ step'[r] = "post" /\ amounts'[r] = version /\ line'[r] = 1
    BY <1>1, <1>5 DEF Edit!ReadSale, Edit!TypeOK
  <2>2. PostsCurrent'
    BY <1>1, <1>2, <2>1 DEF Current, PostsCurrent
  <2>3. LinesCurrent'
    BY <1>1, <1>2, <2>1 DEF Current, LinesCurrent, EditUnderWay
  <2>4. QED
    BY <1>3, <2>2, <2>3 DEF Current
<1>6. CASE Edit!PostLine(r)
  <2>1. \A q \in Requests : step[q] # "clear"
    BY <1>1, <1>6 DEF Edit!PostLine, StepFitsJob, Current, EditsAlone
  <2>2. /\ step[r] = "post" /\ amounts[r] = version /\ line[r] \in 1..PostedLines
        /\ version \in 1..MaxVersion /\ ledger \in [1..PostedLines -> 0..MaxVersion]
        /\ \A i \in 1..PostedLines : ledger[i] \in {0, version}
    BY <1>1, <1>6, <2>1 DEF Edit!PostLine, Edit!TypeOK, Current, PostsCurrent, LinesCurrent
  <2>3. /\ ledger'[line[r]] = version
        /\ \A i \in 1..PostedLines : ledger'[i] = ledger[i] \/ ledger'[i] = version
    BY <1>6, <2>2 DEF Edit!PostLine
  <2>4. \A i \in 1..PostedLines : ledger'[i] \in {0, version}
    BY <2>2, <2>3
  <2>5. \A i \in 1..PostedLines : ledger[i] = version => ledger'[i] = version
    BY <2>3
  <2>6. \A i \in 1..PostedLines : i <= line[r] => ledger'[i] = version
    <3>1. \A i \in 1..PostedLines : i < line[r] => ledger[i] = version
      BY <1>1, <2>2 DEF Current, PostsCurrent
    <3>2. QED
      BY <2>2, <2>3, <2>5, <3>1
  <2>7. \A q \in Requests : q # r =>
          step'[q] = step[q] /\ amounts'[q] = amounts[q] /\ line'[q] = line[q]
    BY <1>1, <1>6 DEF Edit!PostLine, Edit!TypeOK
  <2>8. \/ step'[r] = "post" /\ line'[r] = line[r] + 1
        \/ step'[r] = "finish" /\ line[r] = PostedLines
    BY <1>1, <1>6, <2>2 DEF Edit!PostLine, Edit!TypeOK
  <2>9. PostsCurrent'
    <3>1. ASSUME NEW q \in Requests
          PROVE  /\ step'[q] \in {"post", "finish"} => amounts'[q] = version
                 /\ step'[q] = "post" => \A i \in 1..PostedLines : i < line'[q] => ledger'[i] = version
                 /\ step'[q] = "finish" => \A i \in 1..PostedLines : ledger'[i] = version
      <4>1. CASE q # r
        BY <1>1, <2>5, <2>7, <4>1 DEF Current, PostsCurrent
      <4>2. CASE q = r
        <5>1. amounts'[r] = version
          BY <1>6, <2>2 DEF Edit!PostLine
        <5>2. QED
          BY <2>2, <2>6, <2>8, <4>2, <5>1
      <4>3. QED
        BY <4>1, <4>2
    <3>2. QED
      BY <1>2, <3>1 DEF PostsCurrent
  <2>10. LinesCurrent'
    BY <1>1, <1>2, <2>4, <2>5 DEF Current, LinesCurrent, EditUnderWay
  <2>11. QED
    BY <1>3, <2>9, <2>10 DEF Current
<1>7. QED
  BY <1>4, <1>5, <1>6

\* A request comes to its end, and its lines are all there.
LEMMA FinishCurrent ==
  ASSUME Edit!EditConstants, EditInv, ~disturbed', NEW r \in Requests,
         Edit!RecordCashDelta(r) \/ Edit!FinishWalk(r)
  PROVE  Current'
<1> USE DEF Edit!EditConstants, Edit!books, Edit!bounds, Edit!Goto, Edit!Done
<1>1. Edit!TypeOK /\ StepFitsJob /\ Current
  BY DEF EditInv, Edit!RecordCashDelta, Edit!FinishWalk, Current
<1>2. /\ \A q \in Requests : q # r => editing'[q] = editing[q] /\ step'[q] = step[q]
      /\ editing'[r] = "none" /\ step'[r] = "idle" /\ step[r] = "finish"
      /\ UNCHANGED <<version, ledger, edition, amounts, line>>
  BY <1>1 DEF Edit!RecordCashDelta, Edit!FinishWalk, Edit!TypeOK
<1>3. EditsAlone' /\ PostsCurrent'
  BY <1>1, <1>2 DEF Current, EditsAlone, PostsCurrent
<1>4. \A i \in 1..PostedLines : ledger[i] = version
  BY <1>1, <1>2 DEF Current, PostsCurrent
<1>5. LinesCurrent'
  BY <1>2, <1>4 DEF LinesCurrent
<1>6. CashCurrent'
  <2>1. CASE Edit!RecordCashDelta(r)
    <3>1. \A q \in Requests : editing'[q] # "edit"
      BY <1>1, <1>2, <2>1 DEF Edit!RecordCashDelta, Current, EditsAlone
    <3>2. deltas' = (2..(version - 1)) \cup {version} /\ version \in 2..MaxVersion
      BY <1>1, <2>1 DEF Edit!RecordCashDelta, Current, CashCurrent, Edit!TypeOK
    <3>3. deltas' = 2..version
      BY <3>2
    <3>4. QED
      BY <1>2, <3>1, <3>3 DEF CashCurrent
  <2>2. CASE Edit!FinishWalk(r)
    <3>1. UNCHANGED deltas /\ (\A q \in Requests : editing'[q] = "edit" <=> editing[q] = "edit")
      BY <1>2, <2>2 DEF Edit!FinishWalk
    <3>2. QED
      BY <1>1, <1>2, <3>1 DEF Current, CashCurrent, EditUnderWay
  <2>3. QED
    BY <2>1, <2>2
<1>7. QED
  BY <1>3, <1>5, <1>6 DEF Current

\* A walk that fails, or the end of the process while no edit is under way.
LEMMA FailureCurrent ==
  ASSUME Edit!EditConstants, EditInv, ~disturbed',
         Edit!Crash \/ \E r \in Requests : Edit!StatementError(r)
  PROVE  Current'
<1> USE DEF Edit!EditConstants, Edit!books, Edit!bounds, Edit!Goto, Edit!Done
<1>1. Edit!TypeOK /\ StepFitsJob /\ Current
  BY DEF EditInv, Edit!Crash, Edit!StatementError, Edit!TypeOK, Current
<1>2. /\ \A q \in Requests : step'[q] = step[q] \/ (step'[q] = "idle" /\ editing'[q] = "none")
      /\ \A q \in Requests : editing[q] # "edit" \/ editing'[q] = "edit"
      /\ \A q \in Requests : editing'[q] \in {editing[q], "none"}
      /\ UNCHANGED <<version, ledger, deltas, edition, amounts, line>>
      /\ row' \in {row, "FAILED"}
  <2>1. CASE Edit!Crash
    BY <1>1, <2>1 DEF Edit!Crash, Edit!TypeOK
  <2>2. ASSUME NEW r \in Requests, Edit!StatementError(r)
        PROVE  /\ \A q \in Requests : step'[q] = step[q] \/ (step'[q] = "idle" /\ editing'[q] = "none")
               /\ \A q \in Requests : editing[q] # "edit" \/ editing'[q] = "edit"
               /\ \A q \in Requests : editing'[q] \in {editing[q], "none"}
               /\ UNCHANGED <<version, ledger, deltas, edition, amounts, line>>
               /\ row' \in {row, "FAILED"}
    BY <1>1, <2>2 DEF Edit!StatementError, Edit!TypeOK
  <2>3. QED
    BY <2>1, <2>2
<1>3. EditsAlone' /\ PostsCurrent'
  BY <1>1, <1>2 DEF Current, EditsAlone, PostsCurrent
<1>4. \A q \in Requests : step[q] = "clear" => step'[q] = "clear"
  BY <1>1, <1>2 DEF StepFitsJob
<1>5. LinesCurrent' /\ CashCurrent'
  BY <1>1, <1>2, <1>4 DEF Current, LinesCurrent, CashCurrent, EditUnderWay
<1>6. QED
  BY <1>3, <1>5 DEF Current

LEMMA EditStarts == ASSUME Edit!EditConstants, Edit!Init PROVE EditInv
<1>1. Edit!TypeOK
  <2>1. 1 \in 1..PostedLines /\ 1 \in 1..MaxVersion /\ 0 \in 0..MaxVersion /\ 0 \in 0..MaxFaults
    BY DEF Edit!EditConstants
  <2>2. QED
    BY <2>1 DEF Edit!Init, Edit!TypeOK
<1>2. \A r \in Requests : step[r] = "idle" /\ editing[r] = "none"
  BY DEF Edit!Init
<1>3. \A i \in 1..PostedLines : ledger[i] = 0
  BY DEF Edit!Init
<1>4. deltas = 2..version
  BY DEF Edit!Init
<1>5. QED
  BY <1>1, <1>2, <1>3, <1>4 DEF Edit!Init, EditInv, StepFitsJob, EditsAlone, PostsCurrent,
     LinesCurrent, CashCurrent, EditUnderWay

LEMMA EditKeeps ==
  ASSUME Edit!EditConstants, EditInv, [Edit!Next]_(Edit!vars)
  PROVE  EditInv'
<1>1. Edit!TypeOK' /\ StepFitsJob'
  BY EditTyped, StepFitsJobStays DEF EditInv
<1>2. ASSUME ~disturbed' PROVE Current'
  <2>1. ASSUME NEW r \in Requests, Edit!OpenEdit(r) PROVE Current'
    <3>1. ~disturbed /\ step[r] = "idle" /\ \A q \in Requests : q # r => edition'[q] = edition[q]
      BY <1>2, <2>1 DEF Edit!OpenEdit, Edit!bounds, EditInv, Edit!TypeOK
    <3>2. UNCHANGED <<version, Edit!books, editing, step, amounts, line>>
      BY <2>1 DEF Edit!OpenEdit
    <3>3. QED
      BY <3>1, <3>2 DEF EditInv, Current, StepFitsJob, EditsAlone, PostsCurrent,
         LinesCurrent, CashCurrent, EditUnderWay, Edit!books
  <2>2. ASSUME NEW r \in Requests, Edit!StartWalk(r) \/ Edit!Repair(r) PROVE Current'
    BY <1>2, <2>2, WalkCurrent DEF Edit!StartWalk, Edit!Repair, Edit!Retryable
  <2>3. CASE UNCHANGED Edit!vars
    BY <1>2, <2>3 DEF Edit!vars, Edit!books, Edit!requests, Edit!bounds, EditInv, Current, EditsAlone,
       PostsCurrent, LinesCurrent, CashCurrent, EditUnderWay
  <2>4. QED
    BY <1>2, <2>1, <2>2, <2>3, CommitEditCurrent, PostingCurrent, FinishCurrent,
       FailureCurrent DEF Edit!Next, Edit!Progress
<1>3. QED
  BY <1>1, <1>2 DEF EditInv, Current

\* Only an edit makes a claim end, and it makes a new version first.
EditsAreVersions == disturbed \/ EditUnderWay => version > 1

LEMMA EditsAreVersionsStays ==
  ASSUME Edit!EditConstants, EditInv, EditsAreVersions, [Edit!Next]_(Edit!vars)
  PROVE  EditsAreVersions'
<1> USE DEF Edit!EditConstants, Edit!books, Edit!bounds, Edit!Goto, Edit!Begins, Edit!Done
<1>1. Edit!TypeOK /\ StepFitsJob /\ version \in Nat
  BY DEF EditInv, Edit!TypeOK
<1>2. ASSUME NEW r \in Requests, Edit!CommitEdit(r) PROVE version' > 1
  BY <1>1, <1>2 DEF Edit!CommitEdit, Edit!TypeOK
<1>3. ASSUME NEW r \in Requests, Edit!StartWalk(r) \/ Edit!Repair(r) PROVE EditsAreVersions'
  <2>1. version' = version /\ \A q \in Requests : editing'[q] = "edit" => editing[q] = "edit"
    BY <1>1, <1>3 DEF Edit!StartWalk, Edit!Repair, Edit!Walk, Edit!TypeOK
  <2>2. disturbed' => disturbed \/ EditUnderWay
    BY <1>1, <1>3 DEF Edit!StartWalk, Edit!Repair, Edit!Walk, EditUnderWay
  <2>3. QED
    BY <2>1, <2>2 DEF EditsAreVersions, EditUnderWay
<1>4. ASSUME NEW r \in Requests, Edit!OpenEdit(r) \/ Edit!Progress(r) \/ Edit!StatementError(r)
      PROVE  /\ version' = version /\ (disturbed' => disturbed \/ editing[r] = "edit")
             /\ \A q \in Requests : editing'[q] = "edit" => editing[q] = "edit"
  BY <1>1, <1>4 DEF Edit!OpenEdit, Edit!Progress, Edit!ClearLedger, Edit!ReadSale, Edit!PostLine, Edit!RecordCashDelta,
                    Edit!FinishWalk, Edit!StatementError, Edit!TypeOK
<1>5. CASE Edit!Crash
  BY <1>1, <1>5 DEF Edit!Crash, EditsAreVersions, EditUnderWay, Edit!TypeOK
<1>6. CASE UNCHANGED Edit!vars
  BY <1>6 DEF Edit!vars, Edit!requests, EditsAreVersions, EditUnderWay
<1>7. QED
  BY <1>2, <1>3, <1>4, <1>5, <1>6 DEF Edit!Next, EditsAreVersions, EditUnderWay

\* A step of the shop is one of the edit, or leaves it alone.
LEMMA EditSteps == ASSUME [ShopNext]_ShopVars PROVE [Edit!Next]_(Edit!vars)
<1>1. CASE UNCHANGED edit
  BY <1>1 DEF edit, Edit!vars, Edit!books, Edit!requests, Edit!bounds
<1>2. QED
  BY <1>1 DEF ShopNext, ShopVars

\* A completed row stands for a whole posting as long as no edit has deleted lines,
\* whatever failed and however many walks overlapped. And while each edit ran alone and
\* to its end, the quiet system has every ledger line of the sale from the amounts it has
\* now, and the register every change of cash, however many edits and walks of the outbox
\* there were (RecordSale, CommitEdit to RecordCashDelta, FinishWalk).
THEOREM BooksFollowSales == ShopSpec => []BooksFollowSale
<1> USE ShopConstants DEF ShopConstants
<1>1. ShopInit => EditInv /\ EditsAreVersions
  <2> SUFFICES ASSUME Edit!Init PROVE EditInv /\ EditsAreVersions
    BY DEF ShopInit
  <2>1. QED
    BY EditStarts DEF Edit!Init, EditsAreVersions, EditUnderWay
<1>2. /\ EditInv /\ [ShopNext]_ShopVars => EditInv'
      /\ EditInv /\ EditsAreVersions /\ [ShopNext]_ShopVars => EditsAreVersions'
  BY EditSteps, EditKeeps, EditsAreVersionsStays
<1>3. EditInv /\ EditsAreVersions => BooksFollowSale
  <2>1. ASSUME EditInv PROVE Edit!BooksFollowSale
    <3> SUFFICES ASSUME Edit!Quiet, ~disturbed PROVE Edit!BooksFollowSale
      BY DEF Edit!BooksFollowSale
    <3>1. ~EditUnderWay
      BY <2>1 DEF EditInv, StepFitsJob, Edit!Quiet, EditUnderWay
    <3>2. QED
      BY <2>1, <3>1 DEF EditInv, LinesCurrent, CashCurrent, Edit!BooksFollowSale
  <2>2. ASSUME EditInv, EditsAreVersions PROVE Edit!UneditedIsWhole
    <3> SUFFICES ASSUME version = 1, row = "COMPLETED"
                 PROVE  \A i \in 1..PostedLines : ledger[i] = 1
      BY DEF Edit!UneditedIsWhole
    <3>1. ~disturbed /\ ~EditUnderWay
      BY <2>2 DEF EditsAreVersions
    <3>2. QED
      BY <2>2, <3>1 DEF EditInv, LinesCurrent
  <2>3. QED
    BY <2>1, <2>2 DEF BooksFollowSale
<1>4. QED
  BY <1>1, <1>2, <1>3, PTL DEF ShopSpec, ShopVars
----------------------------------------------------------------------------
(* Stock on shelves and on the road                                        *)

\* What a transfer has on the road of v.
OnRoad(rows, v) ==
  [t \in Transfers |->
     IF rows[t] # NoTransfer /\ rows[t].status = "IN_TRANSIT"
        /\ Transport!VariantOf(rows[t].item) = v
     THEN rows[t].qty ELSE 0]

\* What a place has of v.
AtPlace(balance, v) == [l \in Locations |-> balance[<<l, v>>]]

LEMMA TablesFinite ==
  IsFiniteSet(Transfers) /\ IsFiniteSet(Locations) /\ IsFiniteSet(Shelf) /\ IsFiniteSet(Sales)
<1>1. IsFiniteSet(Transfers)
  BY ShopConstants DEF Transport!InventoryConstants, Transport!IsFiniteSet, IsFiniteSet
<1>2. IsFiniteSet(Sales)
  BY ShopConstants DEF Docs!SaleConstants, Docs!IsFiniteSet, IsFiniteSet
<1>3. QED
  BY <1>1, <1>2, StockConstants, ShopConstants, FS_Subset

LEMMA ShelfSum ==
  ASSUME NEW balance, NEW v, NEW W, IsFiniteSet(W), W \subseteq Locations
  PROVE  /\ Transport!MapThenSumSet(LAMBDA l : balance[<<l, v>>], W) = SumOf(AtPlace(balance, v), W)
         /\ Docs!MapThenSumSet(LAMBDA l : balance[<<l, v>>], W) = SumOf(AtPlace(balance, v), W)
<1> DEFINE f == AtPlace(balance, v)
           Step(g, S) == IF S = {} THEN 0
             ELSE balance[<<CHOOSE s \in S : TRUE, v>>] + g[S \ {CHOOSE s \in S : TRUE}]
           first == Transport!MapThenSumSet(LAMBDA l : balance[<<l, v>>], W)
           second == Docs!MapThenSumSet(LAMBDA l : balance[<<l, v>>], W)
<1>1. PICK g : Adds(g, f, W)
  BY AddsExists
<1>2. \A l \in W : f[l] = balance[<<l, v>>]
  BY DEF AtPlace
<1> HIDE DEF f
<1>3. g = [S \in SUBSET W |-> Step(g, S)]
  BY <1>1, <1>2, OneLess DEF Adds, Chosen
<1>4. PICK h : h = [S \in SUBSET W |-> Step(h, S)] /\ first = h[W]
  BY <1>3 DEF Transport!MapThenSumSet, Transport!MapThenFoldSet
<1>5. PICK k : k = [S \in SUBSET W |-> Step(k, S)] /\ second = k[W]
  BY <1>3 DEF Docs!MapThenSumSet, Docs!MapThenFoldSet
<1> HIDE DEF first, second
<1>6. ASSUME NEW d, d = [S \in SUBSET W |-> Step(d, S)]
      PROVE  Adds(d, f, W)
  <2>1. ASSUME NEW S \in SUBSET W
        PROVE  d[S] = IF S = {} THEN 0 ELSE f[Chosen(S)] + d[S \ {Chosen(S)}]
    <3>1. d[S] = Step(d, S)
      BY <1>6
    <3>2. S # {} => f[Chosen(S)] = balance[<<Chosen(S), v>>]
      BY <1>2, OneLess
    <3>3. QED
      BY <3>1, <3>2 DEF Chosen
  <2>2. d = [S \in SUBSET W |-> d[S]]
    BY <1>6
  <2>3. QED
    BY <2>1, <2>2 DEF Adds
<1>7. first = SumOf(f, W)
  BY <1>4, <1>6, SumIs
<1>8. second = SumOf(f, W)
  BY <1>5, <1>6, SumIs
<1>9. QED
  BY <1>7, <1>8 DEF first, second, f

\* A balance that changes at one place changes what there is of its variant.
LEMMA BalanceMoves ==
  ASSUME NEW old \in [Places -> Int], NEW W, IsFiniteSet(W), W \subseteq Locations,
         NEW l \in W, NEW u \in Variants, NEW n \in Int, NEW new,
         \A k \in Places : new[k] = IF k = <<l, u>> THEN old[k] + n ELSE old[k],
         NEW v \in Variants
  PROVE  SumOf(AtPlace(new, v), W) = SumOf(AtPlace(old, v), W) + (IF u = v THEN n ELSE 0)
<1> DEFINE f == AtPlace(old, v)
           g == AtPlace(new, v)
           more == IF u = v THEN n ELSE 0
<1>1. more \in Int
  OBVIOUS
<1>2. ASSUME NEW m \in W
      PROVE  /\ f[m] \in Int /\ g[m] \in Int
             /\ m # l => g[m] = f[m]
             /\ m = l => g[m] = f[m] + more
  <2>1. <<m, v>> \in Places /\ old[<<m, v>>] \in Int
    BY DEF Places
  <2>2. f[m] = old[<<m, v>>] /\ g[m] = new[<<m, v>>]
    BY DEF AtPlace
  <2>3. new[<<m, v>>] = IF <<m, v>> = <<l, u>> THEN old[<<m, v>>] + n ELSE old[<<m, v>>]
    BY <2>1
  <2> HIDE DEF f, g
  <2>4. QED
    BY <2>1, <2>2, <2>3
<1> HIDE DEF f, g, more
<1>3. SumOf(f, W) \in Int /\ f[l] \in Int
  BY <1>2, SumType
<1>4. \A m \in W : f[m] \in Int /\ g[m] \in Int
  BY <1>2
<1>5. \A m \in W \ {l} : f[m] = g[m]
  BY <1>2
<1>6. SumOf(g, W) = SumOf(f, W) + g[l] - f[l]
  BY <1>4, <1>5, SumChange
<1>7. g[l] = f[l] + more
  BY <1>2
<1>8. SumOf(g, W) = SumOf(f, W) + more
  BY <1>1, <1>3, <1>6, <1>7
<1>9. QED
  BY <1>8 DEF f, g, more

LEMMA ShelvesTyped ==
  ASSUME NEW old \in [Places -> Int], NEW W, IsFiniteSet(W), W \subseteq Locations,
         NEW v \in Variants
  PROVE  SumOf(AtPlace(old, v), W) \in Int
<1>1. \A l \in W : AtPlace(old, v)[l] \in Int
  BY DEF AtPlace, Places
<1>2. QED
  BY <1>1, SumType

LEMMA RoadIs ==
  ASSUME NEW rows, \A t \in Transfers : rows[t] # NoTransfer => rows[t].qty \in Int, NEW v
  PROVE  Transport!MapThenSumSet(LAMBDA t :
           IF Transport!VariantOf(rows[t].item) = v THEN rows[t].qty ELSE 0,
           {t \in Transfers : rows[t] # NoTransfer /\ rows[t].status = "IN_TRANSIT"})
         = SumOf(OnRoad(rows, v), Transfers)
<1> DEFINE W == {t \in Transfers : rows[t] # NoTransfer /\ rows[t].status = "IN_TRANSIT"}
           body(t) == IF Transport!VariantOf(rows[t].item) = v THEN rows[t].qty ELSE 0
           f == [t \in Transfers |-> body(t)]
           Step(g, S) == IF S = {} THEN 0
             ELSE body(CHOOSE s \in S : TRUE) + g[S \ {CHOOSE s \in S : TRUE}]
           sum == Transport!MapThenSumSet(LAMBDA t :
             IF Transport!VariantOf(rows[t].item) = v THEN rows[t].qty ELSE 0, W)
<1>1. W \in SUBSET Transfers /\ \A t \in W : f[t] \in Int /\ f[t] = body(t)
  <2>1. W \in SUBSET Transfers
    OBVIOUS
  <2>2. \A t \in W : f[t] = body(t)
    OBVIOUS
  <2>3. \A t \in W : body(t) \in Int
    OBVIOUS
  <2> HIDE DEF f, body, W
  <2>4. QED
    BY <2>1, <2>2, <2>3
<1>2. OnRoad(rows, v) = Within(f, W, Transfers)
  <2>1. ASSUME NEW t \in Transfers
        PROVE  OnRoad(rows, v)[t] = IF t \in W THEN f[t] ELSE 0
    BY DEF OnRoad
  <2>2. OnRoad(rows, v) = [t \in Transfers |-> OnRoad(rows, v)[t]]
    BY DEF OnRoad
  <2> HIDE DEF W, f
  <2>3. QED
    BY <2>1, <2>2 DEF Within
<1> HIDE DEF f, body, W
<1>3. IsFiniteSet(W)
  BY <1>1, TablesFinite, FS_Subset
<1>4. PICK g : Adds(g, f, W)
  BY <1>3, AddsExists
<1>5. g = [S \in SUBSET W |-> Step(g, S)]
  BY <1>1, <1>4, OneLess DEF Adds, Chosen
<1>6. PICK h : h = [S \in SUBSET W |-> Step(h, S)] /\ sum = h[W]
  BY <1>5 DEF Transport!MapThenSumSet, Transport!MapThenFoldSet, body
<1> HIDE DEF sum
<1>7. Adds(h, f, W)
  <2>1. ASSUME NEW S \in SUBSET W
        PROVE  h[S] = IF S = {} THEN 0 ELSE f[Chosen(S)] + h[S \ {Chosen(S)}]
    <3>1. h[S] = Step(h, S)
      BY <1>6
    <3>2. S # {} => f[Chosen(S)] = body(Chosen(S))
      BY <1>1, OneLess
    <3>3. QED
      BY <3>1, <3>2 DEF Chosen
  <2>2. h = [S \in SUBSET W |-> h[S]]
    BY <1>6
  <2>3. QED
    BY <2>1, <2>2 DEF Adds
<1>8. sum = SumOf(f, W)
  BY <1>3, <1>6, <1>7, SumIs
<1>9. SumOf(f, W) = SumOf(Within(f, W, Transfers), Transfers)
  BY <1>1, TablesFinite, SumPart
<1>10. sum = SumOf(OnRoad(rows, v), Transfers)
  BY <1>2, <1>8, <1>9
<1>11. QED
  BY <1>10 DEF sum, W

LEMMA TransportSums ==
  ASSUME NEW v, TransfersTyped
  PROVE  /\ Transport!InTransit(v) = SumOf(OnRoad(transfer, v), Transfers)
         /\ Transport!OnShelves(v) = SumOf(AtPlace(onHand, v), Locations)
<1>1. \A t \in Transfers : transfer[t] # NoTransfer => transfer[t].qty \in Int
  BY ShopConstants DEF TransfersTyped, Transport!TransferRecord, Transport!InventoryConstants
<1>2. Transport!InTransit(v) = Transport!MapThenSumSet(LAMBDA t :
        IF Transport!VariantOf(transfer[t].item) = v THEN transfer[t].qty ELSE 0,
        {t \in Transfers : transfer[t] # NoTransfer /\ transfer[t].status = "IN_TRANSIT"})
  BY DEF Transport!InTransit, Transport!Shipped, Transport!MapThenSumSet, Transport!MapThenFoldSet
<1>3. Transport!InTransit(v) = SumOf(OnRoad(transfer, v), Transfers)
  BY <1>1, <1>2, RoadIs
<1>4. Transport!OnShelves(v) = Transport!MapThenSumSet(LAMBDA l : onHand[<<l, v>>], Locations)
  BY DEF Transport!OnShelves, Transport!MapThenSumSet, Transport!MapThenFoldSet
<1>5. Transport!OnShelves(v) = SumOf(AtPlace(onHand, v), Locations)
  BY <1>4, TablesFinite, ShelfSum
<1>6. QED
  BY <1>3, <1>5

\* What the two operations change on the shelves of some places.
LEMMA IssueMoves ==
  ASSUME StockTypeOK, NEW W, IsFiniteSet(W), W \subseteq Locations, NEW l \in W,
         NEW i \in Items, NEW q \in Int, NEW status, Issue(l, i, q, status)
  PROVE  \A v \in Variants : SumOf(AtPlace(onHand', v), W)
           = SumOf(AtPlace(onHand, v), W) - (IF VariantOf(i) = v THEN q ELSE 0)
<1> DEFINE u == VariantOf(i)
<1>1. u \in Variants /\ l \in Locations
  BY DEF VariantOf, Variants, Items
<1>2. \A k \in Places : onHand'[k] = IF k = <<l, u>> THEN onHand[k] + (-q) ELSE onHand[k]
  BY <1>1 DEF StockTypeOK, Issue
<1>3. onHand \in [Places -> Int] /\ -q \in Int
  BY DEF StockTypeOK
<1> HIDE DEF u
<1>4. ASSUME NEW v \in Variants
      PROVE  SumOf(AtPlace(onHand', v), W)
               = SumOf(AtPlace(onHand, v), W) - (IF u = v THEN q ELSE 0)
  <2>1. SumOf(AtPlace(onHand', v), W) = SumOf(AtPlace(onHand, v), W) + (IF u = v THEN -q ELSE 0)
    BY <1>1, <1>2, <1>3, BalanceMoves
  <2>2. SumOf(AtPlace(onHand, v), W) \in Int
    BY <1>3, ShelvesTyped
  <2>3. QED
    BY <2>1, <2>2
<1>5. QED
  BY <1>4 DEF u

LEMMA ReceiptMoves ==
  ASSUME StockTypeOK, NEW W, IsFiniteSet(W), W \subseteq Locations, NEW l \in W,
         NEW i \in Items, NEW q \in Int, Stocked(l, i, q)
  PROVE  \A v \in Variants : SumOf(AtPlace(onHand', v), W)
           = SumOf(AtPlace(onHand, v), W) + (IF VariantOf(i) = v THEN q ELSE 0)
<1> DEFINE u == VariantOf(i)
<1>1. u \in Variants /\ l \in Locations
  BY DEF VariantOf, Variants, Items
<1>2. \A k \in Places : onHand'[k] = IF k = <<l, u>> THEN onHand[k] + q ELSE onHand[k]
  BY <1>1 DEF StockTypeOK, Stocked
<1>3. onHand \in [Places -> Int]
  BY DEF StockTypeOK
<1> HIDE DEF u
<1>4. \A v \in Variants : SumOf(AtPlace(onHand', v), W)
        = SumOf(AtPlace(onHand, v), W) + (IF u = v THEN q ELSE 0)
  BY <1>1, <1>2, <1>3, BalanceMoves
<1>5. QED
  BY <1>4 DEF u

\* What is on the road is typed, and changes with one transfer by what that has.
LEMMA RoadTyped ==
  ASSUME TransfersTyped, NEW v
  PROVE  /\ \A t \in Transfers : OnRoad(transfer, v)[t] \in Int
         /\ SumOf(OnRoad(transfer, v), Transfers) \in Int
<1>1. \A t \in Transfers : OnRoad(transfer, v)[t] \in Int
  BY ShopConstants DEF TransfersTyped, Transport!TransferRecord, Transport!InventoryConstants,
     OnRoad
<1>2. QED
  BY <1>1, TablesFinite, SumType

LEMMA RoadChanges ==
  ASSUME TransfersTyped, TransfersTyped', NEW t \in Transfers,
         \A o \in Transfers \ {t} : transfer'[o] = transfer[o], NEW v
  PROVE  SumOf(OnRoad(transfer', v), Transfers) =
           SumOf(OnRoad(transfer, v), Transfers)
             + OnRoad(transfer', v)[t] - OnRoad(transfer, v)[t]
<1> DEFINE f == OnRoad(transfer, v)
           g == OnRoad(transfer', v)
<1>1. \A o \in Transfers : f[o] \in Int
  BY RoadTyped
<1>2. \A o \in Transfers : g[o] \in Int
  BY ShopConstants DEF TransfersTyped, Transport!TransferRecord, Transport!InventoryConstants,
     OnRoad
<1>3. \A o \in Transfers \ {t} : f[o] = g[o]
  BY DEF OnRoad
<1> HIDE DEF f, g
<1>4. SumOf(g, Transfers) = SumOf(f, Transfers) + g[t] - f[t]
  BY <1>1, <1>2, <1>3, TablesFinite, SumChange
<1>5. QED
  BY <1>4 DEF f, g

----------------------------------------------------------------------------
(* What holds of transfers, and of their serials, whatever overlaps        *)

Expected(op) == IF op = "complete" THEN "IN_TRANSIT" ELSE "PENDING"

OverlapsFound ==
  /\ net \in [Variants -> Int]
  /\ overlapped \subseteq Transfers
  /\ \A t \in overlapped : transfer[t] # NoTransfer

\* What a request has read of its transfer is still so, unless another request is on it.
JobsCurrent ==
  \A r \in Requests : moving[r].op # "none" /\ moving[r].on \notin overlapped =>
    transfer[moving[r].on].status = Expected(moving[r].op)

JobsMeet ==
  \A q, r \in Requests :
    moving[q].op # "none" /\ moving[r].op # "none" /\ moving[q].on = moving[r].on =>
      q = r \/ moving[q].on \in overlapped

\* A disputed transfer has the item.
Disputed(i) == \E o \in overlapped : transfer[o].item = i

SerialsApart ==
  \A t, o \in Transport!Shipped :
    transfer[t].item = transfer[o].item /\ transfer[t].item \in Serials =>
      t = o \/ Disputed(transfer[t].item)

RoadTotals ==
  overlapped = {} => \A v \in Variants :
    SumOf(AtPlace(onHand, v), Locations) + SumOf(OnRoad(transfer, v), Transfers) = net[v]

RoadInv ==
  /\ OverlapsFound /\ JobsCurrent /\ JobsMeet
  /\ SerialsApart /\ Transport!SerialsOnTheRoad
  /\ RoadTotals

RoadGoal == RoadInv'

\* A step that ships nothing, and whose transfers lose their serials only in dispute.
LEMMA SerialsStay ==
  ASSUME TransfersTyped, OverlapsFound, SerialsApart, Transport!SerialsOnTheRoad,
         \A i \in Serials :
           serial'[i].status = "TRANSFER_IN_TRANSIT" <=> serial[i].status = "TRANSFER_IN_TRANSIT",
         \A t \in Transfers : transfer[t] # NoTransfer => transfer'[t].item = transfer[t].item,
         overlapped \subseteq overlapped',
         Transport!Shipped' \subseteq Transport!Shipped,
         Transport!Shipped \subseteq Transport!Shipped' \cup overlapped'
  PROVE  SerialsApart' /\ Transport!SerialsOnTheRoad'
<1>1. ASSUME NEW t \in Transport!Shipped \cup overlapped
      PROVE  transfer'[t].item = transfer[t].item
  BY <1>1 DEF Transport!Shipped, OverlapsFound
<1>2. ASSUME NEW i, Disputed(i) PROVE \E o \in overlapped' : transfer'[o].item = i
  BY <1>1, <1>2 DEF Disputed
<1>3. SerialsApart'
  <2>1. ASSUME NEW t \in Transport!Shipped', NEW o \in Transport!Shipped',
               transfer'[t].item = transfer'[o].item, transfer'[t].item \in Serials, t # o
        PROVE  \E d \in overlapped' : transfer'[d].item = transfer'[t].item
    <3>1. transfer'[t].item = transfer[t].item /\ transfer'[o].item = transfer[o].item
      BY <1>1
    <3>2. Disputed(transfer[t].item)
      BY <2>1, <3>1 DEF SerialsApart
    <3>3. QED
      BY <1>2, <3>1, <3>2
  <2>2. QED
    BY <2>1 DEF SerialsApart, Disputed
<1>4. ASSUME NEW s \in Serials, serial'[s].status = "TRANSFER_IN_TRANSIT"
      PROVE  \E t \in Transport!Shipped' \cup overlapped' : transfer'[t].item = s
  <2>1. PICK t \in Transport!Shipped \cup overlapped : transfer[t].item = s
    BY <1>4 DEF Transport!SerialsOnTheRoad
  <2>2. QED
    BY <1>1, <2>1
<1>5. ASSUME NEW t \in Transport!Shipped'
      PROVE  \/ transfer'[t].item \in Plain
             \/ serial'[transfer'[t].item].status = "TRANSFER_IN_TRANSIT"
             \/ \E o \in overlapped' : transfer'[o].item = transfer'[t].item
  <2>1. t \in Transport!Shipped /\ transfer'[t].item = transfer[t].item
    BY <1>1
  <2>2. \/ transfer[t].item \in Plain
        \/ serial[transfer[t].item].status = "TRANSFER_IN_TRANSIT"
        \/ Disputed(transfer[t].item)
    BY <2>1 DEF Transport!SerialsOnTheRoad, Disputed
  <2>3. transfer[t].item \in Plain \/ transfer[t].item \in Serials
    BY <2>1 DEF Transport!Shipped, TransfersTyped, Transport!TransferRecord,
       Transport!Items
  <2>4. QED
    BY <1>2, <2>1, <2>2, <2>3
<1>6. QED
  BY <1>3, <1>4, <1>5 DEF Transport!SerialsOnTheRoad

\* An adjustment: no transfer and no request changes.
LEMMA AdjustRoad ==
  ASSUME RoadInv, TransfersTyped, StockTypeOK,
         NEW l \in Locations, NEW ln \in Transport!Lines,
         Transport!AdjustIn(l, ln) \/ \E a \in BOOLEAN : Transport!AdjustOut(l, ln, a)
  PROVE  RoadGoal
<1> DEFINE u == VariantOf(ln.item)
<1>0. /\ u \in Variants /\ ln.item \in Items /\ ln.qty \in Int
      /\ Transport!VariantOf(ln.item) = u
      /\ net \in [Variants -> Int] /\ Transport!Variants = Variants
  BY TransportLines, TransportOperations
  DEF RoadInv, OverlapsFound, Variants, VariantOf, Items, Transport!Variants
<1>1. UNCHANGED <<transfer, moving, overlapped>>
  BY DEF Transport!AdjustIn, Transport!AdjustOut
<1>2. \/ /\ MayReceive(ln.item, ln.qty) /\ Stocked(l, ln.item, ln.qty)
         /\ net' = [net EXCEPT ![u] = @ + ln.qty]
      \/ /\ \E a \in BOOLEAN : MayIssue(l, ln.item, ln.qty, a)
         /\ Issue(l, ln.item, ln.qty, "ADJUSTED_OUT")
         /\ net' = [net EXCEPT ![u] = @ - ln.qty]
  BY <1>0, TransportOperations DEF Transport!AdjustIn, Transport!AdjustOut
<1> HIDE DEF u
<1>3. ASSUME NEW v \in Variants
      PROVE  /\ net'[v] \in Int
             /\ SumOf(AtPlace(onHand', v), Locations) - net'[v]
                  = SumOf(AtPlace(onHand, v), Locations) - net[v]
             /\ SumOf(AtPlace(onHand, v), Locations) \in Int
             /\ SumOf(AtPlace(onHand', v), Locations) \in Int
  <2>1. SumOf(AtPlace(onHand, v), Locations) \in Int /\ net[v] \in Int
    BY <1>0, TablesFinite, ShelvesTyped DEF StockTypeOK
  <2>2. CASE Stocked(l, ln.item, ln.qty) /\ net' = [net EXCEPT ![u] = @ + ln.qty]
    <3>1. SumOf(AtPlace(onHand', v), Locations)
            = SumOf(AtPlace(onHand, v), Locations) + (IF u = v THEN ln.qty ELSE 0)
      BY <1>0, <2>2, TablesFinite, ReceiptMoves DEF u
    <3>2. net'[v] = IF u = v THEN net[v] + ln.qty ELSE net[v]
      BY <1>0, <2>2
    <3>3. QED
      BY <1>0, <2>1, <3>1, <3>2
  <2>3. CASE Issue(l, ln.item, ln.qty, "ADJUSTED_OUT") /\ net' = [net EXCEPT ![u] = @ - ln.qty]
    <3>1. SumOf(AtPlace(onHand', v), Locations)
            = SumOf(AtPlace(onHand, v), Locations) - (IF u = v THEN ln.qty ELSE 0)
      BY <1>0, <2>3, TablesFinite, IssueMoves DEF u
    <3>2. net'[v] = IF u = v THEN net[v] - ln.qty ELSE net[v]
      BY <1>0, <2>3
    <3>3. QED
      BY <1>0, <2>1, <3>1, <3>2
  <2>4. QED
    BY <1>2, <2>2, <2>3
<1>4. RoadTotals'
  <2> SUFFICES ASSUME overlapped = {}, NEW v \in Variants
               PROVE  SumOf(AtPlace(onHand', v), Locations)
                        + SumOf(OnRoad(transfer, v), Transfers) = net'[v]
    BY <1>1 DEF RoadTotals
  <2>1. SumOf(OnRoad(transfer, v), Transfers) \in Int
    BY RoadTyped
  <2>2. SumOf(AtPlace(onHand, v), Locations) + SumOf(OnRoad(transfer, v), Transfers) = net[v]
    BY DEF RoadInv, RoadTotals
  <2>3. net[v] \in Int
    BY <1>0
  <2>4. QED
    BY <1>3, <2>1, <2>2, <2>3
<1>5. net' \in [Variants -> Int]
  BY <1>0, <1>2
<1>6. OverlapsFound' /\ JobsCurrent' /\ JobsMeet'
  BY <1>1, <1>5 DEF RoadInv, OverlapsFound, JobsCurrent, JobsMeet
<1>7. ASSUME NEW i \in Serials
      PROVE  serial'[i].status = "TRANSFER_IN_TRANSIT"
               <=> serial[i].status = "TRANSFER_IN_TRANSIT"
  BY <1>2 DEF StockTypeOK, MayReceive, Stocked, MayIssue, Issue
<1>8. Transport!Shipped' = Transport!Shipped
  BY <1>1 DEF Transport!Shipped
<1>9. SerialsApart' /\ Transport!SerialsOnTheRoad'
  BY <1>1, <1>7, <1>8, SerialsStay DEF RoadInv
<1>10. QED
  BY <1>4, <1>6, <1>9 DEF RoadGoal, RoadInv

LEMMA NoTransferIsNone == NoTransfer \notin Transport!TransferRecord
BY ShopConstants DEF Transport!InventoryConstants

LEMMA TotalsStay ==
  ASSUME RoadTotals, UNCHANGED <<onHand, net>>, overlapped \subseteq overlapped',
         \A v \in Variants, t \in Transfers :
           overlapped' = {} => OnRoad(transfer', v)[t] = OnRoad(transfer, v)[t]
  PROVE  RoadTotals'
<1> SUFFICES ASSUME overlapped' = {}, NEW v \in Variants
             PROVE  SumOf(AtPlace(onHand, v), Locations) + SumOf(OnRoad(transfer', v), Transfers)
                      = net[v]
  BY DEF RoadTotals
<1>1. SumOf(OnRoad(transfer', v), Transfers) = SumOf(OnRoad(transfer, v), Transfers)
  BY TablesFinite, SumSame
<1>2. QED
  BY <1>1 DEF RoadTotals

\* A new transfer has nothing on the road.
LEMMA CreateRoad ==
  ASSUME RoadInv, TransfersTyped, NEW t \in Transfers, NEW from, NEW to, NEW ln,
         Transport!CreateStockTransfer(t, from, to, ln)
  PROVE  RoadGoal
<1> DEFINE new == [status |-> "PENDING", from |-> from, to |-> to,
                   item |-> ln.item, qty |-> ln.qty]
<1> USE DEF RoadInv
<1>1. /\ transfer[t] = NoTransfer /\ UNCHANGED <<onHand, serial, moving, overlapped, net>>
      /\ transfer' = [transfer EXCEPT ![t] = new]
  BY DEF Transport!CreateStockTransfer, Transport!stock, Transport!balances
<1>2. /\ \A o \in Transfers \ {t} : transfer'[o] = transfer[o]
      /\ transfer'[t].status = "PENDING"
  BY <1>1 DEF TransfersTyped
<1>3. t \notin overlapped
  BY <1>1 DEF OverlapsFound
<1>4. \A r \in Requests : moving[r].op # "none" => moving[r].on \in Transfers \ {t}
  BY <1>1, NoTransferIsNone DEF TransfersTyped
<1>5. OverlapsFound' /\ JobsCurrent' /\ JobsMeet'
  BY <1>1, <1>2, <1>3, <1>4 DEF OverlapsFound, JobsCurrent, JobsMeet
<1>6. Transport!Shipped' = Transport!Shipped
  BY <1>1, <1>2 DEF Transport!Shipped
<1>7. SerialsApart' /\ Transport!SerialsOnTheRoad'
  BY <1>1, <1>2, <1>6, SerialsStay
<1>8. \A v \in Variants, o \in Transfers : OnRoad(transfer', v)[o] = OnRoad(transfer, v)[o]
  BY <1>1, <1>2 DEF OnRoad
<1>9. RoadTotals'
  BY <1>1, <1>8, TotalsStay
<1>10. QED
  BY <1>5, <1>7, <1>9 DEF RoadGoal

\* A request that begins, or is rolled back: no row changes.
LEMMA LookRoad ==
  ASSUME RoadInv, TransfersTyped, NEW r \in Requests, NEW t \in Transfers, NEW approved,
         NEW op \in {"approve", "complete", "cancel"},
         Transport!Look(r, op, t, Expected(op), approved)
  PROVE  RoadGoal
<1> USE DEF RoadInv
<1>1. /\ transfer[t] # NoTransfer /\ transfer[t].status = Expected(op)
      /\ moving' = [moving EXCEPT ![r] = [op |-> op, on |-> t, approved |-> approved]]
      /\ overlapped' = IF \E other \in Requests : moving[other].on = t
                         THEN overlapped \cup {t} ELSE overlapped
      /\ UNCHANGED <<onHand, serial, transfer, net>>
  BY DEF Transport!Look, Transport!stock, Transport!balances
<1>2. /\ moving'[r].op = op /\ moving'[r].on = t
      /\ \A o \in Requests \ {r} : moving'[o] = moving[o]
  BY <1>1 DEF TransfersTyped
<1>3. overlapped \subseteq overlapped'
  BY <1>1
<1>4. OverlapsFound'
  BY <1>1 DEF OverlapsFound
<1>5. JobsCurrent'
  <2> SUFFICES ASSUME NEW o \in Requests, moving'[o].op # "none", moving'[o].on \notin overlapped'
               PROVE  transfer[moving'[o].on].status = Expected(moving'[o].op)
    BY <1>1 DEF JobsCurrent
  <2>1. CASE o = r
    BY <1>1, <1>2, <2>1
  <2>2. CASE o # r
    BY <1>2, <1>3, <2>2 DEF JobsCurrent
  <2>3. QED
    BY <2>1, <2>2
<1>6. JobsMeet'
  <2> SUFFICES ASSUME NEW o \in Requests, NEW q \in Requests, moving'[o].op # "none",
                      moving'[q].op # "none", moving'[o].on = moving'[q].on, o # q
               PROVE  moving'[o].on \in overlapped'
    BY DEF JobsMeet
  <2>1. CASE o = r \/ q = r
    BY <1>1, <1>2, <2>1
  <2>2. CASE o # r /\ q # r
    BY <1>2, <1>3, <2>2 DEF JobsMeet
  <2>3. QED
    BY <2>1, <2>2
<1>7. Transport!Shipped' = Transport!Shipped
  BY <1>1 DEF Transport!Shipped
<1>8. SerialsApart' /\ Transport!SerialsOnTheRoad'
  BY <1>1, <1>3, <1>7, SerialsStay
<1>9. RoadTotals'
  BY <1>1, <1>3, TotalsStay
<1>10. QED
  BY <1>4, <1>5, <1>6, <1>8, <1>9 DEF RoadGoal

LEMMA RollBackRoad ==
  ASSUME RoadInv, TransfersTyped, NEW r \in Requests, Transport!RollBack(r)
  PROVE  RoadGoal
<1> USE DEF RoadInv
<1>1. UNCHANGED <<onHand, serial, transfer, overlapped, net>>
  BY DEF Transport!RollBack, Transport!stock, Transport!balances
<1>2. /\ moving'[r].op = "none"
      /\ \A o \in Requests \ {r} : moving'[o] = moving[o]
  BY DEF Transport!RollBack, Transport!Idle, TransfersTyped
<1>3. OverlapsFound' /\ JobsCurrent' /\ JobsMeet'
  BY <1>1, <1>2 DEF OverlapsFound, JobsCurrent, JobsMeet
<1>4. Transport!Shipped' = Transport!Shipped
  BY <1>1 DEF Transport!Shipped
<1>5. SerialsApart' /\ Transport!SerialsOnTheRoad'
  BY <1>1, <1>4, SerialsStay
<1>6. RoadTotals'
  BY <1>1, TotalsStay
<1>7. QED
  BY <1>3, <1>5, <1>6 DEF RoadGoal

\* The end of a request: the status of its transfer, which it has found as it had read it
\* or which is disputed, changes; no other request that is not in dispute is on it.
LEMMA FinishRoad ==
  ASSUME TransfersTyped, OverlapsFound, JobsCurrent, JobsMeet,
         NEW r \in Requests, moving[r].op # "none", NEW t, t = moving[r].on,
         NEW status \in {"IN_TRANSIT", "COMPLETED", "CANCELLED"},
         Transport!Finish(r, status)
  PROVE  /\ t \in Transfers /\ transfer[t] \in Transport!TransferRecord
         /\ transfer[t] # NoTransfer /\ transfer'[t] # NoTransfer
         /\ transfer'[t] = [transfer[t] EXCEPT !.status = status]
         /\ transfer'[t].status = status
         /\ transfer'[t].item = transfer[t].item /\ transfer'[t].qty = transfer[t].qty
         /\ \A o \in Transfers \ {t} : transfer'[o] = transfer[o]
         /\ UNCHANGED <<overlapped, net>>
         /\ t \in overlapped \/ transfer[t].status = Expected(moving[r].op)
         /\ OverlapsFound' /\ JobsCurrent' /\ JobsMeet'
<1>1. t \in Transfers /\ transfer[t] \in Transport!TransferRecord
  BY DEF TransfersTyped
<1>2. /\ transfer' = [transfer EXCEPT ![t].status = status]
      /\ moving' = [moving EXCEPT ![r] = Transport!Idle]
      /\ UNCHANGED <<overlapped, net>>
  BY DEF Transport!Finish
<1>3. /\ transfer'[t] = [transfer[t] EXCEPT !.status = status]
      /\ \A o \in Transfers \ {t} : transfer'[o] = transfer[o]
  BY <1>1, <1>2 DEF TransfersTyped
<1>4. transfer'[t] \in Transport!TransferRecord
  BY <1>1, <1>3 DEF Transport!TransferRecord
<1>5. /\ transfer'[t].status = status
      /\ transfer'[t].item = transfer[t].item /\ transfer'[t].qty = transfer[t].qty
  BY <1>1, <1>3 DEF Transport!TransferRecord
<1>6. transfer[t] # NoTransfer /\ transfer'[t] # NoTransfer
  BY <1>1, <1>4, NoTransferIsNone
<1>7. /\ moving'[r].op = "none"
      /\ \A o \in Requests \ {r} : moving'[o] = moving[o]
  BY <1>2 DEF TransfersTyped, Transport!Idle
<1>8. OverlapsFound' /\ JobsMeet'
  BY <1>2, <1>3, <1>6, <1>7 DEF OverlapsFound, JobsMeet
<1>9. JobsCurrent'
  <2> SUFFICES ASSUME NEW o \in Requests, moving'[o].op # "none", moving'[o].on \notin overlapped'
               PROVE  transfer'[moving'[o].on].status = Expected(moving'[o].op)
    BY DEF JobsCurrent
  <2>1. o # r /\ moving'[o] = moving[o] /\ moving[o].on \in Transfers
    BY <1>7 DEF TransfersTyped
  <2>2. moving[o].on # t
    BY <1>2, <2>1 DEF JobsMeet
  <2>3. QED
    BY <1>2, <1>3, <2>1, <2>2 DEF JobsCurrent
<1>10. t \in overlapped \/ transfer[t].status = Expected(moving[r].op)
  BY DEF JobsCurrent
<1>11. QED
  BY <1>1, <1>2, <1>3, <1>5, <1>6, <1>8, <1>9, <1>10

\* The row of a transfer, and a serial on it.
LEMMA RowTyped ==
  ASSUME NEW t \in Transport!TransferRecord
  PROVE  /\ t.from \in Locations /\ t.to \in Locations
         /\ t.item \in Items /\ t.qty \in Int
         /\ t.item \in Plain <=> t.item \notin Serials
BY StockConstants, ShopConstants
DEF Transport!TransferRecord, Transport!InventoryConstants, Items, Transport!Items

\* What the end of a request does to the sums.
LEMMA FinishTotals ==
  ASSUME RoadTotals, OverlapsFound, StockTypeOK, TransfersTyped, TransfersTyped',
         NEW t \in Transfers, transfer[t] # NoTransfer, transfer'[t] # NoTransfer,
         transfer'[t].item = transfer[t].item, transfer'[t].qty = transfer[t].qty,
         \A o \in Transfers \ {t} : transfer'[o] = transfer[o],
         UNCHANGED <<overlapped, net>>,
         NEW u, u = VariantOf(transfer[t].item), NEW n, n = transfer[t].qty,
         overlapped = {} =>
           \/ /\ transfer[t].status # "IN_TRANSIT" /\ transfer'[t].status = "IN_TRANSIT"
              /\ \A v \in Variants : SumOf(AtPlace(onHand', v), Locations)
                   = SumOf(AtPlace(onHand, v), Locations) - (IF u = v THEN n ELSE 0)
           \/ /\ transfer[t].status = "IN_TRANSIT" /\ transfer'[t].status # "IN_TRANSIT"
              /\ \A v \in Variants : SumOf(AtPlace(onHand', v), Locations)
                   = SumOf(AtPlace(onHand, v), Locations) + (IF u = v THEN n ELSE 0)
  PROVE  RoadTotals'
<1> SUFFICES ASSUME overlapped = {}, NEW v \in Variants
             PROVE  SumOf(AtPlace(onHand', v), Locations)
                      + SumOf(OnRoad(transfer', v), Transfers) = net[v]
  BY DEF RoadTotals
<1> DEFINE more == IF u = v THEN n ELSE 0
           here == SumOf(AtPlace(onHand, v), Locations)
           there == SumOf(OnRoad(transfer, v), Transfers)
<1>1. n \in Int /\ Transport!VariantOf(transfer[t].item) = u
  <2>1. transfer[t] \in Transport!TransferRecord
    BY DEF TransfersTyped
  <2>2. n \in Int
    BY <2>1, RowTyped
  <2>3. Transport!VariantOf(transfer[t].item) = u
    BY TransportOperations
  <2>4. QED
    BY <2>2, <2>3
<1>2. here \in Int /\ there \in Int /\ here + there = net[v]
  BY TablesFinite, ShelvesTyped, RoadTyped DEF StockTypeOK, RoadTotals
<1>3. SumOf(OnRoad(transfer', v), Transfers)
        = there + OnRoad(transfer', v)[t] - OnRoad(transfer, v)[t]
  BY RoadChanges
<1>4. /\ OnRoad(transfer, v)[t] = IF transfer[t].status = "IN_TRANSIT" THEN more ELSE 0
      /\ OnRoad(transfer', v)[t] = IF transfer'[t].status = "IN_TRANSIT" THEN more ELSE 0
  BY <1>1 DEF OnRoad
<1>5. more \in Int
  BY <1>1
<1>6. \/ /\ transfer[t].status # "IN_TRANSIT" /\ transfer'[t].status = "IN_TRANSIT"
         /\ SumOf(AtPlace(onHand', v), Locations) = here - more
      \/ /\ transfer[t].status = "IN_TRANSIT" /\ transfer'[t].status # "IN_TRANSIT"
         /\ SumOf(AtPlace(onHand', v), Locations) = here + more
  OBVIOUS
<1> HIDE DEF more, here, there
<1>7. QED
  BY <1>2, <1>3, <1>4, <1>5, <1>6

LEMMA ApproveRoad ==
  ASSUME RoadInv, TransfersTyped, TransfersTyped', StockTypeOK,
         NEW r \in Requests, Transport!ApproveStockTransfer(r)
  PROVE  RoadGoal
<1> DEFINE t == moving[r].on
           i == transfer[t].item
<1> USE DEF RoadInv
<1>1. /\ moving[r].op = "approve"
      /\ MayIssue(transfer[t].from, i, transfer[t].qty, moving[r].approved)
      /\ Issue(transfer[t].from, i, transfer[t].qty, "TRANSFER_IN_TRANSIT")
      /\ Transport!Finish(r, "IN_TRANSIT")
  BY TransportOperations DEF Transport!ApproveStockTransfer
<1>2. /\ t \in Transfers /\ transfer[t] \in Transport!TransferRecord
      /\ transfer[t] # NoTransfer /\ transfer'[t] # NoTransfer
      /\ transfer'[t].status = "IN_TRANSIT"
      /\ transfer'[t].item = i /\ transfer'[t].qty = transfer[t].qty
      /\ \A o \in Transfers \ {t} : transfer'[o] = transfer[o]
      /\ UNCHANGED <<overlapped, net>>
      /\ t \in overlapped \/ transfer[t].status = "PENDING"
      /\ OverlapsFound' /\ JobsCurrent' /\ JobsMeet'
  BY <1>1, FinishRoad DEF Expected
<1>3. /\ transfer[t].from \in Locations /\ i \in Items /\ transfer[t].qty \in Int
      /\ i \in Plain <=> i \notin Serials
  BY <1>2, RowTyped
<1> HIDE DEF t
<1>4. RoadTotals'
  <2>1. \A v \in Variants : SumOf(AtPlace(onHand', v), Locations)
          = SumOf(AtPlace(onHand, v), Locations)
              - (IF VariantOf(i) = v THEN transfer[t].qty ELSE 0)
    BY <1>1, <1>3, TablesFinite, IssueMoves
  <2>2. overlapped = {} => transfer[t].status # "IN_TRANSIT"
    BY <1>2
  <2>3. QED
    BY <1>2, <2>1, <2>2, FinishTotals
<1>5. /\ \A s \in Serials : s # i => serial'[s] = serial[s]
      /\ i \in Serials => serial[i].status = "IN_STOCK"
                          /\ serial'[i].status = "TRANSFER_IN_TRANSIT"
  BY <1>1 DEF MayIssue, Issue
<1>6. /\ Transport!Shipped' = Transport!Shipped \cup {t}
      /\ \A o \in Transport!Shipped \cup overlapped \cup {t} :
           transfer'[o].item = transfer[o].item
  BY <1>2 DEF Transport!Shipped, OverlapsFound
<1>7. i \in Serials => \A o \in Transport!Shipped : transfer[o].item = i => Disputed(i)
  BY <1>3, <1>5 DEF Transport!SerialsOnTheRoad, Disputed
<1>8. \A s : Disputed(s) => \E o \in overlapped' : transfer'[o].item = s
  BY <1>2, <1>6 DEF Disputed
<1>9. SerialsApart'
  <2> SUFFICES ASSUME NEW o \in Transport!Shipped', NEW d \in Transport!Shipped', o # d,
                      transfer'[o].item = transfer'[d].item, transfer'[o].item \in Serials
               PROVE  \E x \in overlapped' : transfer'[x].item = transfer'[o].item
    BY DEF SerialsApart, Disputed
  <2>1. transfer'[o].item = transfer[o].item /\ transfer'[d].item = transfer[d].item
    BY <1>6
  <2>2. CASE o = t \/ d = t
    BY <1>6, <1>7, <1>8, <2>1, <2>2
  <2>3. CASE o # t /\ d # t
    BY <1>6, <1>8, <2>1, <2>3 DEF SerialsApart
  <2>4. QED
    BY <2>2, <2>3
<1>10. Transport!SerialsOnTheRoad'
  <2>1. ASSUME NEW s \in Serials, serial'[s].status = "TRANSFER_IN_TRANSIT"
        PROVE  \E o \in Transport!Shipped' \cup overlapped' : transfer'[o].item = s
    <3>1. CASE s = i
      BY <1>6, <3>1
    <3>2. CASE s # i
      <4>1. PICK o \in Transport!Shipped \cup overlapped : transfer[o].item = s
        BY <1>5, <2>1, <3>2 DEF Transport!SerialsOnTheRoad
      <4>2. QED
        BY <1>2, <1>6, <4>1
    <3>3. QED
      BY <3>1, <3>2
  <2>2. ASSUME NEW o \in Transport!Shipped'
        PROVE  \/ transfer'[o].item \in Plain
               \/ serial'[transfer'[o].item].status = "TRANSFER_IN_TRANSIT"
               \/ \E x \in overlapped' : transfer'[x].item = transfer'[o].item
    <3>1. transfer'[o].item = transfer[o].item
      BY <1>6
    <3>2. CASE transfer[o].item = i
      BY <1>3, <1>5, <3>1, <3>2
    <3>3. CASE transfer[o].item # i
      <4>1. o \in Transport!Shipped /\ transfer[o].item \in Plain \cup Serials
        BY <1>6, <3>3 DEF Transport!Shipped, TransfersTyped, Transport!TransferRecord, Transport!Items
      <4>2. \/ transfer[o].item \in Plain
            \/ serial[transfer[o].item].status = "TRANSFER_IN_TRANSIT"
            \/ Disputed(transfer[o].item)
        BY <4>1 DEF Transport!SerialsOnTheRoad, Disputed
      <4>3. QED
        BY <1>5, <1>8, <3>1, <3>3, <4>1, <4>2
    <3>4. QED
      BY <3>2, <3>3
  <2>3. QED
    BY <2>1, <2>2 DEF Transport!SerialsOnTheRoad
<1>11. QED
  BY <1>2, <1>4, <1>9, <1>10 DEF RoadGoal

LEMMA CompleteRoad ==
  ASSUME RoadInv, TransfersTyped, TransfersTyped', StockTypeOK,
         NEW r \in Requests, Transport!CompleteStockTransfer(r)
  PROVE  RoadGoal
<1> DEFINE t == moving[r].on
           i == transfer[t].item
<1> USE DEF RoadInv
<1>1. /\ moving[r].op = "complete"
      /\ i \in Serials => serial[i].status = "TRANSFER_IN_TRANSIT"
      /\ Stocked(transfer[t].to, i, transfer[t].qty)
      /\ Transport!Finish(r, "COMPLETED")
  BY TransportOperations DEF Transport!CompleteStockTransfer
<1>2. /\ t \in Transfers /\ transfer[t] \in Transport!TransferRecord
      /\ transfer[t] # NoTransfer /\ transfer'[t] # NoTransfer
      /\ transfer'[t].status = "COMPLETED"
      /\ transfer'[t].item = i /\ transfer'[t].qty = transfer[t].qty
      /\ \A o \in Transfers \ {t} : transfer'[o] = transfer[o]
      /\ UNCHANGED <<overlapped, net>>
      /\ t \in overlapped \/ transfer[t].status = "IN_TRANSIT"
      /\ OverlapsFound' /\ JobsCurrent' /\ JobsMeet'
  BY <1>1, FinishRoad DEF Expected
<1>3. /\ transfer[t].to \in Locations /\ i \in Items /\ transfer[t].qty \in Int
      /\ i \in Plain <=> i \notin Serials
  BY <1>2, RowTyped
<1> HIDE DEF t
<1>4. RoadTotals'
  <2>1. \A v \in Variants : SumOf(AtPlace(onHand', v), Locations)
          = SumOf(AtPlace(onHand, v), Locations)
              + (IF VariantOf(i) = v THEN transfer[t].qty ELSE 0)
    BY <1>1, <1>3, TablesFinite, ReceiptMoves
  <2>2. overlapped = {} => transfer[t].status = "IN_TRANSIT"
    BY <1>2
  <2>3. QED
    BY <1>2, <2>1, <2>2, FinishTotals
<1>5. /\ \A s \in Serials : s # i => serial'[s] = serial[s]
      /\ i \in Serials => serial'[i].status = "IN_STOCK"
  BY <1>1 DEF Stocked
<1>6. /\ Transport!Shipped' = Transport!Shipped \ {t}
      /\ \A o \in Transport!Shipped \cup overlapped : transfer'[o].item = transfer[o].item
  BY <1>2 DEF Transport!Shipped, OverlapsFound
<1>7. t \in Transport!Shipped \/ t \in overlapped
  BY <1>2 DEF Transport!Shipped
<1>8. \A s : Disputed(s) => \E o \in overlapped' : transfer'[o].item = s
  BY <1>2, <1>6 DEF Disputed
<1>9. SerialsApart'
  <2> SUFFICES ASSUME NEW o \in Transport!Shipped', NEW d \in Transport!Shipped', o # d,
                      transfer'[o].item = transfer'[d].item, transfer'[o].item \in Serials
               PROVE  \E x \in overlapped' : transfer'[x].item = transfer'[o].item
    BY DEF SerialsApart, Disputed
  <2>1. QED
    BY <1>6, <1>8 DEF SerialsApart
<1>10. Transport!SerialsOnTheRoad'
  <2>1. ASSUME NEW s \in Serials, serial'[s].status = "TRANSFER_IN_TRANSIT"
        PROVE  \E o \in Transport!Shipped' \cup overlapped' : transfer'[o].item = s
    <3>1. s # i
      BY <1>5, <2>1
    <3>2. PICK o \in Transport!Shipped \cup overlapped : transfer[o].item = s
      BY <1>5, <2>1, <3>1 DEF Transport!SerialsOnTheRoad
    <3>3. QED
      BY <1>2, <1>6, <3>1, <3>2
  <2>2. ASSUME NEW o \in Transport!Shipped'
        PROVE  \/ transfer'[o].item \in Plain
               \/ serial'[transfer'[o].item].status = "TRANSFER_IN_TRANSIT"
               \/ \E x \in overlapped' : transfer'[x].item = transfer'[o].item
    <3>1. transfer'[o].item = transfer[o].item /\ o \in Transport!Shipped /\ o # t
      BY <1>6
    <3>2. transfer[o].item \in Plain \cup Serials
      BY <3>1 DEF Transport!Shipped, TransfersTyped, Transport!TransferRecord, Transport!Items
    <3>3. CASE transfer[o].item = i /\ i \in Serials
      <4>1. t \in overlapped \/ Disputed(i)
        BY <1>7, <3>1, <3>3 DEF SerialsApart
      <4>2. QED
        BY <1>8, <3>1, <3>3, <4>1 DEF Disputed
    <3>4. CASE transfer[o].item # i /\ transfer[o].item \in Serials
      <4>1. \/ transfer[o].item \in Plain
            \/ serial[transfer[o].item].status = "TRANSFER_IN_TRANSIT"
            \/ Disputed(transfer[o].item)
        BY <3>1 DEF Transport!SerialsOnTheRoad, Disputed
      <4>2. QED
        BY <1>5, <1>8, <3>1, <3>4, <4>1
    <3>5. QED
      BY <3>1, <3>2, <3>3, <3>4
  <2>3. QED
    BY <2>1, <2>2 DEF Transport!SerialsOnTheRoad
<1>11. QED
  BY <1>2, <1>4, <1>9, <1>10 DEF RoadGoal

LEMMA CancelRoad ==
  ASSUME RoadInv, TransfersTyped, NEW r \in Requests, Transport!CancelStockTransfer(r)
  PROVE  RoadGoal
<1> DEFINE t == moving[r].on
<1> USE DEF RoadInv
<1>1. /\ moving[r].op = "cancel" /\ Transport!Finish(r, "CANCELLED")
      /\ UNCHANGED <<onHand, serial>>
  BY DEF Transport!CancelStockTransfer, Transport!stock, Transport!balances
<1>2. /\ t \in Transfers /\ transfer[t] # NoTransfer
      /\ transfer'[t].status = "CANCELLED" /\ transfer'[t].item = transfer[t].item
      /\ \A o \in Transfers \ {t} : transfer'[o] = transfer[o]
      /\ UNCHANGED <<overlapped, net>>
      /\ t \in overlapped \/ transfer[t].status = "PENDING"
      /\ OverlapsFound' /\ JobsCurrent' /\ JobsMeet'
  BY <1>1, FinishRoad DEF Expected
<1> HIDE DEF t
<1>3. /\ Transport!Shipped' \subseteq Transport!Shipped
      /\ Transport!Shipped \subseteq Transport!Shipped' \cup overlapped'
      /\ \A o \in Transfers : transfer[o] # NoTransfer => transfer'[o].item = transfer[o].item
  BY <1>2 DEF Transport!Shipped
<1>4. SerialsApart' /\ Transport!SerialsOnTheRoad'
  BY <1>1, <1>2, <1>3, SerialsStay
<1>5. ASSUME overlapped' = {}, NEW v \in Variants, NEW o \in Transfers
      PROVE  OnRoad(transfer', v)[o] = OnRoad(transfer, v)[o]
  BY <1>2, <1>5 DEF OnRoad
<1>6. RoadTotals'
  BY <1>1, <1>2, <1>5, TotalsStay
<1>7. QED
  BY <1>2, <1>4, <1>6 DEF RoadGoal

LEMMA RoadKeeps ==
  ASSUME RoadInv, TransfersTyped, TransfersTyped', StockTypeOK, Transport!Next
  PROVE  RoadGoal
<1>1. ASSUME NEW r \in Requests, NEW t \in Transfers, NEW a \in BOOLEAN,
             \/ Transport!BeginApprove(r, t, a)
             \/ Transport!BeginComplete(r, t) \/ Transport!BeginCancel(r, t)
      PROVE  RoadGoal
  <2>1. \/ Transport!Look(r, "approve", t, Expected("approve"), a)
        \/ Transport!Look(r, "complete", t, Expected("complete"), FALSE)
        \/ Transport!Look(r, "cancel", t, Expected("cancel"), FALSE)
    BY <1>1
    DEF Expected, Transport!BeginApprove, Transport!BeginComplete, Transport!BeginCancel
  <2>2. QED
    BY <2>1, LookRoad
<1>2. QED
  BY <1>1, AdjustRoad, CreateRoad, ApproveRoad, CompleteRoad, CancelRoad, RollBackRoad
  DEF Transport!Next, Transport!Adjust

LEMMA RoadStarts == ShopInit => RoadInv
<1> SUFFICES ASSUME ShopInit PROVE RoadInv
  OBVIOUS
<1>1. /\ net = [v \in Variants |-> 0] /\ overlapped = {}
      /\ transfer = [t \in Transfers |-> NoTransfer]
      /\ \A r \in Requests : moving[r].op = "none"
      /\ onHand = [k \in Places |-> 0] /\ \A s \in Serials : serial[s].status = "UNKNOWN"
  BY DEF ShopInit, StockInit, Transport!TransfersInit, Transport!Idle, Transport!Variants,
     Transport!VariantOf, Variants
<1>2. Transport!Shipped = {}
  BY <1>1 DEF Transport!Shipped
<1>3. ASSUME NEW v \in Variants
      PROVE  /\ SumOf(AtPlace(onHand, v), Locations) = 0
             /\ SumOf(OnRoad(transfer, v), Transfers) = 0
  <2>1. \A l \in Locations : AtPlace(onHand, v)[l] = 0
    BY <1>1 DEF AtPlace, Places
  <2>2. \A t \in Transfers : OnRoad(transfer, v)[t] = 0
    BY <1>1 DEF OnRoad
  <2>3. QED
    BY <2>1, <2>2, TablesFinite, SumOfZeros
<1>4. RoadTotals
  BY <1>1, <1>3 DEF RoadTotals
<1>5. QED
  BY <1>1, <1>2, <1>4
  DEF RoadInv, OverlapsFound, JobsCurrent, JobsMeet, SerialsApart, Transport!SerialsOnTheRoad

\* Transfers neither make nor lose stock: what there is of a variant on all shelves and on
\* the road is what adjustments brought in less what they took out, as long as no two
\* requests on one transfer overlapped, and a serial is on the road exactly with a transfer
\* of it, even then but for disputed ones (ApproveStockTransfer, CompleteStockTransfer,
\* CancelStockTransfer).
THEOREM TransfersConserveStock == ShopSpec => []Conserved
<1> DEFINE Road == part = "transport" => RoadInv
<1>1. ShopInit => Road
  BY RoadStarts
<1>2. ASSUME ShopInv, ShopInv', Road, [ShopNext]_ShopVars PROVE Road'
  <2>1. CASE part = "transport" /\ Transport!Next /\ UNCHANGED part
    BY <1>2, <2>1, RoadKeeps DEF ShopInv, Books, RoadGoal
  <2>2. CASE part # "transport" /\ UNCHANGED part
    BY <2>2
  <2>3. CASE UNCHANGED <<part, stock, transport>>
    BY <1>2, <2>3
    DEF RoadInv, OverlapsFound, JobsCurrent, JobsMeet, SerialsApart, Disputed, RoadTotals,
        Transport!SerialsOnTheRoad, Transport!Shipped, stock, balances, transport
  <2>4. QED
    BY <1>2, <2>1, <2>2, <2>3 DEF ShopNext, ShopVars
<1>3. ShopInv /\ Road => Conserved
  <2> SUFFICES ASSUME ShopInv, RoadInv PROVE Transport!Conserved
    BY DEF Conserved
  <2>1. TransfersTyped /\ Transport!Variants = Variants
    BY DEF ShopInv, Transport!Variants, Variants
  <2>2. ASSUME overlapped = {}, NEW v \in Variants
        PROVE  Transport!OnShelves(v) + Transport!InTransit(v) = net[v]
    BY <2>1, <2>2, TransportSums DEF RoadInv, RoadTotals
  <2>3. QED
    BY <2>1, <2>2 DEF RoadInv, Transport!Conserved
<1> HIDE DEF Road
<1>4. QED
  BY <1>1, <1>2, <1>3, ShopInvariant, PTL DEF ShopSpec, ShopVars

----------------------------------------------------------------------------
(* Stock and the documents of sales                                        *)

\* What a document sells of v, what came back of it by returns, and by refunds of o.
SoldOf(rows, v) ==
  [s \in Sales |->
     IF rows[s] # NoSale /\ ~rows[s].deleted /\ rows[s].status = "COMPLETED"
        /\ VariantOf(rows[s].item) = v
     THEN rows[s].qty - rows[s].back ELSE 0]
CameBack(rows, back, v) ==
  [s \in Sales |-> IF rows[s] # NoSale /\ VariantOf(rows[s].item) = v THEN back[s] ELSE 0]
BackTo(rows, o) ==
  [d \in Sales |-> IF rows[d] # NoSale /\ rows[d].source = o THEN rows[d].back ELSE 0]

RefundedOf(o) == SumOf(BackTo(sale, o), Sales)

\* The sums of the documents, as sums over all rows.
LEMMA SalesSum ==
  ASSUME NEW rows, NEW W \in SUBSET Sales, \A s \in W : rows[s].qty - rows[s].back \in Int
  PROVE  Docs!MapThenSumSet(LAMBDA s : rows[s].qty - rows[s].back, W)
         = SumOf([s \in Sales |-> IF s \in W THEN rows[s].qty - rows[s].back ELSE 0], Sales)
<1> DEFINE body(s) == rows[s].qty - rows[s].back
           f == [s \in Sales |-> body(s)]
           Step(g, S) == IF S = {} THEN 0
             ELSE body(CHOOSE s \in S : TRUE) + g[S \ {CHOOSE s \in S : TRUE}]
           sum == Docs!MapThenSumSet(LAMBDA s : rows[s].qty - rows[s].back, W)
           whole == [s \in Sales |-> IF s \in W THEN body(s) ELSE 0]
<1>1. /\ \A s \in W : f[s] \in Int /\ f[s] = body(s)
      /\ \A s \in Sales : f[s] = body(s)
  OBVIOUS
<1>2. whole = Within(f, W, Sales)
  BY DEF Within
<1> HIDE DEF f, body
<1>3. IsFiniteSet(W)
  BY TablesFinite, FS_Subset
<1>4. PICK g : Adds(g, f, W)
  BY <1>3, AddsExists
<1>5. g = [S \in SUBSET W |-> Step(g, S)]
  BY <1>1, <1>4, OneLess DEF Adds, Chosen
<1>6. PICK h : h = [S \in SUBSET W |-> Step(h, S)] /\ sum = h[W]
  BY <1>5 DEF Docs!MapThenSumSet, Docs!MapThenFoldSet, body
<1> HIDE DEF sum, whole
<1>7. Adds(h, f, W)
  <2>1. ASSUME NEW S \in SUBSET W
        PROVE  h[S] = IF S = {} THEN 0 ELSE f[Chosen(S)] + h[S \ {Chosen(S)}]
    <3>1. h[S] = Step(h, S)
      BY <1>6
    <3>2. S # {} => f[Chosen(S)] = body(Chosen(S))
      BY <1>1, OneLess
    <3>3. QED
      BY <3>1, <3>2 DEF Chosen
  <2>2. h = [S \in SUBSET W |-> h[S]]
    BY <1>6
  <2>3. QED
    BY <2>1, <2>2 DEF Adds
<1>8. sum = SumOf(f, W)
  BY <1>3, <1>6, <1>7, SumIs
<1>9. SumOf(f, W) = SumOf(Within(f, W, Sales), Sales)
  BY <1>1, TablesFinite, SumPart
<1>10. sum = SumOf(whole, Sales)
  BY <1>2, <1>8, <1>9
<1>11. QED
  BY <1>10 DEF sum, whole, body

LEMMA ReturnsSum ==
  ASSUME NEW rows, NEW W \in SUBSET Sales, \A s \in W : rows[s] \in Int
  PROVE  Docs!MapThenSumSet(LAMBDA s : rows[s], W)
         = SumOf([s \in Sales |-> IF s \in W THEN rows[s] ELSE 0], Sales)
<1> DEFINE body(s) == rows[s]
           f == [s \in Sales |-> body(s)]
           Step(g, S) == IF S = {} THEN 0
             ELSE body(CHOOSE s \in S : TRUE) + g[S \ {CHOOSE s \in S : TRUE}]
           sum == Docs!MapThenSumSet(LAMBDA s : rows[s], W)
           whole == [s \in Sales |-> IF s \in W THEN body(s) ELSE 0]
<1>1. /\ \A s \in W : f[s] \in Int /\ f[s] = body(s)
      /\ \A s \in Sales : f[s] = body(s)
  OBVIOUS
<1>2. whole = Within(f, W, Sales)
  BY DEF Within
<1> HIDE DEF f, body
<1>3. IsFiniteSet(W)
  BY TablesFinite, FS_Subset
<1>4. PICK g : Adds(g, f, W)
  BY <1>3, AddsExists
<1>5. g = [S \in SUBSET W |-> Step(g, S)]
  BY <1>1, <1>4, OneLess DEF Adds, Chosen
<1>6. PICK h : h = [S \in SUBSET W |-> Step(h, S)] /\ sum = h[W]
  BY <1>5 DEF Docs!MapThenSumSet, Docs!MapThenFoldSet, body
<1> HIDE DEF sum, whole
<1>7. Adds(h, f, W)
  <2>1. ASSUME NEW S \in SUBSET W
        PROVE  h[S] = IF S = {} THEN 0 ELSE f[Chosen(S)] + h[S \ {Chosen(S)}]
    <3>1. h[S] = Step(h, S)
      BY <1>6
    <3>2. S # {} => f[Chosen(S)] = body(Chosen(S))
      BY <1>1, OneLess
    <3>3. QED
      BY <3>1, <3>2 DEF Chosen
  <2>2. h = [S \in SUBSET W |-> h[S]]
    BY <1>6
  <2>3. QED
    BY <2>1, <2>2 DEF Adds
<1>8. sum = SumOf(f, W)
  BY <1>3, <1>6, <1>7, SumIs
<1>9. SumOf(f, W) = SumOf(Within(f, W, Sales), Sales)
  BY <1>1, TablesFinite, SumPart
<1>10. sum = SumOf(whole, Sales)
  BY <1>2, <1>8, <1>9
<1>11. QED
  BY <1>10 DEF sum, whole, body

LEMMA RefundsSum ==
  ASSUME NEW rows, NEW W \in SUBSET Sales, \A s \in W : rows[s].back \in Int
  PROVE  Docs!MapThenSumSet(LAMBDA s : rows[s].back, W)
         = SumOf([s \in Sales |-> IF s \in W THEN rows[s].back ELSE 0], Sales)
<1> DEFINE body(s) == rows[s].back
           f == [s \in Sales |-> body(s)]
           Step(g, S) == IF S = {} THEN 0
             ELSE body(CHOOSE s \in S : TRUE) + g[S \ {CHOOSE s \in S : TRUE}]
           sum == Docs!MapThenSumSet(LAMBDA s : rows[s].back, W)
           whole == [s \in Sales |-> IF s \in W THEN body(s) ELSE 0]
<1>1. /\ \A s \in W : f[s] \in Int /\ f[s] = body(s)
      /\ \A s \in Sales : f[s] = body(s)
  OBVIOUS
<1>2. whole = Within(f, W, Sales)
  BY DEF Within
<1> HIDE DEF f, body
<1>3. IsFiniteSet(W)
  BY TablesFinite, FS_Subset
<1>4. PICK g : Adds(g, f, W)
  BY <1>3, AddsExists
<1>5. g = [S \in SUBSET W |-> Step(g, S)]
  BY <1>1, <1>4, OneLess DEF Adds, Chosen
<1>6. PICK h : h = [S \in SUBSET W |-> Step(h, S)] /\ sum = h[W]
  BY <1>5 DEF Docs!MapThenSumSet, Docs!MapThenFoldSet, body
<1> HIDE DEF sum, whole
<1>7. Adds(h, f, W)
  <2>1. ASSUME NEW S \in SUBSET W
        PROVE  h[S] = IF S = {} THEN 0 ELSE f[Chosen(S)] + h[S \ {Chosen(S)}]
    <3>1. h[S] = Step(h, S)
      BY <1>6
    <3>2. S # {} => f[Chosen(S)] = body(Chosen(S))
      BY <1>1, OneLess
    <3>3. QED
      BY <3>1, <3>2 DEF Chosen
  <2>2. h = [S \in SUBSET W |-> h[S]]
    BY <1>6
  <2>3. QED
    BY <2>1, <2>2 DEF Adds
<1>8. sum = SumOf(f, W)
  BY <1>3, <1>6, <1>7, SumIs
<1>9. SumOf(f, W) = SumOf(Within(f, W, Sales), Sales)
  BY <1>1, TablesFinite, SumPart
<1>10. sum = SumOf(whole, Sales)
  BY <1>2, <1>8, <1>9
<1>11. QED
  BY <1>10 DEF sum, whole, body

LEMMA DocumentSums ==
  ASSUME DocumentsTyped, returned \in [Sales -> Nat]
  PROVE  /\ \A v : Docs!Documented(v) = supplied[v] - SumOf(SoldOf(sale, v), Sales)
                                          + SumOf(CameBack(sale, returned, v), Sales)
         /\ \A o : Docs!Refunded(o, Docs!RefundsOf(o)) = RefundedOf(o)
         /\ \A v : Docs!OnShelves(v) = SumOf(AtPlace(onHand, v), Shelf)
<1>1. \A s \in Docs!Rows : sale[s].qty \in Int /\ sale[s].back \in Int
  BY DocumentsAtShelf DEF DocumentsTyped, Docs!Rows
<1>2. ASSUME NEW v
      PROVE  Docs!Documented(v) = supplied[v] - SumOf(SoldOf(sale, v), Sales)
                                    + SumOf(CameBack(sale, returned, v), Sales)
  <2> DEFINE of == {s \in Docs!Completed : Docs!VariantOf(sale[s].item) = v}
             back == {s \in Docs!Rows : Docs!VariantOf(sale[s].item) = v}
             gone == Docs!MapThenSumSet(LAMBDA s : sale[s].qty - sale[s].back, of)
             came == Docs!MapThenSumSet(LAMBDA s : returned[s], back)
  <2>1. of \in SUBSET Sales /\ back \in SUBSET Sales
    BY DEF Docs!Completed, Docs!Live, Docs!Rows
  <2>2. \A s \in of : sale[s].qty - sale[s].back \in Int
    BY <1>1 DEF Docs!Completed, Docs!Live
  <2>3. \A s \in back : returned[s] \in Int
    BY <2>1
  <2>4. SoldOf(sale, v)
          = [s \in Sales |-> IF s \in of THEN sale[s].qty - sale[s].back ELSE 0]
    BY DocumentOperations DEF SoldOf, Docs!Completed, Docs!Live, Docs!Rows
  <2>5. CameBack(sale, returned, v) = [s \in Sales |-> IF s \in back THEN returned[s] ELSE 0]
    BY DocumentOperations DEF CameBack, Docs!Rows
  <2>6. Docs!Documented(v) = supplied[v] - gone + came
    BY DEF Docs!Documented, Docs!MapThenSumSet, Docs!MapThenFoldSet
  <2> HIDE DEF of, back
  <2>7. gone = SumOf(SoldOf(sale, v), Sales)
    <3>1. gone = SumOf([s \in Sales |-> IF s \in of THEN sale[s].qty - sale[s].back ELSE 0], Sales)
      BY <2>1, <2>2, SalesSum
    <3>2. QED
      BY <2>4, <3>1
  <2>8. came = SumOf(CameBack(sale, returned, v), Sales)
    <3>1. came = SumOf([s \in Sales |-> IF s \in back THEN returned[s] ELSE 0], Sales)
      BY <2>1, <2>3, ReturnsSum
    <3>2. QED
      BY <2>5, <3>1
  <2> HIDE DEF gone, came
  <2>9. QED
    BY <2>6, <2>7, <2>8
<1>3. ASSUME NEW o PROVE Docs!Refunded(o, Docs!RefundsOf(o)) = RefundedOf(o)
  <2> DEFINE of == Docs!RefundsOf(o)
  <2>1. of \in SUBSET Sales /\ \A d \in of : sale[d].back \in Int
    BY <1>1 DEF Docs!RefundsOf, Docs!Rows
  <2>2. BackTo(sale, o) = [d \in Sales |-> IF d \in of THEN sale[d].back ELSE 0]
    BY DEF BackTo, Docs!RefundsOf, Docs!Rows
  <2>3. Docs!Refunded(o, of) = Docs!MapThenSumSet(LAMBDA d : sale[d].back, of)
    BY DEF Docs!Refunded, Docs!MapThenSumSet, Docs!MapThenFoldSet
  <2> HIDE DEF of
  <2>4. Docs!Refunded(o, of) = SumOf(BackTo(sale, o), Sales)
    BY <2>1, <2>2, <2>3, RefundsSum
  <2>5. QED
    BY <2>4 DEF of, RefundedOf
<1>4. ASSUME NEW v PROVE Docs!OnShelves(v) = SumOf(AtPlace(onHand, v), Shelf)
  <2>1. Docs!OnShelves(v) = Docs!MapThenSumSet(LAMBDA l : onHand[<<l, v>>], Shelf)
    BY DEF Docs!OnShelves, Docs!MapThenSumSet, Docs!MapThenFoldSet
  <2>2. Shelf \subseteq Locations
    BY ShopConstants
  <2>3. QED
    BY <2>1, <2>2, TablesFinite, ShelfSum
<1>5. QED
  BY <1>2, <1>3, <1>4

\* What the documents keep: a return has its sale; a refund has its sale and is completed,
\* and nothing can be finalized or voided that was sold already, unless it is disputed.
RowFits(d) ==
  /\ sale[d].source # NoSale =>
       /\ sale[d].channel \in {"POS", "POS_REFUND"}
       /\ sale[sale[d].source] # NoSale
       /\ sale[d].source \notin disputed => ~sale[d].deleted /\ sale[d].status = "COMPLETED"
  /\ disputed = {} =>
       /\ sale[d].status = "DRAFT" => sale[d].back = 0
       /\ sale[d].status = "VOID" => sale[d].channel = "NONE"

RowsFit ==
  /\ returned \in [Sales -> Nat] /\ supplied \in [Variants -> Nat]
  /\ \A d \in Sales : IF sale[d] = NoSale THEN returned[d] = 0 ELSE RowFits(d)

DocTotals ==
  disputed = {} => \A v \in Variants : SumOf(AtPlace(onHand, v), Shelf)
    = supplied[v] - SumOf(SoldOf(sale, v), Sales) + SumOf(CameBack(sale, returned, v), Sales)

NotOver ==
  \A s \in Sales : sale[s] # NoSale /\ s \notin raced \cup disputed =>
    returned[s] + RefundedOf(s) <= sale[s].qty

\* What a request is about to take back is left, and no other is about to.
RefundsFit ==
  \A r \in Requests : taking[r].op # "none" /\ taking[r].on \notin raced \cup disputed =>
    returned[taking[r].on] + RefundedOf(taking[r].on) + taking[r].qty <= sale[taking[r].on].qty

RefundsApart ==
  \A q, r \in Requests :
    taking[q].op # "none" /\ taking[r].op # "none" /\ taking[q].on = taking[r].on =>
      q = r \/ taking[q].on \in raced

RefundsInv == NotOver /\ RefundsFit /\ RefundsApart

DocsInv == RowsFit /\ DocTotals /\ RefundsInv /\ Docs!AggregateOffByVoids

DocsGoal == DocsInv'

\* The sums, when one document changes.
LEMMA SumsTyped ==
  ASSUME DocumentsTyped, returned \in [Sales -> Nat]
  PROVE  \A v :
           /\ \A s \in Sales : /\ SoldOf(sale, v)[s] \in Int
                               /\ CameBack(sale, returned, v)[s] \in Int
                               /\ BackTo(sale, v)[s] \in Nat
           /\ SumOf(SoldOf(sale, v), Sales) \in Int
           /\ SumOf(CameBack(sale, returned, v), Sales) \in Int
           /\ RefundedOf(v) \in Nat
<1> SUFFICES ASSUME NEW v
             PROVE  /\ \A s \in Sales : /\ SoldOf(sale, v)[s] \in Int
                                        /\ CameBack(sale, returned, v)[s] \in Int
                                        /\ BackTo(sale, v)[s] \in Nat
                    /\ SumOf(SoldOf(sale, v), Sales) \in Int
                    /\ SumOf(CameBack(sale, returned, v), Sales) \in Int
                    /\ RefundedOf(v) \in Nat
  OBVIOUS
<1>1. \A s \in Sales : sale[s] # NoSale => sale[s].qty \in Nat /\ sale[s].back \in Nat
  BY DocumentsAtShelf DEF DocumentsTyped
<1>2. \A s \in Sales : SoldOf(sale, v)[s] \in Int
  BY <1>1 DEF SoldOf
<1>3. \A s \in Sales : CameBack(sale, returned, v)[s] \in Int
  BY DEF CameBack
<1>4. \A s \in Sales : BackTo(sale, v)[s] \in Nat
  BY <1>1 DEF BackTo
<1>5. SumOf(SoldOf(sale, v), Sales) \in Int /\ SumOf(CameBack(sale, returned, v), Sales) \in Int
  BY <1>2, <1>3, TablesFinite, SumType
<1>6. RefundedOf(v) \in Nat
  BY <1>4, TablesFinite, SumNat DEF RefundedOf
<1>7. QED
  BY <1>2, <1>3, <1>4, <1>5, <1>6

LEMMA OneRowChanges ==
  ASSUME DocumentsTyped, DocumentsTyped', returned \in [Sales -> Nat], UNCHANGED returned,
         NEW d \in Sales, \A x \in Sales \ {d} : sale'[x] = sale[x]
  PROVE  /\ \A v : SumOf(SoldOf(sale', v), Sales)
                     = SumOf(SoldOf(sale, v), Sales) + SoldOf(sale', v)[d] - SoldOf(sale, v)[d]
         /\ \A v : SumOf(CameBack(sale', returned, v), Sales)
                     = SumOf(CameBack(sale, returned, v), Sales)
                         + CameBack(sale', returned, v)[d] - CameBack(sale, returned, v)[d]
         /\ \A o : RefundedOf(o)' = RefundedOf(o) + BackTo(sale', o)[d] - BackTo(sale, o)[d]
<1> SUFFICES ASSUME NEW v
             PROVE  /\ SumOf(SoldOf(sale', v), Sales)
                         = SumOf(SoldOf(sale, v), Sales) + SoldOf(sale', v)[d] - SoldOf(sale, v)[d]
                    /\ SumOf(CameBack(sale', returned, v), Sales)
                         = SumOf(CameBack(sale, returned, v), Sales)
                             + CameBack(sale', returned, v)[d] - CameBack(sale, returned, v)[d]
                    /\ SumOf(BackTo(sale', v), Sales)
                         = SumOf(BackTo(sale, v), Sales) + BackTo(sale', v)[d] - BackTo(sale, v)[d]
  BY DEF RefundedOf
<1>1. \A s \in Sales : /\ SoldOf(sale, v)[s] \in Int
                      /\ CameBack(sale, returned, v)[s] \in Int
                      /\ BackTo(sale, v)[s] \in Int
  BY SumsTyped
<1>2. \A s \in Sales : sale'[s] # NoSale => sale'[s].qty \in Nat /\ sale'[s].back \in Nat
  BY DocumentsAtShelf DEF DocumentsTyped
<1>3. \A s \in Sales : /\ SoldOf(sale', v)[s] \in Int
                      /\ CameBack(sale', returned, v)[s] \in Int
                      /\ BackTo(sale', v)[s] \in Int
  <2>1. \A s \in Sales : SoldOf(sale', v)[s] \in Int
    BY <1>2 DEF SoldOf
  <2>2. \A s \in Sales : CameBack(sale', returned, v)[s] \in Int
    BY DEF CameBack
  <2>3. \A s \in Sales : BackTo(sale', v)[s] \in Int
    BY <1>2 DEF BackTo
  <2>4. QED
    BY <2>1, <2>2, <2>3
<1>4. \A s \in Sales \ {d} : /\ SoldOf(sale', v)[s] = SoldOf(sale, v)[s]
                            /\ CameBack(sale', returned, v)[s] = CameBack(sale, returned, v)[s]
                            /\ BackTo(sale', v)[s] = BackTo(sale, v)[s]
  BY DEF SoldOf, CameBack, BackTo
<1>5. QED
  BY <1>1, <1>3, <1>4, TablesFinite, SumChange

\* A document is written, and the others stay as they are.
LEMMA RowsKeep ==
  ASSUME DocumentsTyped, RowsFit, NEW d \in Sales, \A x \in Sales \ {d} : sale'[x] = sale[x],
         sale'[d] # NoSale, UNCHANGED <<returned, supplied>>, disputed \subseteq disputed',
         RowFits(d)'
  PROVE  RowsFit'
<1>1. ASSUME NEW o \in Sales
      PROVE  IF sale'[o] = NoSale THEN returned[o] = 0 ELSE RowFits(o)'
  <2>1. CASE o = d
    BY <2>1
  <2>2. CASE o # d /\ sale[o] = NoSale
    BY <2>2 DEF RowsFit
  <2>3. CASE o # d /\ sale[o] # NoSale
    <3>1. RowFits(o) /\ sale'[o] = sale[o]
      BY <2>3 DEF RowsFit
    <3>2. sale[o].source # NoSale => sale[o].source \in Sales
      BY <2>3, DocumentsAtShelf DEF DocumentsTyped
    <3>3. sale[o].source # NoSale => sale'[sale[o].source] # NoSale
      BY <3>1, <3>2 DEF RowFits
    <3>4. QED
      BY <2>3, <3>1, <3>3 DEF RowFits
  <2>4. QED
    BY <2>1, <2>2, <2>3
<1>2. QED
  BY <1>1 DEF RowsFit

LEMMA DocTotalsKeep ==
  ASSUME DocumentsTyped, DocumentsTyped', StockTypeOK, RowsFit, DocTotals,
         NEW d \in Sales, \A x \in Sales \ {d} : sale'[x] = sale[x],
         UNCHANGED <<returned, supplied>>, disputed \subseteq disputed',
         disputed' = {} => \A v \in Variants :
           /\ CameBack(sale', returned, v)[d] = CameBack(sale, returned, v)[d]
           /\ SumOf(AtPlace(onHand', v), Shelf)
                = SumOf(AtPlace(onHand, v), Shelf) + SoldOf(sale, v)[d] - SoldOf(sale', v)[d]
  PROVE  DocTotals'
<1> SUFFICES ASSUME disputed' = {}, NEW v \in Variants
             PROVE  SumOf(AtPlace(onHand', v), Shelf)
                      = supplied[v] - SumOf(SoldOf(sale', v), Sales)
                          + SumOf(CameBack(sale', returned, v), Sales)
  BY DEF DocTotals
<1> DEFINE here == SumOf(AtPlace(onHand, v), Shelf)
           gone == SumOf(SoldOf(sale, v), Sales)
           came == SumOf(CameBack(sale, returned, v), Sales)
           old == SoldOf(sale, v)[d]
           new == SoldOf(sale', v)[d]
           back == CameBack(sale, returned, v)[d]
<1>1. returned \in [Sales -> Nat] /\ supplied[v] \in Nat
  BY DEF RowsFit
<1>2. gone \in Int /\ came \in Int /\ old \in Int /\ back \in Int
  BY <1>1, SumsTyped
<1>3. new \in Int
  BY DocumentsAtShelf DEF DocumentsTyped, SoldOf
<1>4. here \in Int
  BY ShopConstants, TablesFinite, ShelvesTyped DEF StockTypeOK
<1>5. /\ SumOf(SoldOf(sale', v), Sales) = gone + new - old
      /\ SumOf(CameBack(sale', returned, v), Sales)
           = came + CameBack(sale', returned, v)[d] - back
  BY <1>1, OneRowChanges
<1>6. CameBack(sale', returned, v)[d] = back
  OBVIOUS
<1>7. here = supplied[v] - gone + came
  BY DEF DocTotals
<1>8. SumOf(AtPlace(onHand', v), Shelf) = here + old - new
  OBVIOUS
<1> HIDE DEF here, gone, came, old, new, back
<1>9. QED
  BY <1>1, <1>2, <1>3, <1>4, <1>5, <1>6, <1>7, <1>8

\* A document that is not there has nothing, and no request is on it.
LEMMA FreshRow ==
  ASSUME DocumentsTyped, RowsFit, NEW d \in Sales, sale[d] = NoSale
  PROVE  /\ returned[d] = 0 /\ RefundedOf(d) = 0
         /\ \A r \in Requests : taking[r].op # "none" => taking[r].on # d
         /\ \A v : /\ SoldOf(sale, v)[d] = 0 /\ CameBack(sale, returned, v)[d] = 0
                   /\ BackTo(sale, v)[d] = 0
<1>1. returned[d] = 0
  BY DEF RowsFit
<1>2. ASSUME NEW x \in Sales PROVE BackTo(sale, d)[x] = 0
  BY NoSaleIsNone DEF RowsFit, RowFits, BackTo
<1>3. RefundedOf(d) = 0
  BY <1>2, TablesFinite, SumOfZeros DEF RefundedOf
<1>4. \A r \in Requests : taking[r].op # "none" => taking[r].on # d
  BY NoSaleIsNone DEF DocumentsTyped
<1>5. \A v : /\ SoldOf(sale, v)[d] = 0 /\ CameBack(sale, returned, v)[d] = 0
             /\ BackTo(sale, v)[d] = 0
  BY DEF SoldOf, CameBack, BackTo
<1>6. QED
  BY <1>1, <1>3, <1>4, <1>5

\* Nor has one that nothing refers to.
LEMMA Unreferenced ==
  ASSUME RowsFit, NEW d \in Sales, ~Docs!Referenced(d), Docs!Refunding(d) = {}
  PROVE  /\ returned[d] = 0 /\ RefundedOf(d) = 0
         /\ \A r \in Requests : taking[r].op # "none" => taking[r].on # d
<1>1. returned[d] = 0
  BY DEF RowsFit, Docs!Referenced
<1>2. ASSUME NEW x \in Sales PROVE BackTo(sale, d)[x] = 0
  BY DEF BackTo, Docs!Referenced, Docs!RefundsOf, Docs!Rows
<1>3. RefundedOf(d) = 0
  BY <1>2, TablesFinite, SumOfZeros DEF RefundedOf
<1>4. \A r \in Requests : taking[r].on # d
  BY DEF Docs!Refunding
<1>5. QED
  BY <1>1, <1>3, <1>4

\* The refunds of a document whose line shrinks or is new, and of those that keep theirs.
LEMMA RefundsKeep ==
  ASSUME DocumentsTyped, DocumentsTyped', RowsFit, RefundsInv,
         NEW d \in Sales, \A x \in Sales \ {d} : sale'[x] = sale[x], sale'[d] # NoSale,
         UNCHANGED <<returned, taking, raced>>, disputed \subseteq disputed',
         \A o : BackTo(sale', o)[d] = BackTo(sale, o)[d],
         \/ sale[d] # NoSale /\ sale'[d].qty = sale[d].qty
         \/ /\ returned[d] = 0 /\ RefundedOf(d) = 0
            /\ \A r \in Requests : taking[r].op # "none" => taking[r].on # d
  PROVE  RefundsInv'
<1>1. returned \in [Sales -> Nat]
  BY DEF RowsFit
<1>2. ASSUME NEW o PROVE RefundedOf(o)' = RefundedOf(o)
  <2>1. RefundedOf(o)' = RefundedOf(o) + BackTo(sale', o)[d] - BackTo(sale, o)[d]
    BY <1>1, OneRowChanges
  <2>2. RefundedOf(o) \in Nat /\ BackTo(sale, o)[d] \in Nat
    BY <1>1, SumsTyped
  <2>3. BackTo(sale', o)[d] = BackTo(sale, o)[d]
    OBVIOUS
  <2>4. QED
    BY <2>1, <2>2, <2>3
<1>3. sale'[d].qty \in Nat
  BY DocumentsAtShelf DEF DocumentsTyped
<1>4. NotOver'
  <2> SUFFICES ASSUME NEW s \in Sales, sale'[s] # NoSale, s \notin raced \cup disputed'
               PROVE  returned[s] + RefundedOf(s)' <= sale'[s].qty
    BY DEF NotOver
  <2>1. RefundedOf(s)' = RefundedOf(s)
    BY <1>2
  <2>2. CASE s = d /\ returned[d] = 0 /\ RefundedOf(d) = 0
    BY <1>3, <2>1, <2>2
  <2>3. CASE sale[s] # NoSale /\ sale'[s].qty = sale[s].qty
    BY <2>1, <2>3 DEF RefundsInv, NotOver
  <2>4. QED
    BY <2>2, <2>3
<1>5. RefundsFit'
  <2> SUFFICES ASSUME NEW r \in Requests, taking[r].op # "none",
                      taking[r].on \notin raced \cup disputed'
               PROVE  returned[taking[r].on] + RefundedOf(taking[r].on)' + taking[r].qty
                        <= sale'[taking[r].on].qty
    BY DEF RefundsFit
  <2>1. taking[r].on \in Sales /\ RefundedOf(taking[r].on)' = RefundedOf(taking[r].on)
    BY <1>2 DEF DocumentsTyped
  <2>2. sale'[taking[r].on].qty = sale[taking[r].on].qty
    BY <2>1
  <2>3. QED
    BY <2>1, <2>2 DEF RefundsInv, RefundsFit
<1>6. RefundsApart'
  BY DEF RefundsInv, RefundsApart
<1>7. QED
  BY <1>4, <1>5, <1>6 DEF RefundsInv

\* A refund of s commits: what it takes back was left, and who else is about to take from s
\* is known to race.
LEMMA RefundsTaken ==
  ASSUME DocumentsTyped, DocumentsTyped', RowsFit, RefundsInv,
         NEW d \in Sales, \A x \in Sales \ {d} : sale'[x] = sale[x],
         sale[d] = NoSale, sale'[d] # NoSale,
         NEW s \in Sales, sale[s] # NoSale, NEW n \in Nat,
         sale'[d].source = s, sale'[d].back = n,
         UNCHANGED <<returned, raced, disputed>>,
         s \notin raced \cup disputed => returned[s] + RefundedOf(s) + n <= sale[s].qty,
         \A r \in Requests : taking'[r].op # "none" =>
           taking'[r] = taking[r] /\ (taking[r].on = s => s \in raced)
  PROVE  RefundsInv'
<1>1. returned \in [Sales -> Nat]
  BY DEF RowsFit
<1>2. ASSUME NEW o PROVE RefundedOf(o)' = RefundedOf(o) + (IF o = s THEN n ELSE 0)
  <2>1. RefundedOf(o)' = RefundedOf(o) + BackTo(sale', o)[d] - BackTo(sale, o)[d]
    BY <1>1, OneRowChanges
  <2>2. RefundedOf(o) \in Nat
    BY <1>1, SumsTyped
  <2>3. BackTo(sale, o)[d] = 0
    BY FreshRow
  <2>4. BackTo(sale', o)[d] = IF o = s THEN n ELSE 0
    BY DEF BackTo
  <2>5. QED
    BY <2>1, <2>2, <2>3, <2>4
<1>3. sale'[d].qty \in Nat /\ returned[d] = 0 /\ RefundedOf(d) = 0 /\ d # s
  BY FreshRow, DocumentsAtShelf DEF DocumentsTyped
<1>4. \A o : RefundedOf(o) \in Nat
  BY <1>1, SumsTyped
<1>5. NotOver'
  <2> SUFFICES ASSUME NEW x \in Sales, sale'[x] # NoSale, x \notin raced \cup disputed
               PROVE  returned[x] + RefundedOf(x)' <= sale'[x].qty
    BY DEF NotOver
  <2>1. RefundedOf(x)' = RefundedOf(x) + (IF x = s THEN n ELSE 0)
    BY <1>2
  <2>2. CASE x = d
    BY <1>3, <2>1, <2>2
  <2>3. CASE x = s
    <3>1. sale'[x] = sale[x] /\ RefundedOf(x)' = RefundedOf(x) + n
      BY <1>3, <2>1, <2>3
    <3>2. returned[x] + RefundedOf(x) + n <= sale[x].qty
      BY <2>3
    <3>3. returned[x] \in Nat /\ RefundedOf(x) \in Nat
      BY <1>1, <1>4
    <3>4. QED
      BY <3>1, <3>2, <3>3
  <2>4. CASE x # d /\ x # s
    <3>1. sale'[x] = sale[x] /\ RefundedOf(x)' = RefundedOf(x)
      BY <1>4, <2>1, <2>4
    <3>2. QED
      BY <3>1 DEF RefundsInv, NotOver
  <2>5. QED
    BY <2>2, <2>3, <2>4
<1>6. RefundsFit'
  <2>1. ASSUME NEW r \in Requests, taking'[r].op # "none", NEW x, x = taking'[r].on,
               x \notin raced \cup disputed
        PROVE  returned[x] + RefundedOf(x)' + taking'[r].qty <= sale'[x].qty
    <3>1. taking'[r] = taking[r] /\ x # s /\ x \in Sales /\ sale[x] # NoSale
      BY <2>1, NoSaleIsNone DEF DocumentsTyped
    <3>2. RefundedOf(x)' = RefundedOf(x) /\ sale'[x] = sale[x]
      BY <1>2, <1>4, <3>1
    <3>3. returned[x] + RefundedOf(x) + taking[r].qty <= sale[x].qty
      BY <2>1, <3>1 DEF RefundsInv, RefundsFit
    <3>4. QED
      BY <3>1, <3>2, <3>3
  <2>2. QED
    BY <2>1 DEF RefundsFit, RefundedOf
<1>7. RefundsApart'
  BY DEF RefundsInv, RefundsApart
<1>8. QED
  BY <1>5, <1>6, <1>7 DEF RefundsInv

\* The aggregates follow the balances, and a void stays one.
LEMMA AggregateKeeps ==
  ASSUME Docs!AggregateOffByVoids, NEW d \in Sales, \A x \in Sales \ {d} : sale'[x] = sale[x],
         sale'[d] # NoSale, disputed \subseteq disputed',
         aggregate = onHand => aggregate' = onHand',
         \/ sale[d] = NoSale \/ sale[d].status # "VOID" \/ sale'[d].status = "VOID"
         \/ disputed' # {}
  PROVE  Docs!AggregateOffByVoids'
BY DEF Docs!AggregateOffByVoids, Docs!Rows

LEMMA StockKeepsAggregate ==
  ASSUME StockTypeOK, NEW l, NEW i, NEW q, NEW status,
         Issue(l, i, q, status) \/ Stocked(l, i, q), aggregate = onHand
  PROVE  aggregate' = onHand'
BY DEF Issue, Stocked

LEMMA ShelfFinite == IsFiniteSet(Shelf) /\ Shelf \subseteq Locations
BY ShopConstants, TablesFinite

LEMMA SupplyDocs ==
  ASSUME StockTypeOK, DocumentsTyped, DocsInv,
         NEW l \in Shelf, NEW i \in Items, NEW q \in Nat, Docs!Supply(l, i, q)
  PROVE  DocsGoal
<1> DEFINE u == VariantOf(i)
<1> USE DEF DocsInv
<1>1. /\ supplied[u] = 0 /\ Stocked(l, i, q)
      /\ supplied' = [supplied EXCEPT ![u] = q]
      /\ UNCHANGED <<sale, returned, taking, raced, disputed>>
  BY DocumentOperations DEF Docs!Supply, Docs!documents
<1>2. u \in Variants /\ supplied \in [Variants -> Nat] /\ returned \in [Sales -> Nat]
  BY DEF RowsFit, VariantOf, Variants, Items
<1>3. RowsFit'
  BY <1>1, <1>2 DEF RowsFit, RowFits
<1>4. RefundsInv'
  BY <1>1 DEF RefundsInv, NotOver, RefundsFit, RefundsApart, RefundedOf
<1>5. ASSUME disputed = {}, NEW v \in Variants
      PROVE  SumOf(AtPlace(onHand', v), Shelf)
               = supplied'[v] - SumOf(SoldOf(sale, v), Sales)
                   + SumOf(CameBack(sale, returned, v), Sales)
  <2>1. SumOf(AtPlace(onHand', v), Shelf)
          = SumOf(AtPlace(onHand, v), Shelf) + (IF u = v THEN q ELSE 0)
    BY <1>1, ShelfFinite, ReceiptMoves
  <2>2. SumOf(AtPlace(onHand, v), Shelf)
          = supplied[v] - SumOf(SoldOf(sale, v), Sales)
              + SumOf(CameBack(sale, returned, v), Sales)
    BY <1>5 DEF DocTotals
  <2>3. /\ SumOf(SoldOf(sale, v), Sales) \in Int
        /\ SumOf(CameBack(sale, returned, v), Sales) \in Int
    BY <1>2, SumsTyped
  <2>4. supplied'[v] = supplied[v] + (IF u = v THEN q ELSE 0) /\ supplied[v] \in Nat
    BY <1>1, <1>2
  <2> HIDE DEF u
  <2>5. QED
    BY <2>1, <2>2, <2>3, <2>4
<1>6. DocTotals'
  BY <1>1, <1>5 DEF DocTotals
<1>7. Docs!AggregateOffByVoids'
  BY <1>1, StockKeepsAggregate DEF Docs!AggregateOffByVoids, Docs!Rows
<1>8. QED
  BY <1>3, <1>4, <1>6, <1>7 DEF DocsGoal

\* A document of its own: a sale, a held sale, a void.
LEMMA NewRow ==
  ASSUME StockTypeOK, DocumentsTyped, DocumentsTyped', DocsInv,
         NEW d \in Sales, \A x \in Sales \ {d} : sale'[x] = sale[x],
         sale[d] = NoSale, sale'[d] # NoSale, sale'[d].source = NoSale, sale'[d].back = 0,
         sale'[d].status = "VOID" => sale'[d].channel = "NONE",
         UNCHANGED <<returned, supplied, taking, raced, disputed>>,
         \A v \in Variants : SumOf(AtPlace(onHand', v), Shelf)
           = SumOf(AtPlace(onHand, v), Shelf) - SoldOf(sale', v)[d],
         (aggregate = onHand => aggregate' = onHand') \/ sale'[d].status = "VOID"
  PROVE  DocsGoal
<1> USE DEF DocsInv
<1>1. /\ returned[d] = 0 /\ RefundedOf(d) = 0
      /\ \A r \in Requests : taking[r].op # "none" => taking[r].on # d
      /\ \A v : /\ SoldOf(sale, v)[d] = 0 /\ CameBack(sale, returned, v)[d] = 0
                /\ BackTo(sale, v)[d] = 0
  BY FreshRow
<1>2. RowFits(d)'
  BY DEF RowFits
<1>3. RowsFit'
  BY <1>2, RowsKeep
<1>4. \A v : BackTo(sale', v)[d] = 0 /\ CameBack(sale', returned, v)[d] = 0
  BY <1>1 DEF BackTo, CameBack
<1>5. RefundsInv'
  BY <1>1, <1>4, RefundsKeep
<1>6. ASSUME NEW v \in Variants
      PROVE  SumOf(AtPlace(onHand', v), Shelf)
               = SumOf(AtPlace(onHand, v), Shelf) + SoldOf(sale, v)[d] - SoldOf(sale', v)[d]
  <2>1. SumOf(AtPlace(onHand, v), Shelf) \in Int
    BY ShelfFinite, ShelvesTyped DEF StockTypeOK
  <2>2. SoldOf(sale', v)[d] \in Int
    BY DocumentsAtShelf DEF DocumentsTyped, SoldOf
  <2>3. QED
    BY <1>1, <2>1, <2>2
<1>7. DocTotals'
  BY <1>1, <1>4, <1>6, DocTotalsKeep
<1>8. Docs!AggregateOffByVoids'
  <2>1. CASE sale'[d].status = "VOID"
    BY <2>1 DEF Docs!AggregateOffByVoids, Docs!Rows
  <2>2. CASE aggregate = onHand => aggregate' = onHand'
    BY <2>2, AggregateKeeps
  <2>3. QED
    BY <2>1, <2>2
<1>9. QED
  BY <1>3, <1>5, <1>7, <1>8 DEF DocsGoal

LEMMA CreateSaleDocs ==
  ASSUME StockTypeOK, DocumentsTyped, DocumentsTyped', DocsInv,
         NEW s \in Sales, NEW l \in Shelf, NEW channel \in {"POS", "INVOICE"},
         NEW ln \in Docs!Lines, NEW approved, Docs!CreateSale(s, l, channel, ln, approved)
  PROVE  DocsGoal
<1> DEFINE doc == Docs!Document(l, "COMPLETED", channel, ln.item, ln.qty, NoSale, 0)
<1>1. /\ sale[s] = NoSale /\ Issue(l, ln.item, ln.qty, "SOLD")
      /\ sale' = [sale EXCEPT ![s] = doc]
      /\ UNCHANGED <<returned, supplied, taking, raced, disputed>>
  BY DocumentOperations DEF Docs!CreateSale
<1>2. /\ ln.item \in Items /\ ln.qty \in Nat /\ doc \in Docs!DocumentRecord
  <2>1. ln.item \in Items /\ ln.qty \in Nat
    BY DocumentLines
  <2>2. doc \in Docs!DocumentRecord
    BY <2>1, DocumentTyped
  <2> HIDE DEF doc
  <2>3. QED
    BY <2>1, <2>2
<1>3. /\ doc.status = "COMPLETED" /\ doc.item = ln.item /\ doc.qty = ln.qty /\ ~doc.deleted
      /\ doc.source = NoSale /\ doc.back = 0
  BY DEF Docs!Document
<1> HIDE DEF doc
<1>4. sale'[s] = doc /\ sale'[s] # NoSale /\ \A x \in Sales \ {s} : sale'[x] = sale[x]
  BY <1>1, <1>2, NoSaleIsNone DEF DocumentsTyped
<1>5. ASSUME NEW v \in Variants
      PROVE  SumOf(AtPlace(onHand', v), Shelf)
               = SumOf(AtPlace(onHand, v), Shelf) - SoldOf(sale', v)[s]
  <2>1. SumOf(AtPlace(onHand', v), Shelf)
          = SumOf(AtPlace(onHand, v), Shelf) - (IF VariantOf(ln.item) = v THEN ln.qty ELSE 0)
    BY <1>1, <1>2, ShelfFinite, IssueMoves
  <2>2. SoldOf(sale', v)[s] = IF VariantOf(ln.item) = v THEN ln.qty ELSE 0
    BY <1>2, <1>3, <1>4 DEF SoldOf
  <2>3. QED
    BY <2>1, <2>2
<1>6. QED
  BY <1>1, <1>3, <1>4, <1>5, NewRow, StockKeepsAggregate

LEMMA CreateHeldSaleDocs ==
  ASSUME StockTypeOK, DocumentsTyped, DocumentsTyped', DocsInv,
         NEW s \in Sales, NEW l \in Shelf, NEW ln \in Docs!Lines,
         Docs!CreateHeldSale(s, l, ln)
  PROVE  DocsGoal
<1> DEFINE doc == Docs!Document(l, "DRAFT", "HELD", ln.item, ln.qty, NoSale, 0)
<1>1. /\ sale[s] = NoSale /\ UNCHANGED <<onHand, aggregate>>
      /\ sale' = [sale EXCEPT ![s] = doc]
      /\ UNCHANGED <<returned, supplied, taking, raced, disputed>>
  BY DEF Docs!CreateHeldSale, Docs!stock, Docs!balances
<1>2. doc \in Docs!DocumentRecord
  BY DocumentLines DEF Docs!Document, Docs!DocumentRecord, Items, Docs!Items
<1>3. doc.status = "DRAFT" /\ doc.source = NoSale /\ doc.back = 0
  BY DEF Docs!Document
<1> HIDE DEF doc
<1>4. sale'[s] = doc /\ sale'[s] # NoSale /\ \A x \in Sales \ {s} : sale'[x] = sale[x]
  BY <1>1, <1>2, NoSaleIsNone DEF DocumentsTyped
<1>5. ASSUME NEW v \in Variants
      PROVE  SumOf(AtPlace(onHand', v), Shelf)
               = SumOf(AtPlace(onHand, v), Shelf) - SoldOf(sale', v)[s]
  <2>1. SumOf(AtPlace(onHand, v), Shelf) \in Int
    BY ShelfFinite, ShelvesTyped DEF StockTypeOK
  <2>2. SoldOf(sale', v)[s] = 0
    BY <1>3, <1>4 DEF SoldOf
  <2>3. QED
    BY <1>1, <2>1, <2>2
<1>6. QED
  BY <1>1, <1>3, <1>4, <1>5, NewRow

LEMMA VoidSaleDocs ==
  ASSUME StockTypeOK, DocumentsTyped, DocumentsTyped', DocsInv,
         NEW s \in Sales, NEW d \in Sales, NEW reversed, Docs!VoidSale(d, s, reversed)
  PROVE  DocsGoal
<1> DEFINE doc == Docs!Document(sale[s].at, "VOID", "NONE", sale[s].item, 0, NoSale, 0)
<1>1. /\ sale[d] = NoSale /\ UNCHANGED onHand /\ s \in Docs!Rows
      /\ sale' = [sale EXCEPT ![d] = doc]
      /\ UNCHANGED <<returned, supplied, taking, raced, disputed>>
  BY DEF Docs!VoidSale, Docs!Live
<1>2. doc \in Docs!DocumentRecord
  <2>1. sale[s] \in Docs!DocumentRecord
    BY <1>1 DEF DocumentsTyped, Docs!Rows
  <2>2. QED
    BY <2>1, DocumentsAtShelf DEF Docs!Document, Docs!DocumentRecord, Items, Docs!Items
<1>3. doc.status = "VOID" /\ doc.channel = "NONE" /\ doc.source = NoSale /\ doc.back = 0
  BY DEF Docs!Document
<1> HIDE DEF doc
<1>4. sale'[d] = doc /\ sale'[d] # NoSale /\ \A x \in Sales \ {d} : sale'[x] = sale[x]
  BY <1>1, <1>2, NoSaleIsNone DEF DocumentsTyped
<1>5. ASSUME NEW v \in Variants
      PROVE  SumOf(AtPlace(onHand', v), Shelf)
               = SumOf(AtPlace(onHand, v), Shelf) - SoldOf(sale', v)[d]
  <2>1. SumOf(AtPlace(onHand, v), Shelf) \in Int
    BY ShelfFinite, ShelvesTyped DEF StockTypeOK
  <2>2. SoldOf(sale', v)[d] = 0
    BY <1>3, <1>4 DEF SoldOf
  <2>3. QED
    BY <1>1, <2>1, <2>2
<1>6. QED
  BY <1>1, <1>3, <1>4, <1>5, NewRow


\* What a line has left, if the refunds of its sale are all as they were made.
LEMMA LeftIs ==
  ASSUME DocumentsTyped, RowsFit, NEW s \in Sales, sale[s] # NoSale, s \notin disputed,
         NEW n \in Nat \ {0}, n <= Docs!Left(s) \/ n <= Docs!Left(s) - n
  PROVE  returned[s] + RefundedOf(s) + n <= sale[s].qty
<1>1. returned \in [Sales -> Nat]
  BY DEF RowsFit
<1>2. Docs!RefundsOf(s) \cap Docs!Completed = Docs!RefundsOf(s)
  BY NoSaleIsNone
  DEF RowsFit, RowFits, Docs!RefundsOf, Docs!Completed, Docs!Live, Docs!Rows
<1>3. Docs!Refunded(s, Docs!RefundsOf(s)) = RefundedOf(s)
  BY <1>1, DocumentSums
<1>4. returned[s] \in Nat /\ RefundedOf(s) \in Nat /\ sale[s].qty \in Nat
  BY <1>1, SumsTyped, DocumentsAtShelf DEF DocumentsTyped
<1>5. Docs!Left(s) = IF sale[s].qty - returned[s] - RefundedOf(s) < 0 THEN 0
                     ELSE sale[s].qty - returned[s] - RefundedOf(s)
  BY <1>2, <1>3 DEF Docs!Left
<1>6. QED
  BY <1>4, <1>5

\* A refund is a document that takes its quantity back from the sale it refers to.
LEMMA RefundDocs ==
  ASSUME StockTypeOK, DocumentsTyped, DocumentsTyped', DocsInv,
         NEW s \in Sales, NEW d \in Sales, NEW n \in Nat, NEW channel \in {"POS", "POS_REFUND"},
         sale[s] \in Docs!DocumentRecord, sale[d] = NoSale,
         Docs!Stocked(sale[s].at, sale[s].item, n),
         sale' = [sale EXCEPT ![d] =
           Docs!Document(sale[s].at, "COMPLETED", channel, sale[s].item, 0, s, n)],
         UNCHANGED <<returned, supplied, raced, disputed>>,
         s \notin raced \cup disputed => returned[s] + RefundedOf(s) + n <= sale[s].qty,
         \A r \in Requests : taking'[r].op # "none" =>
           taking'[r] = taking[r] /\ (taking[r].on = s => s \in raced)
  PROVE  DocsGoal
<1> USE DEF DocsInv
<1>1. PICK old \in Docs!DocumentRecord : old = sale[s]
  OBVIOUS
<1>2. /\ Stocked(old.at, old.item, n)
      /\ old.at \in Locations /\ old.at \in Shelf /\ old.item \in Items
  BY <1>1, DocumentOperations, DocumentsAtShelf
<1>3. PICK doc : doc = Docs!Document(old.at, "COMPLETED", channel, old.item, 0, s, n)
  OBVIOUS
<1>4. /\ doc \in Docs!DocumentRecord /\ doc.qty = 0 /\ doc.status = "COMPLETED"
      /\ ~doc.deleted /\ doc.item = old.item /\ doc.source = s /\ doc.back = n
      /\ doc.channel = channel
  BY <1>2, <1>3 DEF Docs!Document, Docs!DocumentRecord, Items, Docs!Items
<1>5. /\ sale'[d] = doc /\ sale'[d] # NoSale /\ s # d /\ sale'[s] = old /\ old # NoSale
      /\ \A x \in Sales \ {d} : sale'[x] = sale[x]
  BY <1>1, <1>3, <1>4, NoSaleIsNone DEF DocumentsTyped
<1>6. RowsFit'
  <2>1. RowFits(d)'
    BY <1>4, <1>5 DEF RowFits
  <2>2. QED
    BY <1>5, <2>1, RowsKeep
<1>7. ASSUME NEW v \in Variants
      PROVE  /\ CameBack(sale', returned, v)[d] = CameBack(sale, returned, v)[d]
             /\ SumOf(AtPlace(onHand', v), Shelf)
                  = SumOf(AtPlace(onHand, v), Shelf) + SoldOf(sale, v)[d] - SoldOf(sale', v)[d]
  <2>1. returned[d] = 0 /\ SoldOf(sale, v)[d] = 0 /\ CameBack(sale, returned, v)[d] = 0
    BY FreshRow
  <2>2. CameBack(sale', returned, v)[d] = 0
    BY <2>1 DEF CameBack
  <2>3. SoldOf(sale', v)[d] = IF VariantOf(old.item) = v THEN 0 - n ELSE 0
    BY <1>4, <1>5 DEF SoldOf
  <2>4. SumOf(AtPlace(onHand', v), Shelf)
          = SumOf(AtPlace(onHand, v), Shelf) + (IF VariantOf(old.item) = v THEN n ELSE 0)
    BY <1>2, ShelfFinite, ReceiptMoves
  <2>5. SumOf(AtPlace(onHand, v), Shelf) \in Int
    BY ShelfFinite, ShelvesTyped DEF StockTypeOK
  <2>6. QED
    BY <2>1, <2>2, <2>3, <2>4, <2>5
<1>8. DocTotals'
  BY <1>5, <1>7, DocTotalsKeep
<1>9. RefundsInv'
  BY <1>1, <1>4, <1>5, RefundsTaken
<1>10. Docs!AggregateOffByVoids'
  <2>1. aggregate = onHand => aggregate' = onHand'
    BY <1>2, StockKeepsAggregate
  <2>2. QED
    BY <1>5, <2>1, AggregateKeeps
<1>11. QED
  BY <1>6, <1>8, <1>9, <1>10 DEF DocsGoal

LEMMA CreateRefundInvoiceDocs ==
  ASSUME StockTypeOK, DocumentsTyped, DocumentsTyped', DocsInv,
         NEW s \in Sales, NEW d \in Sales, NEW n \in Nat \ {0},
         Docs!CreateRefundInvoice(d, s, n)
  PROVE  DocsGoal
<1> USE DEF DocsInv
<1>1. /\ sale[s] \in Docs!DocumentRecord /\ sale[s] # NoSale
      /\ UNCHANGED <<returned, taking, supplied, raced, disputed>>
      /\ sale[d] = NoSale /\ Docs!Stocked(sale[s].at, sale[s].item, n)
      /\ sale' = [sale EXCEPT ![d] =
           Docs!Document(sale[s].at, "COMPLETED", "POS_REFUND", sale[s].item, 0, s, n)]
  BY DEF Docs!CreateRefundInvoice, Docs!Completed, Docs!Live, Docs!Rows, DocumentsTyped
<1>2. s \notin raced \cup disputed => returned[s] + RefundedOf(s) + n <= sale[s].qty
  BY <1>1, LeftIs DEF Docs!CreateRefundInvoice
<1>3. \A r \in Requests : taking'[r] = taking[r] /\ taking[r].on # s
  BY <1>1 DEF Docs!CreateRefundInvoice, Docs!Refunding
<1>4. QED
  BY <1>1, <1>2, <1>3, RefundDocs

LEMMA TillRefundDocs ==
  ASSUME StockTypeOK, DocumentsTyped, DocumentsTyped', DocsInv,
         NEW r \in Requests, NEW d \in Sales, Docs!TillRefund(r, d)
  PROVE  DocsGoal
<1> USE DEF DocsInv
<1>1. PICK s \in Sales : s = taking[r].on /\ sale[s] \in Docs!DocumentRecord
  BY DEF Docs!TillRefund, DocumentsTyped
<1>2. PICK n \in Nat : n = taking[r].qty
  BY DEF DocumentsTyped
<1>3. /\ sale[d] = NoSale /\ taking[r].op # "none" /\ Docs!Stocked(sale[s].at, sale[s].item, n)
      /\ sale' = [sale EXCEPT ![d] =
           Docs!Document(sale[s].at, "COMPLETED", "POS", sale[s].item, 0, s, n)]
      /\ taking' = [taking EXCEPT ![r] = Docs!Idle]
      /\ UNCHANGED <<returned, supplied, raced, disputed>>
  BY <1>1, <1>2 DEF Docs!TillRefund
<1>4. s \notin raced \cup disputed => returned[s] + RefundedOf(s) + n <= sale[s].qty
  BY <1>1, <1>2, <1>3 DEF RefundsInv, RefundsFit
<1>5. ASSUME NEW q \in Requests, taking'[q].op # "none"
      PROVE  taking'[q] = taking[q] /\ (taking[q].on = s => s \in raced)
  <2>1. q # r /\ taking'[q] = taking[q]
    BY <1>3, <1>5 DEF DocumentsTyped, Docs!Idle
  <2>2. QED
    BY <1>1, <1>3, <1>5, <2>1 DEF RefundsInv, RefundsApart
<1>6. QED
  BY <1>1, <1>3, <1>4, <1>5, RefundDocs

\* Steps of requests leave the stock and the documents as they are.
LEMMA RequestDocs ==
  ASSUME DocsInv, UNCHANGED <<stock, sale, returned, disputed, supplied>>, RefundsInv'
  PROVE  DocsGoal
<1>1. RowsFit' /\ DocTotals'
  BY DEF DocsInv, RowsFit, RowFits, DocTotals, stock, balances
<1>2. Docs!AggregateOffByVoids'
  BY DEF DocsInv, Docs!AggregateOffByVoids, Docs!Rows, stock, balances
<1>3. QED
  BY <1>1, <1>2 DEF DocsGoal, DocsInv

LEMMA RollBackDocs ==
  ASSUME DocumentsTyped, DocsInv, NEW r \in Requests, Docs!RollBack(r)
  PROVE  DocsGoal
<1>1. /\ UNCHANGED <<stock, sale, returned, raced, disputed, supplied>>
      /\ \A q \in Requests : taking'[q].op # "none" => taking'[q] = taking[q]
  BY DEF DocumentsTyped, Docs!RollBack, Docs!Idle, Docs!stock, Docs!balances, stock, balances
<1>2. RefundsInv'
  <2>1. NotOver'
    BY <1>1 DEF DocsInv, RefundsInv, NotOver, RefundedOf
  <2>2. ASSUME NEW q \in Requests, taking'[q].op # "none", NEW x, x = taking'[q].on,
               x \notin raced \cup disputed
        PROVE  returned[x] + SumOf(BackTo(sale, x), Sales) + taking'[q].qty <= sale[x].qty
    BY <1>1, <2>2 DEF DocsInv, RefundsInv, RefundsFit, RefundedOf
  <2>3. RefundsFit'
    BY <1>1, <2>2 DEF RefundsFit, RefundedOf
  <2>4. RefundsApart'
    BY <1>1 DEF DocsInv, RefundsInv, RefundsApart
  <2>5. QED
    BY <2>1, <2>3, <2>4 DEF RefundsInv
<1>3. QED
  BY <1>1, <1>2, RequestDocs

LEMMA BeginDocs ==
  ASSUME DocumentsTyped, DocumentsTyped', DocsInv, NEW r \in Requests, NEW s \in Sales,
         NEW n \in Nat \ {0}, Docs!BeginTillRefund(r, s, n) \/ Docs!BeginReturn(r, s, n)
  PROVE  DocsGoal
<1>1. /\ UNCHANGED <<stock, sale, returned, disputed, supplied>>
      /\ raced \subseteq raced' /\ sale[s] # NoSale
      /\ n <= Docs!Left(s) \/ n <= Docs!Left(s) - n
      /\ taking'[r].on = s /\ taking'[r].qty = n
      /\ \A q \in Requests : q # r => taking'[q] = taking[q]
  BY DEF DocumentsTyped, Docs!BeginTillRefund, Docs!BeginReturn, Docs!Live, Docs!Rows,
     Docs!stock, Docs!balances, stock, balances
<1>2. s \notin disputed => returned[s] + RefundedOf(s) + n <= sale[s].qty
  BY <1>1, LeftIs DEF DocsInv
<1>3. ASSUME NEW q \in Requests, q # r, taking[q].op # "none", taking[q].on = s
      PROVE  s \in raced'
  <2>1. CASE Docs!BeginTillRefund(r, s, n)
    BY <1>3, <2>1 DEF Docs!BeginTillRefund, Docs!Refunding
  <2>2. CASE Docs!BeginReturn(r, s, n)
    <3>1. taking[q].op # "return"
      BY <1>3, <2>2 DEF Docs!BeginReturn, Docs!Returning
    <3>2. taking[q].op = "till"
      BY <1>3, <3>1 DEF DocumentsTyped
    <3>3. QED
      BY <1>3, <2>2, <3>2 DEF Docs!BeginReturn, Docs!Refunding
  <2>3. QED
    BY <2>1, <2>2
<1>4. RefundsInv'
  <2>1. NotOver'
    BY <1>1 DEF DocsInv, RefundsInv, NotOver, RefundedOf
  <2>2. ASSUME NEW q \in Requests, taking'[q].op # "none", NEW x, x = taking'[q].on,
               x \notin raced' \cup disputed
        PROVE  returned[x] + RefundedOf(x) + taking'[q].qty <= sale[x].qty
    <3>1. CASE q = r
      BY <1>1, <1>2, <2>2, <3>1
    <3>2. CASE q # r
      BY <1>1, <2>2, <3>2 DEF DocsInv, RefundsInv, RefundsFit
    <3>3. QED
      BY <3>1, <3>2
  <2>3. RefundsFit'
    BY <1>1, <2>2 DEF RefundsFit, RefundedOf
  <2>4. RefundsApart'
    <3>1. ASSUME NEW p \in Requests, NEW q \in Requests, taking'[p].op # "none",
                 taking'[q].op # "none", taking'[p].on = taking'[q].on, p # q
          PROVE  taking'[p].on \in raced'
      <4>1. CASE p = r \/ q = r
        BY <1>1, <1>3, <3>1, <4>1
      <4>2. CASE p # r /\ q # r
        BY <1>1, <3>1, <4>2 DEF DocsInv, RefundsInv, RefundsApart
      <4>3. QED
        BY <4>1, <4>2
    <3>2. QED
      BY <3>1 DEF RefundsApart
  <2>5. QED
    BY <2>1, <2>3, <2>4 DEF RefundsInv
<1>5. QED
  BY <1>1, <1>4, RequestDocs

\* A row is rewritten: its source and what it took back stay.
LEMMA RowRewritten ==
  ASSUME StockTypeOK, DocumentsTyped, DocumentsTyped', DocsInv,
         NEW s \in Sales, NEW old \in Docs!DocumentRecord, NEW doc \in Docs!DocumentRecord,
         sale[s] = old, sale'[s] = doc, \A x \in Sales \ {s} : sale'[x] = sale[x],
         doc.source = old.source, doc.back = old.back,
         UNCHANGED <<returned, supplied, taking, raced>>, disputed \subseteq disputed',
         RowFits(s)',
         \/ doc.qty = old.qty
         \/ ~Docs!Referenced(s) /\ Docs!Refunding(s) = {},
         disputed' = {} => \A v \in Variants :
           /\ CameBack(sale', returned, v)[s] = CameBack(sale, returned, v)[s]
           /\ SumOf(AtPlace(onHand', v), Shelf)
                = SumOf(AtPlace(onHand, v), Shelf) + SoldOf(sale, v)[s] - SoldOf(sale', v)[s],
         aggregate = onHand => aggregate' = onHand',
         old.status # "VOID" \/ doc.status = "VOID" \/ disputed' # {}
  PROVE  DocsGoal
<1> USE DEF DocsInv
<1>1. old # NoSale /\ doc # NoSale
  BY NoSaleIsNone
<1>2. RowsFit'
  BY <1>1, RowsKeep
<1>3. DocTotals'
  BY DocTotalsKeep
<1>4. \A o : BackTo(sale', o)[s] = BackTo(sale, o)[s]
  BY <1>1 DEF BackTo
<1>5. RefundsInv'
  <2>1. CASE doc.qty = old.qty
    BY <1>1, <1>4, <2>1, RefundsKeep
  <2>2. CASE ~Docs!Referenced(s) /\ Docs!Refunding(s) = {}
    BY <1>1, <1>4, <2>2, Unreferenced, RefundsKeep
  <2>3. QED
    BY <2>1, <2>2
<1>6. Docs!AggregateOffByVoids'
  BY <1>1, AggregateKeeps
<1>7. QED
  BY <1>2, <1>3, <1>5, <1>6 DEF DocsGoal

LEMMA FinalizeDocs ==
  ASSUME StockTypeOK, DocumentsTyped, DocumentsTyped', DocsInv,
         NEW s \in Sales, NEW ln \in Docs!Lines, NEW approved,
         Docs!FinalizeHeldSale(s, ln, approved)
  PROVE  DocsGoal
<1>1. PICK old \in Docs!DocumentRecord : old = sale[s]
  BY DEF Docs!FinalizeHeldSale, Docs!Rows, DocumentsTyped
<1>2. /\ Issue(old.at, ln.item, ln.qty, "SOLD")
      /\ disputed' = IF old.status # "DRAFT" \/ old.deleted THEN disputed \cup {s} ELSE disputed
      /\ UNCHANGED <<returned, supplied, taking, raced>>
      /\ ~Docs!Referenced(s) /\ Docs!Refunding(s) = {}
      /\ old.at \in Shelf
  BY <1>1, DocumentOperations, DocumentsAtShelf DEF Docs!FinalizeHeldSale
<1>3. PICK item \in Items : item = ln.item /\ ln.qty \in Nat
  BY DocumentLines
<1>4. PICK kept \in {0, old.qty} :
        /\ sale' = [sale EXCEPT ![s].status = "COMPLETED", ![s].item = ln.item,
                                ![s].qty = kept + ln.qty]
        /\ kept = 0 \/ old.status = "COMPLETED"
  BY <1>1 DEF Docs!FinalizeHeldSale
<1>5. PICK qty \in Nat : qty = kept + ln.qty
  BY <1>3, DocumentsAtShelf
<1>6. PICK doc : doc = [old EXCEPT !.status = "COMPLETED", !.item = item, !.qty = qty]
  OBVIOUS
<1>7. /\ doc.status = "COMPLETED" /\ doc.item = item /\ doc.qty = qty
      /\ doc.deleted = old.deleted /\ doc.source = old.source /\ doc.back = old.back
      /\ doc.channel = old.channel
  BY <1>6 DEF Docs!DocumentRecord
<1>8. /\ sale'[s] = doc /\ sale' = [sale EXCEPT ![s] = doc]
      /\ \A x \in Sales \ {s} : sale'[x] = sale[x]
  BY <1>1, <1>3, <1>4, <1>5, <1>6 DEF DocumentsTyped
<1>9. doc \in Docs!DocumentRecord
  <2>1. PICK a : a = [old EXCEPT !.status = "COMPLETED"]
    OBVIOUS
  <2>2. PICK b : b = [a EXCEPT !.item = item]
    OBVIOUS
  <2>3. a \in Docs!DocumentRecord
    BY <2>1 DEF Docs!DocumentRecord
  <2>4. b \in Docs!DocumentRecord
    BY <2>2, <2>3 DEF Docs!DocumentRecord, Items, Docs!Items
  <2>5. doc = [b EXCEPT !.qty = qty]
    BY <1>6, <2>1, <2>2
  <2>6. QED
    BY <2>4, <2>5 DEF Docs!DocumentRecord
<1>10. RowFits(s)'
  <2>1. RowFits(s) /\ disputed \subseteq disputed'
    BY <1>1, <1>2, NoSaleIsNone DEF DocsInv, RowsFit
  <2>2. doc.source # NoSale => sale'[doc.source] # NoSale
    BY <1>1, <1>7, <1>8, <1>9, <2>1, NoSaleIsNone, DocumentsAtShelf DEF RowFits
  <2>3. QED
    BY <1>1, <1>7, <1>8, <2>1, <2>2 DEF RowFits
<1>11. ASSUME disputed' = {}, NEW v \in Variants
       PROVE  /\ CameBack(sale', returned, v)[s] = CameBack(sale, returned, v)[s]
              /\ SumOf(AtPlace(onHand', v), Shelf)
                   = SumOf(AtPlace(onHand, v), Shelf) + SoldOf(sale, v)[s] - SoldOf(sale', v)[s]
  <2>1. disputed = {} /\ old.status = "DRAFT" /\ ~old.deleted
    BY <1>2, <1>11, DocumentsAtShelf
  <2>2. old.back = 0 /\ returned[s] = 0
    BY <1>1, <1>2, <2>1, NoSaleIsNone, Unreferenced DEF DocsInv, RowsFit, RowFits
  <2>3. kept = 0 /\ qty = ln.qty
    BY <1>3, <1>4, <1>5, <2>1
  <2>4. CameBack(sale', returned, v)[s] = 0 /\ CameBack(sale, returned, v)[s] = 0
    BY <2>2 DEF CameBack
  <2>5. SoldOf(sale, v)[s] = 0
    BY <1>1, <2>1 DEF SoldOf
  <2>6. SoldOf(sale', v)[s] = IF VariantOf(item) = v THEN qty ELSE 0
    BY <1>7, <1>8, <1>9, <2>1, <2>2, NoSaleIsNone DEF SoldOf
  <2>7. SumOf(AtPlace(onHand', v), Shelf)
          = SumOf(AtPlace(onHand, v), Shelf) - (IF VariantOf(item) = v THEN qty ELSE 0)
    BY <1>2, <1>3, <2>3, ShelfFinite, IssueMoves
  <2>8. SumOf(AtPlace(onHand, v), Shelf) \in Int
    BY ShelfFinite, ShelvesTyped DEF StockTypeOK
  <2>9. QED
    BY <2>4, <2>5, <2>6, <2>7, <2>8
<1>12. aggregate = onHand => aggregate' = onHand'
  BY <1>2, StockKeepsAggregate
<1>13. old.status # "VOID" \/ disputed' # {}
  BY <1>2
<1>14. disputed \subseteq disputed'
  BY <1>2
<1>15. QED
  BY <1>1, <1>2, <1>7, <1>8, <1>9, <1>10, <1>11, <1>12, <1>13, <1>14, RowRewritten

\* What a status set by hand sells is disputed.
LEMMA UpdateSaleDocs ==
  ASSUME StockTypeOK, DocumentsTyped, DocumentsTyped', DocsInv,
         NEW s \in Sales, NEW status \in {"DRAFT", "COMPLETED", "VOID"},
         Docs!UpdateSale(s, status)
  PROVE  DocsGoal
<1>1. PICK old \in Docs!DocumentRecord : old = sale[s]
  BY DEF Docs!UpdateSale, Docs!Live, Docs!Rows, DocumentsTyped
<1>2. PICK doc : doc = [old EXCEPT !.status = status]
  OBVIOUS
<1>3. /\ sale'[s] = doc /\ \A x \in Sales \ {s} : sale'[x] = sale[x]
      /\ UNCHANGED <<onHand, aggregate, returned, supplied, taking, raced>>
      /\ disputed \subseteq disputed' /\ s \in disputed'
      /\ old.source # NoSale => old.source \in disputed'
  BY <1>1, <1>2, NoSaleIsNone DEF Docs!UpdateSale, DocumentsTyped, Docs!stock, Docs!balances
<1>4. /\ doc \in Docs!DocumentRecord /\ doc.source = old.source /\ doc.back = old.back
      /\ doc.qty = old.qty /\ doc.channel = old.channel
  BY <1>1, <1>2 DEF Docs!DocumentRecord
<1>5. RowFits(s)'
  <2>1. RowFits(s)
    BY <1>1, NoSaleIsNone DEF DocsInv, RowsFit
  <2>2. doc.source # NoSale => sale'[doc.source] # NoSale
    BY <1>1, <1>3, <1>4, <2>1, NoSaleIsNone, DocumentsAtShelf DEF RowFits
  <2>3. QED
    BY <1>1, <1>3, <1>4, <2>1, <2>2 DEF RowFits
<1>6. disputed' # {}
  BY <1>3
<1>7. QED
  BY <1>1, <1>3, <1>4, <1>5, <1>6, RowRewritten

\* A deletion takes a sale out of the books only if it was completed behind its back.
LEMMA DeleteSaleDocs ==
  ASSUME StockTypeOK, DocumentsTyped, DocumentsTyped', DocsInv,
         NEW s \in Sales, Docs!DeleteSale(s)
  PROVE  DocsGoal
<1>1. PICK old \in Docs!DocumentRecord : old = sale[s]
  BY DEF Docs!DeleteSale, Docs!Live, Docs!Rows, DocumentsTyped
<1>2. PICK doc : doc = [old EXCEPT !.deleted = TRUE]
  OBVIOUS
<1>3. /\ sale'[s] = doc /\ \A x \in Sales \ {s} : sale'[x] = sale[x]
      /\ UNCHANGED <<onHand, aggregate, returned, supplied, taking, raced>>
      /\ disputed' = IF old.status = "COMPLETED" THEN disputed \cup {s} ELSE disputed
      /\ old.status # "COMPLETED" \/ old.channel = "HELD"
  BY <1>1, <1>2
  DEF Docs!DeleteSale, Docs!WasDraft, DocumentsTyped, Docs!stock, Docs!balances
<1>4. /\ doc \in Docs!DocumentRecord /\ doc.source = old.source /\ doc.back = old.back
      /\ doc.qty = old.qty /\ doc.channel = old.channel /\ doc.status = old.status
      /\ doc.item = old.item
  BY <1>1, <1>2 DEF Docs!DocumentRecord
<1>5. RowFits(s)'
  <2>1. RowFits(s) /\ disputed \subseteq disputed'
    BY <1>1, <1>3, NoSaleIsNone DEF DocsInv, RowsFit
  <2>2. doc.source # NoSale => sale'[doc.source] # NoSale /\ doc.source \in disputed'
    BY <1>1, <1>3, <1>4, <2>1, NoSaleIsNone, DocumentsAtShelf DEF RowFits
  <2>3. QED
    BY <1>1, <1>3, <1>4, <2>1, <2>2 DEF RowFits
<1>6. ASSUME disputed' = {}, NEW v \in Variants
      PROVE  /\ CameBack(sale', returned, v)[s] = CameBack(sale, returned, v)[s]
             /\ SumOf(AtPlace(onHand', v), Shelf)
                  = SumOf(AtPlace(onHand, v), Shelf) + SoldOf(sale, v)[s] - SoldOf(sale', v)[s]
  <2>1. old.status # "COMPLETED" /\ old # NoSale /\ doc # NoSale
    BY <1>3, <1>4, <1>6, NoSaleIsNone
  <2>2. SoldOf(sale, v)[s] = 0 /\ SoldOf(sale', v)[s] = 0
    BY <1>1, <1>3, <1>4, <2>1 DEF SoldOf
  <2>3. CameBack(sale', returned, v)[s] = CameBack(sale, returned, v)[s]
    BY <1>1, <1>3, <1>4, <2>1 DEF CameBack
  <2>4. SumOf(AtPlace(onHand, v), Shelf) \in Int
    BY ShelfFinite, ShelvesTyped DEF StockTypeOK
  <2>5. QED
    BY <1>3, <2>2, <2>3, <2>4
<1>7. disputed \subseteq disputed'
  BY <1>3
<1>8. QED
  BY <1>1, <1>3, <1>4, <1>5, <1>6, <1>7, RowRewritten

\* An edit puts the old line back and takes the new one, of a sale that nothing refers to.
LEMMA EditCompletedSaleDocs ==
  ASSUME StockTypeOK, DocumentsTyped, DocumentsTyped', DocsInv,
         NEW s \in Sales, NEW new \in Nat, NEW approved,
         Docs!EditCompletedSale(s, new, approved)
  PROVE  DocsGoal
<1>1. PICK old \in Docs!DocumentRecord : old = sale[s]
  BY DEF Docs!EditCompletedSale, Docs!Completed, Docs!Live, Docs!Rows, DocumentsTyped
<1>2. PICK doc : doc = [old EXCEPT !.qty = new]
  OBVIOUS
<1>3. /\ sale'[s] = doc /\ \A x \in Sales \ {s} : sale'[x] = sale[x]
      /\ UNCHANGED <<returned, supplied, taking, raced, disputed>>
      /\ old.item \in Plain /\ old.source = NoSale
      /\ old.status = "COMPLETED" /\ ~old.deleted
      /\ ~Docs!Referenced(s) /\ Docs!Refunding(s) = {}
      /\ Docs!Replaced(<<old.at, old.item>>, old.qty, new)
  BY <1>1, <1>2
  DEF Docs!EditCompletedSale, Docs!Completed, Docs!Live, Docs!Rows, DocumentsTyped
<1>4. /\ doc \in Docs!DocumentRecord /\ doc.source = old.source /\ doc.back = old.back
      /\ doc.qty = new /\ doc.status = old.status /\ doc.deleted = old.deleted
      /\ doc.item = old.item
  BY <1>1, <1>2 DEF Docs!DocumentRecord
<1>5. RowFits(s)'
  BY <1>3, <1>4 DEF RowFits
<1>6. /\ old.at \in Shelf /\ old.item \in Variants /\ VariantOf(old.item) = old.item
      /\ old.qty \in Nat /\ old.back \in Nat /\ new - old.qty \in Int
  BY <1>3, DocumentsAtShelf, StockConstants DEF VariantOf, Variants
<1>7. \A k \in Places : onHand'[k] = IF k = <<old.at, old.item>>
        THEN onHand[k] + (old.qty - new) ELSE onHand[k]
  <2>1. onHand' = [onHand EXCEPT ![<<old.at, old.item>>] = @ + old.qty - new]
    BY <1>3 DEF Docs!Replaced
  <2>2. ASSUME NEW k \in Places
        PROVE  onHand'[k] = IF k = <<old.at, old.item>>
                 THEN onHand[k] + (old.qty - new) ELSE onHand[k]
    <3>1. onHand[k] \in Int /\ k \in DOMAIN onHand
      BY DEF StockTypeOK
    <3>2. onHand'[k] = IF k = <<old.at, old.item>>
            THEN onHand[k] + old.qty - new ELSE onHand[k]
      BY <2>1, <3>1
    <3>3. QED
      BY <1>6, <3>1, <3>2
  <2>3. QED
    BY <2>2
<1>8. ASSUME NEW v \in Variants
      PROVE  /\ CameBack(sale', returned, v)[s] = CameBack(sale, returned, v)[s]
             /\ SumOf(AtPlace(onHand', v), Shelf)
                  = SumOf(AtPlace(onHand, v), Shelf) + SoldOf(sale, v)[s] - SoldOf(sale', v)[s]
  <2>1. old # NoSale /\ doc # NoSale
    BY <1>4, NoSaleIsNone
  <2>2. CameBack(sale', returned, v)[s] = CameBack(sale, returned, v)[s]
    BY <1>1, <1>3, <1>4, <2>1 DEF CameBack
  <2>3. /\ SoldOf(sale, v)[s] = IF old.item = v THEN old.qty - old.back ELSE 0
        /\ SoldOf(sale', v)[s] = IF old.item = v THEN new - old.back ELSE 0
    BY <1>1, <1>3, <1>4, <1>6, <2>1 DEF SoldOf
  <2>4. onHand \in [Places -> Int] /\ old.qty - new \in Int
    BY <1>6 DEF StockTypeOK
  <2>5. SumOf(AtPlace(onHand', v), Shelf)
          = SumOf(AtPlace(onHand, v), Shelf) + (IF old.item = v THEN old.qty - new ELSE 0)
    BY <1>6, <1>7, <2>4, ShelfFinite, BalanceMoves
  <2>6. SumOf(AtPlace(onHand, v), Shelf) \in Int
    BY ShelfFinite, ShelvesTyped DEF StockTypeOK
  <2>7. QED
    BY <1>6, <2>2, <2>3, <2>5, <2>6
<1>9. aggregate = onHand => aggregate' = onHand'
  BY <1>3 DEF Docs!Replaced
<1>10. QED
  BY <1>1, <1>3, <1>4, <1>5, <1>8, <1>9, RowRewritten

\* A return adds to what came back of its sale.
LEMMA CreateSaleReturnDocs ==
  ASSUME StockTypeOK, DocumentsTyped, DocumentsTyped', DocsInv, NEW r \in Requests,
         Docs!CreateSaleReturn(r)
  PROVE  DocsGoal
<1> USE DEF DocsInv
<1>1. PICK s \in Sales : s = taking[r].on /\ sale[s] \in Docs!DocumentRecord
  BY DEF Docs!CreateSaleReturn, DocumentsTyped
<1>2. PICK n \in Nat : n = taking[r].qty
  BY DEF DocumentsTyped
<1>3. PICK old \in Docs!DocumentRecord : old = sale[s]
  BY <1>1
<1>4. /\ Stocked(old.at, old.item, n) /\ taking[r].op # "none"
      /\ taking' = [taking EXCEPT ![r] = Docs!Idle]
      /\ returned' = [returned EXCEPT ![s] = @ + n]
      /\ UNCHANGED <<sale, raced, disputed, supplied>>
  BY <1>1, <1>2, <1>3, DocumentOperations DEF Docs!CreateSaleReturn
<1>5. /\ returned \in [Sales -> Nat] /\ returned' \in [Sales -> Nat]
      /\ returned'[s] = returned[s] + n
      /\ \A x \in Sales \ {s} : returned'[x] = returned[x]
  BY <1>4 DEF RowsFit
<1>6. old # NoSale /\ old.at \in Shelf /\ old.item \in Items
  BY <1>3, NoSaleIsNone, DocumentsAtShelf
<1>7. RowsFit'
  BY <1>3, <1>4, <1>5, <1>6 DEF RowsFit, RowFits
<1>8. ASSUME disputed = {}, NEW v \in Variants
      PROVE  SumOf(AtPlace(onHand', v), Shelf)
               = supplied[v] - SumOf(SoldOf(sale, v), Sales)
                   + SumOf(CameBack(sale, returned', v), Sales)
  <2> DEFINE more == IF VariantOf(old.item) = v THEN n ELSE 0
             came == CameBack(sale, returned, v)
             comes == CameBack(sale, returned', v)
  <2>1. SumOf(AtPlace(onHand', v), Shelf) = SumOf(AtPlace(onHand, v), Shelf) + more
    BY <1>4, <1>6, ShelfFinite, ReceiptMoves
  <2>2. SumOf(AtPlace(onHand, v), Shelf)
          = supplied[v] - SumOf(SoldOf(sale, v), Sales) + SumOf(came, Sales)
    BY <1>8 DEF DocTotals
  <2>3. /\ SumOf(SoldOf(sale, v), Sales) \in Int /\ SumOf(came, Sales) \in Int
        /\ \A x \in Sales : came[x] \in Int
        /\ supplied[v] \in Nat /\ more \in Int
    BY <1>5, SumsTyped DEF RowsFit
  <2>4. \A x \in Sales : comes[x] = IF x = s THEN came[x] + more ELSE came[x]
    BY <1>3, <1>5, <1>6 DEF CameBack
  <2> HIDE DEF came, comes, more
  <2>5. /\ \A x \in Sales : came[x] \in Int /\ comes[x] \in Int
        /\ \A x \in Sales \ {s} : came[x] = comes[x]
        /\ comes[s] = came[s] + more
    BY <2>3, <2>4
  <2>6. SumOf(comes, Sales) = SumOf(came, Sales) + comes[s] - came[s]
    BY <2>5, TablesFinite, SumChange
  <2>7. SumOf(comes, Sales) = SumOf(came, Sales) + more
    BY <2>3, <2>5, <2>6
  <2>8. SumOf(AtPlace(onHand', v), Shelf)
          = supplied[v] - SumOf(SoldOf(sale, v), Sales) + SumOf(comes, Sales)
    BY <2>1, <2>2, <2>3, <2>7
  <2>9. QED
    BY <2>8 DEF comes
<1>9. DocTotals'
  BY <1>4, <1>8 DEF DocTotals
<1>10. ASSUME NEW q \in Requests, taking'[q].op # "none"
       PROVE  /\ taking'[q] = taking[q] /\ (taking[q].on = s => s \in raced)
              /\ taking[q].on \in Sales
  <2>1. q # r /\ taking'[q] = taking[q]
    BY <1>4, <1>10 DEF DocumentsTyped, Docs!Idle
  <2>2. QED
    BY <1>1, <1>4, <1>10, <2>1 DEF DocumentsTyped, RefundsInv, RefundsApart
<1>11. RefundsInv'
  <2>1. NotOver'
    <3>1. ASSUME NEW x \in Sales, sale[x] # NoSale, x \notin raced \cup disputed
          PROVE  returned'[x] + RefundedOf(x) <= sale[x].qty
      <4>1. CASE x = s
        <5>1. returned[s] + RefundedOf(s) + n <= sale[s].qty
          BY <1>1, <1>2, <1>4, <3>1, <4>1 DEF RefundsInv, RefundsFit
        <5>2. returned[s] \in Nat /\ RefundedOf(s) \in Nat
          BY <1>5, SumsTyped
        <5>3. QED
          BY <1>5, <4>1, <5>1, <5>2
      <4>2. CASE x # s
        BY <1>5, <3>1, <4>2 DEF RefundsInv, NotOver
      <4>3. QED
        BY <4>1, <4>2
    <3>2. QED
      BY <1>4, <3>1 DEF NotOver, RefundedOf
  <2>2. ASSUME NEW q \in Requests, taking'[q].op # "none", NEW x, x = taking'[q].on,
               x \notin raced \cup disputed
        PROVE  returned'[x] + RefundedOf(x) + taking'[q].qty <= sale[x].qty
    <3>1. taking'[q] = taking[q] /\ x # s /\ x \in Sales
      BY <1>10, <2>2
    <3>2. returned'[x] = returned[x]
      BY <1>5, <3>1
    <3>3. QED
      BY <2>2, <3>1, <3>2 DEF RefundsInv, RefundsFit
  <2>3. RefundsFit'
    BY <1>4, <2>2 DEF RefundsFit, RefundedOf
  <2>4. RefundsApart'
    BY <1>4, <1>10 DEF RefundsInv, RefundsApart
  <2>5. QED
    BY <2>1, <2>3, <2>4 DEF RefundsInv
<1>12. Docs!AggregateOffByVoids'
  BY <1>4, StockKeepsAggregate DEF Docs!AggregateOffByVoids, Docs!Rows
<1>13. QED
  BY <1>7, <1>9, <1>11, <1>12 DEF DocsGoal

LEMMA DocsKeep ==
  ASSUME StockTypeOK, DocumentsTyped, DocumentsTyped', DocsInv, Docs!Next
  PROVE  DocsGoal
<1>1. /\ MaxSupply \in Nat /\ 1 \in Nat /\ Plain \subseteq Items /\ Serials \subseteq Items
      /\ \A n \in 1..MaxSold : n \in Nat \ {0}
  BY ShopConstants DEF Docs!SaleConstants, Items
<1>2. ASSUME NEW l \in Shelf, NEW i \in Items, NEW q \in Nat, Docs!Supply(l, i, q)
      PROVE  DocsGoal
  BY <1>2, SupplyDocs
<1>3. ASSUME NEW s \in Sales, NEW d \in Sales, NEW n \in 1..MaxSold,
             Docs!CreateRefundInvoice(d, s, n)
      PROVE  DocsGoal
  <2>1. n \in Nat \ {0}
    BY <1>1
  <2>2. QED
    BY <1>3, <2>1, CreateRefundInvoiceDocs
<1>4. ASSUME NEW s \in Sales, NEW new \in 1..MaxSold, NEW approved,
             Docs!EditCompletedSale(s, new, approved)
      PROVE  DocsGoal
  <2>1. new \in Nat
    BY <1>1
  <2>2. QED
    BY <1>4, <2>1, EditCompletedSaleDocs
<1>5. ASSUME NEW r \in Requests, NEW s \in Sales, NEW n \in 1..MaxSold,
             Docs!BeginTillRefund(r, s, n) \/ Docs!BeginReturn(r, s, n)
      PROVE  DocsGoal
  <2>1. n \in Nat \ {0}
    BY <1>1
  <2>2. QED
    BY <1>5, <2>1, BeginDocs
<1>6. QED
  BY <1>1, <1>2, <1>3, <1>4, <1>5, CreateSaleDocs, CreateHeldSaleDocs, VoidSaleDocs,
     FinalizeDocs, UpdateSaleDocs, DeleteSaleDocs, TillRefundDocs, CreateSaleReturnDocs,
     RollBackDocs
  DEF Docs!Next, Docs!Request

LEMMA DocsStart == ShopInit => DocsInv
<1> SUFFICES ASSUME ShopInit PROVE DocsInv
  OBVIOUS
<1>1. /\ sale = [s \in Sales |-> NoSale] /\ returned = [s \in Sales |-> 0]
      /\ \A r \in Requests : taking[r].op = "none"
      /\ supplied = [v \in Variants |-> 0]
      /\ onHand = [k \in Places |-> 0] /\ aggregate = onHand
  BY DEF ShopInit, StockInit, Docs!DocumentsInit, Docs!Idle, Docs!Variants, Docs!VariantOf,
     Variants
<1>2. ASSUME NEW v \in Variants
      PROVE  /\ SumOf(AtPlace(onHand, v), Shelf) = 0
             /\ SumOf(SoldOf(sale, v), Sales) = 0
             /\ SumOf(CameBack(sale, returned, v), Sales) = 0
  <2>1. \A l \in Shelf : AtPlace(onHand, v)[l] = 0
    BY <1>1, ShelfFinite DEF AtPlace, Places
  <2>2. \A s \in Sales : SoldOf(sale, v)[s] = 0 /\ CameBack(sale, returned, v)[s] = 0
    BY <1>1 DEF SoldOf, CameBack
  <2>3. QED
    BY <2>1, <2>2, TablesFinite, SumOfZeros
<1>3. RowsFit
  BY <1>1 DEF RowsFit
<1>4. DocTotals
  BY <1>1, <1>2 DEF DocTotals
<1>5. RefundsInv
  BY <1>1 DEF RefundsInv, NotOver, RefundsFit, RefundsApart
<1>6. QED
  BY <1>1, <1>3, <1>4, <1>5 DEF DocsInv, Docs!AggregateOffByVoids

DocumentsFollow == part = "documents" => DocsInv

LEMMA DocsInvariant == ShopSpec => [](ShopInv /\ DocumentsFollow)
<1>1. ShopInit => DocumentsFollow
  BY DocsStart DEF DocumentsFollow
<1>2. ASSUME ShopInv, ShopInv', DocumentsFollow, [ShopNext]_ShopVars PROVE DocumentsFollow'
  <2>1. CASE part = "documents" /\ Docs!Next /\ UNCHANGED part
    BY <1>2, <2>1, DocsKeep DEF ShopInv, Books, DocsGoal, DocumentsFollow
  <2>2. CASE part # "documents" /\ UNCHANGED part
    BY <2>2 DEF DocumentsFollow
  <2>3. CASE UNCHANGED <<part, stock, docs>>
    BY <1>2, <2>3
    DEF DocumentsFollow, DocsInv, RowsFit, RowFits, DocTotals, RefundsInv, NotOver, RefundsFit,
        RefundsApart, RefundedOf, Docs!AggregateOffByVoids, Docs!Rows, stock, balances, docs
  <2>4. QED
    BY <1>2, <2>1, <2>2, <2>3 DEF ShopNext, ShopVars
<1>3. QED
  BY <1>1, <1>2, ShopInvariant, PTL DEF ShopSpec, ShopVars

\* What is on the shelves of each variant is what was received, less what the completed
\* documents sold, more what was returned, as long as no sale is disputed, and only a void
\* leaves an aggregate off its balance (CreateSaleWithOptions, finalizeHeldSale,
\* EditCompletedSale, CreateRefundInvoice, CreateSaleReturn, VoidSale).
THEOREM StockFollowsItsDocuments == ShopSpec => []StockFollowsDocuments
<1>1. ShopInv /\ DocumentsFollow => StockFollowsDocuments
  <2> SUFFICES ASSUME ShopInv, DocsInv PROVE Docs!StockFollowsDocuments
    BY DEF StockFollowsDocuments, DocumentsFollow
  <2>1. /\ DocumentsTyped /\ returned \in [Sales -> Nat] /\ Docs!AggregateOffByVoids
        /\ Docs!Variants = Variants
    BY DEF ShopInv, DocsInv, RowsFit, Docs!Variants, Variants
  <2>2. ASSUME disputed = {}, NEW v \in Variants
        PROVE  Docs!OnShelves(v) = Docs!Documented(v)
    BY <2>1, <2>2, DocumentSums DEF DocsInv, DocTotals
  <2>3. QED
    BY <2>1, <2>2 DEF Docs!StockFollowsDocuments
<1>2. QED
  BY <1>1, DocsInvariant, PTL

\* No more of a line comes back than was sold, by whatever mix of refund invoices, till
\* refunds and returns, unless a return overlapped a till refund or the sale is disputed
\* (loadRefundableSaleLineTx, allocateSaleReturnLines).
THEOREM RefundsWithinSales == ShopSpec => []NotOverRefunded
<1>1. ShopInv /\ DocumentsFollow => NotOverRefunded
  <2> SUFFICES ASSUME ShopInv, DocumentsFollow, NEW s \in Docs!Rows \ (raced \cup disputed)
               PROVE  returned[s] + Docs!Refunded(s, Docs!RefundsOf(s)) <= sale[s].qty
    BY DEF NotOverRefunded, Docs!NotOverRefunded
  <2>1. s \in Sales /\ sale[s] # NoSale
    BY DEF Docs!Rows
  <2>2. DocsInv
    BY <2>1 DEF ShopInv, OnlyDocumentsSell, DocumentsFollow
  <2>3. DocumentsTyped /\ returned \in [Sales -> Nat]
    BY <2>2 DEF ShopInv, DocsInv, RowsFit
  <2>4. Docs!Refunded(s, Docs!RefundsOf(s)) = RefundedOf(s)
    BY <2>3, DocumentSums
  <2>5. QED
    BY <2>1, <2>2, <2>4 DEF DocsInv, RefundsInv, NotOver
<1>2. QED
  BY <1>1, DocsInvariant, PTL
----------------------------------------------------------------------------
(* The catalogue: rows, codes and what refers to them                      *)

\* Requests on a product have one entry, or two with the primary first.
EntryLists ==
  LET primary == {x \in Goods!Entry : x.primary}
  IN {<<x>> : x \in primary} \cup {<<x, y>> : x \in primary, y \in Goods!Entry \ primary}

ProductJob(p, list) ==
  [op |-> "product", on |-> p, entries |-> list, codes |-> Goods!CodesIn(list), parts |-> {}]
ComboJob(c, code, of) ==
  [op |-> "combo", on |-> c, entries |-> <<>>, codes |-> {code}, parts |-> of]
ProductJobs == UNION {{ProductJob(p, list) : list \in EntryLists} : p \in Products}
ComboJobs ==
  UNION {UNION {{ComboJob(c, code, of) : of \in SUBSET Goods!Bars} : code \in Codes} : c \in Combos}

GoodsTyped ==
  /\ product \in [Products -> {"none", "live", "deleted"}]
  /\ bar \in [Goods!Bars -> Goods!Variation \cup {None}]
  /\ inserted \in Nat
  /\ combo \in [Combos -> Goods!Combo \cup {None}]
  /\ editor \in [Requests -> {Goods!Resting} \cup ProductJobs \cup ComboJobs]

\* Rows were inserted for a product there is, under codes of their own.
VariationsFit ==
  /\ \A b \in Goods!Rows(bar) : b <= inserted /\ product[bar[b].of] # "none"
  /\ \A a, b \in Goods!Rows(bar) : bar[a].code = bar[b].code => a = b

\* The primary variations of a product.
Primaries(bars, p) == {b \in Goods!BarsOf(bars, p) : bars[b].primary}

OnePrimary == \A p \in Products :
  /\ \A a, b \in Primaries(bar, p) : a = b
  /\ product[p] # "none" /\ p \notin doubled => Primaries(bar, p) # {}

ReferencesFit == used \cup shelf \cup Goods!Components \subseteq Goods!Rows(bar)

\* A code that two requests have in hand is contested, and so is, unless a product took
\* it, the code of a live variation that a request on a combo has.
HandsFit ==
  /\ \A e, o \in Requests : e # o => editor[e].codes \cap editor[o].codes \subseteq contested
  /\ \A e \in Requests, b \in Goods!LiveBars :
       editor[e].op = "combo" /\ bar[b].code \in editor[e].codes =>
         bar[b].code \in taken \cup contested

\* Codes of combos are apart, and apart from those of variations unless it is known.
CombosFit ==
  /\ \A c, d \in Goods!LiveCombos : combo[c].code = combo[d].code => c = d
  /\ \A b \in Goods!LiveBars, c \in Goods!LiveCombos :
       bar[b].code = combo[c].code => bar[b].code \in taken \cup contested

GoodsInv == GoodsTyped /\ VariationsFit /\ OnePrimary /\ ReferencesFit /\ HandsFit /\ CombosFit

----------------------------------------------------------------------------
(* Entries applied in order                                                *)

\* The rows before the first entry.
Untouched(p) ==
  [bars |-> Goods!NoPrimary(bar, p), matched |-> {}, last |-> inserted,
   ok |-> TRUE, twice |-> FALSE]

Sync(p, acc, entry) == Goods!SyncEntry(p, bar, acc, entry)

LEMMA MaxOfFew == Goods!Max({1}) = 1 /\ Goods!Max({2}) = 2 /\ Goods!Max({1, 2}) = 2
BY DEF Goods!Max

LEMMA SyncedOne ==
  ASSUME NEW p, NEW x
  PROVE  Goods!Synced(p, <<x>>) = Sync(p, Untouched(p), x)
<1> DEFINE D == DOMAIN <<x>>
           base == Untouched(p)
           next(g, s) == Sync(p, g[s \ {Goods!Max(s)}], <<x>>[Goods!Max(s)])
           body(g) == [s \in SUBSET D |-> IF s = {} THEN base ELSE next(g, s)]
           h == [s \in SUBSET D |-> IF s = {} THEN base ELSE Sync(p, base, x)]
<1>1. Goods!Synced(p, <<x>>) = (CHOOSE g : g = body(g))[D]
  BY DEF Goods!Synced, Goods!FoldLeft, Goods!MapThenFoldSet, Sync, Untouched
<1>2. D = {1} /\ <<x>>[1] = x
  OBVIOUS
<1>3. \A g : next(g, {1}) = Sync(p, g[{}], x)
  <2>1. {1} \ {Goods!Max({1})} = {}
    BY MaxOfFew
  <2> QED
    BY <1>2, <2>1, MaxOfFew
<1> HIDE DEF D, next, base
<1>4. h = body(h)
  <2>1. \A s \in SUBSET D : s = {} \/ s = {1}
    BY <1>2
  <2>2. h[{}] = base /\ \A s \in SUBSET D : s # {} => Sync(p, base, x) = next(h, s)
    <3>1. h[{}] = base
      OBVIOUS
    <3> HIDE DEF h
    <3> QED
      BY <1>3, <2>1, <3>1
  <2>3. \A s \in SUBSET D : h[s] = IF s = {} THEN base ELSE next(h, s)
    <3>1. \A s \in SUBSET D : h[s] = IF s = {} THEN base ELSE Sync(p, base, x)
      OBVIOUS
    <3> HIDE DEF h
    <3> QED
      BY <2>2, <3>1
  <2>4. h = [s \in SUBSET D |-> h[s]]
    OBVIOUS
  <2> HIDE DEF h
  <2> QED
    BY <2>3, <2>4
<1> HIDE DEF h
<1>5. PICK g : g = body(g) /\ Goods!Synced(p, <<x>>) = g[D]
  BY <1>1, <1>4
<1>6. g[{}] = base /\ g[{1}] = next(g, {1})
  BY <1>2, <1>5
<1> QED
  BY <1>2, <1>3, <1>5, <1>6 DEF base

LEMMA SyncedTwo ==
  ASSUME NEW p, NEW x, NEW y
  PROVE  Goods!Synced(p, <<x, y>>) = Sync(p, Sync(p, Untouched(p), x), y)
<1> DEFINE D == DOMAIN <<x, y>>
           base == Untouched(p)
           next(g, s) == Sync(p, g[s \ {Goods!Max(s)}], <<x, y>>[Goods!Max(s)])
           body(g) == [s \in SUBSET D |-> IF s = {} THEN base ELSE next(g, s)]
           first == Sync(p, base, x)
           h == [s \in SUBSET D |->
                  IF s = {} THEN base ELSE IF s = {1} THEN first
                  ELSE IF s = {2} THEN Sync(p, base, y) ELSE Sync(p, first, y)]
<1>1. Goods!Synced(p, <<x, y>>) = (CHOOSE g : g = body(g))[D]
  BY DEF Goods!Synced, Goods!FoldLeft, Goods!MapThenFoldSet, Sync, Untouched
<1>2. D = {1, 2} /\ <<x, y>>[1] = x /\ <<x, y>>[2] = y
  OBVIOUS
<1>3. \A g : /\ next(g, {1}) = Sync(p, g[{}], x)
             /\ next(g, {2}) = Sync(p, g[{}], y)
             /\ next(g, {1, 2}) = Sync(p, g[{1}], y)
  <2>1. {1} \ {Goods!Max({1})} = {} /\ {2} \ {Goods!Max({2})} = {} /\ {1, 2} \ {Goods!Max({1, 2})} = {1}
    BY MaxOfFew
  <2> QED
    BY <1>2, <2>1, MaxOfFew
<1> HIDE DEF D, next, base, first
<1>4. h = body(h)
  <2>1. \A s \in SUBSET D : s = {} \/ s = {1} \/ s = {2} \/ s = {1, 2}
    BY <1>2
  <2>2. {1} # {2} /\ {1} # {1, 2} /\ {2} # {1, 2} /\ {1} # {} /\ {2} # {} /\ {1, 2} # {}
    OBVIOUS
  <2>3. /\ h[{}] = base /\ h[{1}] = first
        /\ h[{2}] = Sync(p, base, y) /\ h[{1, 2}] = Sync(p, first, y)
    BY <1>2, <2>2
  <2>4. h = [s \in SUBSET D |-> h[s]]
    OBVIOUS
  <2> HIDE DEF h
  <2>5. h[{1}] = next(h, {1}) /\ h[{2}] = next(h, {2}) /\ h[{1, 2}] = next(h, {1, 2})
    BY <1>3, <2>3 DEF first
  <2>6. \A s \in SUBSET D : h[s] = IF s = {} THEN base ELSE next(h, s)
    BY <2>1, <2>2, <2>3, <2>5
  <2> QED
    BY <2>4, <2>6
<1> HIDE DEF h
<1>5. PICK g : g = body(g) /\ Goods!Synced(p, <<x, y>>) = g[D]
  BY <1>1, <1>4
<1>6. {} \in SUBSET D /\ {1} \in SUBSET D /\ {1, 2} \in SUBSET D
  BY <1>2
<1>7. g[{}] = base /\ g[{1}] = next(g, {1}) /\ g[{1, 2}] = next(g, {1, 2})
  BY <1>5, <1>6
<1> QED
  BY <1>2, <1>3, <1>5, <1>7 DEF base

\* What has been written so far: the rows of p that are matched have the codes of the
\* request, the others are as they were, without a primary of p.
SyncState == [bars : [Goods!Bars -> Goods!Variation \cup {None}], matched : SUBSET Goods!Bars,
              last : Nat, ok : BOOLEAN, twice : BOOLEAN]

Apart(bars) == \A a, b \in Goods!Rows(bars) : bars[a].code = bars[b].code => a = b

SyncFits(p, acc, codes) ==
  /\ inserted <= acc.last
  /\ \A b \in Goods!Rows(acc.bars) : b <= acc.last
  /\ \A b \in acc.matched : /\ acc.bars[b] # None /\ acc.bars[b].of = p
                            /\ acc.bars[b].code \in codes
                            /\ bar[b] # None => bar[b].of = p
  /\ \A b \in Goods!Bars \ acc.matched : acc.bars[b] = Goods!NoPrimary(bar, p)[b]
  /\ Apart(acc.bars)

RowFor(p, entry) ==
  [of |-> p, code |-> entry.code, primary |-> entry.primary, active |-> entry.active]

\* An entry puts its row in one place.
Puts(p, acc, entry, b, last) ==
  [bars |-> [acc.bars EXCEPT ![b] = RowFor(p, entry)], matched |-> acc.matched \cup {b},
   last |-> last, ok |-> TRUE, twice |-> acc.twice \/ b \in acc.matched]

LEMMA NoneIsNone ==
  /\ None \notin Goods!Variation /\ None \notin Goods!Combo
  /\ None \notin Products /\ None \notin Combos /\ MaxVariations \in Nat
BY ShopConstants DEF Goods!CatalogueConstants

LEMMA EntryIs ==
  ASSUME NEW x \in Goods!Entry
  PROVE  /\ x.id \in 0 .. MaxVariations /\ x.code \in Codes
         /\ x.primary \in BOOLEAN /\ x.active \in BOOLEAN
BY DEF Goods!Entry

\* Where it puts it: a row of p that was named, or had the code, or a new one.
LEMMA EntryPut ==
  ASSUME GoodsTyped, NEW p \in Products, NEW acc \in SyncState, NEW x \in Goods!Entry,
         acc.ok, Sync(p, acc, x).ok
  PROVE  \E b \in Goods!Bars, last \in Nat :
           /\ Sync(p, acc, x) = Puts(p, acc, x, b, last)
           /\ \/ last = acc.last /\ b \in Goods!BarsOf(bar, p) /\ Goods!FreeFor(acc.bars, x.code, b)
              \/ /\ last = acc.last /\ b \in Goods!BarsOf(bar, p) \ acc.matched
                 /\ bar[b].code = x.code
              \/ last = acc.last + 1 /\ b = last /\ Goods!FreeFor(acc.bars, x.code, 0)
<1> DEFINE same == {b \in Goods!BarsOf(bar, p) \ acc.matched : bar[b].code = x.code}
           Fail == [acc EXCEPT !.ok = FALSE]
           new == acc.last + 1
<1>1. /\ acc.last \in Nat /\ acc.ok = TRUE /\ Goods!BarsOf(bar, p) \subseteq Goods!Bars
      /\ x.id # 0 => x.id \in Goods!Bars
  BY EntryIs, NoneIsNone DEF SyncState, Goods!BarsOf, Goods!Rows, Goods!Bars
<1>2. Fail.ok = FALSE
  BY DEF SyncState
<1>3. CASE x.id # 0
  <2>1. Sync(p, acc, x) = IF x.id \in Goods!BarsOf(bar, p) /\ Goods!FreeFor(acc.bars, x.code, x.id)
                          THEN Puts(p, acc, x, x.id, acc.last) ELSE Fail
    BY <1>1, <1>3 DEF Sync, Goods!SyncEntry, RowFor, Puts
  <2> QED
    BY <1>1, <1>2, <2>1
<1>4. CASE x.id = 0 /\ same # {}
  <2>1. Sync(p, acc, x) = Puts(p, acc, x, CHOOSE b \in same : TRUE, acc.last)
    BY <1>1, <1>4 DEF Sync, Goods!SyncEntry, RowFor, Puts
  <2> QED
    BY <1>1, <1>4, <2>1
<1>5. CASE x.id = 0 /\ same = {}
  <2>1. Sync(p, acc, x) = IF new \in Goods!Bars /\ Goods!FreeFor(acc.bars, x.code, 0)
                          THEN Puts(p, acc, x, new, new) ELSE Fail
    BY <1>1, <1>5 DEF Sync, Goods!SyncEntry, RowFor, Puts
  <2> QED
    BY <1>1, <1>2, <2>1
<1> QED
  BY <1>3, <1>4, <1>5
LEMMA VariationIs ==
  ASSUME GoodsTyped, NEW b \in Goods!Bars, bar[b] # None
  PROVE  /\ bar[b] \in Goods!Variation /\ bar[b].of \in Products /\ bar[b].code \in Codes
         /\ bar[b].primary \in BOOLEAN /\ bar[b].active \in BOOLEAN
<1>1. bar[b] \in Goods!Variation
  BY DEF GoodsTyped
<1> QED
  BY <1>1 DEF Goods!Variation

LEMMA UntouchedFits ==
  ASSUME GoodsTyped, VariationsFit, NEW p \in Products, NEW codes
  PROVE  /\ Untouched(p) \in SyncState /\ SyncFits(p, Untouched(p), codes)
         /\ Goods!Rows(Goods!NoPrimary(bar, p)) = Goods!Rows(bar)
<1> DEFINE bars == Goods!NoPrimary(bar, p)
<1>1. ASSUME NEW b \in Goods!Bars
      PROVE  /\ bars[b] \in Goods!Variation \cup {None}
             /\ bars[b] = None <=> bar[b] = None
             /\ bar[b] # None => bars[b].code = bar[b].code /\ bars[b].of = bar[b].of
  <2>1. CASE bar[b] = None
    BY <2>1, NoneIsNone DEF Goods!NoPrimary, Goods!BarsOf, Goods!Rows
  <2>2. CASE bar[b] # None
    <3>1. [bar[b] EXCEPT !.primary = FALSE] \in Goods!Variation
      BY <2>2, VariationIs DEF Goods!Variation
    <3>2. bars[b] \in {[bar[b] EXCEPT !.primary = FALSE], bar[b]}
      BY DEF Goods!NoPrimary
    <3> QED
      BY <2>2, <3>1, <3>2, VariationIs, NoneIsNone DEF Goods!Variation
  <2> QED
    BY <2>1, <2>2
<1>2. bars \in [Goods!Bars -> Goods!Variation \cup {None}]
  BY <1>1 DEF Goods!NoPrimary
<1>3. Untouched(p) \in SyncState
  BY <1>2 DEF Untouched, SyncState, GoodsTyped
<1>4. Goods!Rows(bars) = Goods!Rows(bar)
  BY <1>1 DEF Goods!Rows
<1>5. Apart(bars)
  BY <1>1, <1>4 DEF Apart, VariationsFit, Goods!Rows
<1>6. SyncFits(p, Untouched(p), codes)
  BY <1>4, <1>5 DEF Untouched, SyncFits, VariationsFit, GoodsTyped
<1> QED
  BY <1>3, <1>4, <1>6

LEMMA EntryFits ==
  ASSUME GoodsTyped, VariationsFit, NEW p \in Products, NEW acc \in SyncState, NEW x \in Goods!Entry,
         NEW codes, x.code \in codes, SyncFits(p, acc, codes), acc.ok, Sync(p, acc, x).ok
  PROVE  /\ Sync(p, acc, x) \in SyncState /\ SyncFits(p, Sync(p, acc, x), codes)
         /\ \E b \in Goods!Bars, last \in Nat : Sync(p, acc, x) = Puts(p, acc, x, b, last)
<1> DEFINE s == Sync(p, acc, x)
           new == RowFor(p, x)
<1>1. PICK b \in Goods!Bars, last \in Nat :
        /\ s = Puts(p, acc, x, b, last)
        /\ \/ last = acc.last /\ b \in Goods!BarsOf(bar, p) /\ Goods!FreeFor(acc.bars, x.code, b)
           \/ last = acc.last /\ b \in Goods!BarsOf(bar, p) \ acc.matched /\ bar[b].code = x.code
           \/ last = acc.last + 1 /\ b = last /\ Goods!FreeFor(acc.bars, x.code, 0)
  BY EntryPut
<1>2. new \in Goods!Variation /\ new # None /\ new.of = p /\ new.code = x.code
  BY EntryIs, NoneIsNone DEF RowFor, Goods!Variation
<1>3. /\ s.bars = [acc.bars EXCEPT ![b] = new] /\ s.matched = acc.matched \cup {b}
      /\ s.last = last /\ s.ok = TRUE /\ s.twice \in BOOLEAN
      /\ acc.bars \in [Goods!Bars -> Goods!Variation \cup {None}]
      /\ acc.matched \subseteq Goods!Bars /\ acc.last \in Nat
  BY <1>1 DEF Puts, SyncState
<1> HIDE DEF s, new
<1>4. s \in SyncState
  <2>1. s.bars \in [Goods!Bars -> Goods!Variation \cup {None}]
    BY <1>2, <1>3
  <2> QED
    BY <1>1, <1>3, <2>1 DEF SyncState, Puts
<1>5. \A a \in Goods!Bars : s.bars[a] = IF a = b THEN new ELSE acc.bars[a]
  BY <1>3
<1>6. \A a \in Goods!Rows(acc.bars) \ {b} : acc.bars[a].code # x.code
  <2>1. CASE b \in Goods!BarsOf(bar, p) /\ Goods!FreeFor(acc.bars, x.code, b)
    BY <2>1 DEF Goods!FreeFor
  <2>2. CASE b \in Goods!BarsOf(bar, p) \ acc.matched /\ bar[b].code = x.code
    <3>1. acc.bars[b] = Goods!NoPrimary(bar, p)[b] /\ bar[b] # None
      BY <2>2 DEF SyncFits, Goods!BarsOf, Goods!Rows
    <3>2. acc.bars[b].code = x.code /\ acc.bars[b] # None
      <4>1. Goods!NoPrimary(bar, p)[b] = [bar[b] EXCEPT !.primary = FALSE]
        BY <2>2 DEF Goods!NoPrimary
      <4>2. [bar[b] EXCEPT !.primary = FALSE] \in Goods!Variation
        BY <3>1, VariationIs DEF Goods!Variation
      <4> QED
        BY <2>2, <3>1, <4>1, <4>2, VariationIs, NoneIsNone DEF Goods!Variation
    <3> QED
      BY <3>2 DEF SyncFits, Apart, Goods!Rows
  <2>3. CASE b = acc.last + 1 /\ Goods!FreeFor(acc.bars, x.code, 0)
    <3>1. 0 \notin Goods!Rows(acc.bars)
      BY DEF Goods!Rows, Goods!Bars
    <3> QED
      BY <2>3, <3>1 DEF Goods!FreeFor
  <2> QED
    BY <1>1, <2>1, <2>2, <2>3
<1>7. /\ acc.last <= last /\ b <= last
      /\ bar[b] # None => bar[b].of = p
  <2>1. CASE last = acc.last /\ b \in Goods!BarsOf(bar, p)
    <3>1. bar[b] # None /\ bar[b].of = p /\ b <= inserted /\ inserted <= acc.last
      BY <2>1 DEF Goods!BarsOf, Goods!Rows, VariationsFit, SyncFits
    <3> QED
      BY <1>3, <2>1, <3>1 DEF GoodsTyped, Goods!Bars
  <2>2. CASE last = acc.last + 1 /\ b = last
    <3>1. inserted <= acc.last /\ inserted \in Nat
      BY DEF SyncFits, GoodsTyped
    <3>2. bar[b] = None
      BY <1>3, <2>2, <3>1 DEF VariationsFit, Goods!Rows
    <3> QED
      BY <1>3, <2>2, <3>2
  <2> QED
    BY <1>1, <2>1, <2>2
<1>8. SyncFits(p, s, codes)
  <2>1. inserted <= s.last /\ \A a \in Goods!Rows(s.bars) : a <= s.last
    <3>1. inserted \in Nat /\ inserted <= acc.last
      BY DEF SyncFits, GoodsTyped
    <3>2. ASSUME NEW a \in Goods!Rows(s.bars) PROVE a <= last
      <4>1. a \in Goods!Bars /\ a \in Nat
        BY DEF Goods!Rows, Goods!Bars
      <4>2. CASE a # b
        <5>1. a \in Goods!Rows(acc.bars)
          BY <1>5, <3>2, <4>2 DEF Goods!Rows
        <5> QED
          BY <1>1, <1>3, <1>7, <4>1, <5>1 DEF SyncFits
      <4> QED
        BY <1>7, <4>2
    <3> QED
      BY <1>3, <1>7, <3>1, <3>2
  <2>2. \A a \in s.matched : /\ s.bars[a] # None /\ s.bars[a].of = p /\ s.bars[a].code \in codes
                             /\ bar[a] # None => bar[a].of = p
    BY <1>2, <1>3, <1>5, <1>7 DEF SyncFits
  <2>3. \A a \in Goods!Bars \ s.matched : s.bars[a] = Goods!NoPrimary(bar, p)[a]
    BY <1>3, <1>5 DEF SyncFits
  <2>4. Apart(s.bars)
    <3>1. ASSUME NEW a \in Goods!Rows(s.bars), a # b
          PROVE  a \in Goods!Rows(acc.bars) /\ s.bars[a] = acc.bars[a] /\ s.bars[a].code # x.code
      BY <1>5, <1>6, <3>1 DEF Goods!Rows
    <3>2. s.bars[b].code = x.code
      BY <1>2, <1>5
    <3> QED
      BY <3>1, <3>2 DEF Apart, SyncFits
  <2> QED
    BY <2>1, <2>2, <2>3, <2>4 DEF SyncFits
<1> QED
  BY <1>1, <1>4, <1>8 DEF s

\* The primary that the entries leave; one of them may have taken it from the other.
LEMMA SyncedFits ==
  ASSUME GoodsTyped, VariationsFit, NEW p \in Products, NEW list \in EntryLists, Goods!Synced(p, list).ok
  PROVE  LET s == Goods!Synced(p, list)
         IN /\ s \in SyncState /\ SyncFits(p, s, Goods!CodesIn(list))
            /\ \A a, b \in s.matched : s.bars[a].primary /\ s.bars[b].primary => a = b
            /\ ~s.twice => \E b \in s.matched : s.bars[b].primary
<1> DEFINE base == Untouched(p)
           codes == Goods!CodesIn(list)
<1>1. base \in SyncState /\ SyncFits(p, base, codes) /\ base.ok /\ base.matched = {} /\ ~base.twice
  BY UntouchedFits DEF Untouched
<1>2. CASE \E x \in Goods!Entry : x.primary /\ list = <<x>>
  <2>1. PICK x \in Goods!Entry : x.primary /\ list = <<x>>
    BY <1>2
  <2>2. Goods!Synced(p, list) = Sync(p, base, x) /\ x.code \in codes
    BY <2>1, SyncedOne DEF Goods!CodesIn
  <2> DEFINE s == Sync(p, base, x)
  <2>3. s \in SyncState /\ SyncFits(p, s, codes)
    BY <1>1, <2>2, EntryFits
  <2>4. PICK b \in Goods!Bars, last \in Nat : s = Puts(p, base, x, b, last)
    BY <1>1, <2>2, EntryFits
  <2>5. s.matched = {b} /\ s.bars[b] = RowFor(p, x)
    BY <1>1, <2>4 DEF Puts, SyncState
  <2>6. s.bars[b].primary
    BY <2>1, <2>5 DEF RowFor
  <2> HIDE DEF s, base
  <2> QED
    BY <2>2, <2>3, <2>5, <2>6 DEF s
<1>3. CASE \E x, y \in Goods!Entry : x.primary /\ ~y.primary /\ list = <<x, y>>
  <2>1. PICK x \in Goods!Entry, y \in Goods!Entry : x.primary /\ ~y.primary /\ list = <<x, y>>
    BY <1>3
  <2> DEFINE first == Sync(p, base, x)
             s == Sync(p, first, y)
  <2>2. Goods!Synced(p, list) = s /\ x.code \in codes /\ y.code \in codes
    BY <2>1, SyncedTwo DEF Goods!CodesIn
  <2>3. first.ok
    <3>1. ~first.ok => s = first
      BY DEF Sync, Goods!SyncEntry
    <3> QED
      BY <2>2, <3>1
  <2>4. first \in SyncState /\ SyncFits(p, first, codes)
    BY <1>1, <2>2, <2>3, EntryFits
  <2>5. PICK a \in Goods!Bars, before \in Nat : first = Puts(p, base, x, a, before)
    BY <1>1, <2>2, <2>3, EntryFits
  <2>6. first.matched = {a} /\ first.bars[a] = RowFor(p, x)
    BY <1>1, <2>5 DEF Puts, SyncState
  <2> HIDE DEF first, base
  <2>7. s \in SyncState /\ SyncFits(p, s, codes)
    BY <2>2, <2>3, <2>4, EntryFits
  <2>8. PICK b \in Goods!Bars, last \in Nat : s = Puts(p, first, y, b, last)
    BY <2>2, <2>3, <2>4, EntryFits
  <2>9. /\ s.matched = {a, b} /\ s.twice = (first.twice \/ b = a)
        /\ \A c \in Goods!Bars : s.bars[c] = IF c = b THEN RowFor(p, y) ELSE first.bars[c]
    BY <2>4, <2>6, <2>8 DEF Puts, SyncState
  <2>10. RowFor(p, x).primary /\ ~RowFor(p, y).primary
    BY <2>1 DEF RowFor
  <2> HIDE DEF s
  <2>11. ~s.bars[b].primary /\ (a # b => s.bars[a].primary)
    BY <2>6, <2>9, <2>10
  <2>12. \A c, d \in s.matched : s.bars[c].primary /\ s.bars[d].primary => c = d
    BY <2>9, <2>11
  <2>13. ~s.twice => \E c \in s.matched : s.bars[c].primary
    BY <2>9, <2>11
  <2> QED
    BY <2>2, <2>7, <2>12, <2>13
<1>4. list \in {<<x>> : x \in {z \in Goods!Entry : z.primary}} \/
      \E x \in Goods!Entry, y \in Goods!Entry : x.primary /\ ~y.primary /\ list = <<x, y>>
  BY EntryIs DEF EntryLists
<1> QED
  BY <1>2, <1>3, <1>4


LEMMA Deactivated ==
  ASSUME NEW v \in Goods!Variation
  PROVE  LET w == [v EXCEPT !.primary = FALSE, !.active = FALSE]
         IN w \in Goods!Variation /\ w.code = v.code /\ w.of = v.of /\ ~w.primary
BY DEF Goods!Variation

\* What is left of the rows: those of the request, those of other products, and those of p
\* that were referred to, without the primary.
LEMMA SweptIs ==
  ASSUME GoodsTyped, VariationsFit, NEW p \in Products, NEW s \in SyncState, NEW codes,
         SyncFits(p, s, codes)
  PROVE  LET after == Goods!Swept(p, s)
         IN /\ after \in [Goods!Bars -> Goods!Variation \cup {None}]
            /\ \A b \in s.matched : after[b] = s.bars[b]
            /\ \A b \in Goods!Bars \ s.matched :
                 /\ bar[b] = None => after[b] = None
                 /\ bar[b] # None /\ bar[b].of # p => after[b] = bar[b]
                 /\ bar[b] # None /\ b \in used => after[b] # None
                 /\ after[b] # None => /\ after[b].code = bar[b].code /\ after[b].of = bar[b].of
                                       /\ after[b].of = p => ~after[b].primary
            /\ Apart(after)
<1> DEFINE after == Goods!Swept(p, s)
           left == Goods!BarsOf(bar, p) \ s.matched
<1>1. s.bars \in [Goods!Bars -> Goods!Variation \cup {None}] /\ s.matched \subseteq Goods!Bars
  BY DEF SyncState
<1>2. \A b \in Goods!Bars : s.bars[b] # None => s.bars[b] \in Goods!Variation
  BY <1>1
<1>3. \A b \in s.matched : after[b] = s.bars[b] /\ s.bars[b] # None
  BY <1>1 DEF Goods!Swept, SyncFits
<1>4. ASSUME NEW b \in Goods!Bars \ s.matched
      PROVE  /\ after[b] \in Goods!Variation \cup {None}
             /\ bar[b] = None => after[b] = None
             /\ bar[b] # None /\ bar[b].of # p => after[b] = bar[b]
             /\ bar[b] # None /\ b \in used => after[b] # None
             /\ after[b] # None => /\ after[b].code = bar[b].code /\ after[b].of = bar[b].of
                                   /\ after[b].of = p => ~after[b].primary
                                   /\ bar[b] # None
  <2>1. s.bars[b] = Goods!NoPrimary(bar, p)[b]
    BY DEF SyncFits
  <2>2. CASE b \notin Goods!BarsOf(bar, p)
    <3>1. after[b] = bar[b]
      BY <2>1, <2>2 DEF Goods!Swept, Goods!NoPrimary
    <3> QED
      BY <2>2, <3>1, VariationIs DEF Goods!BarsOf, Goods!Rows
  <2>3. CASE b \in Goods!BarsOf(bar, p)
    <3>1. bar[b] # None /\ bar[b].of = p
      BY <2>3 DEF Goods!BarsOf, Goods!Rows
    <3>2. CASE b \in used
      <4>1. s.bars[b] = [bar[b] EXCEPT !.primary = FALSE]
        BY <2>1, <2>3 DEF Goods!NoPrimary
      <4>2. s.bars[b] \in Goods!Variation /\ s.bars[b].code = bar[b].code /\ s.bars[b].of = p
        BY <3>1, <4>1, VariationIs DEF Goods!Variation
      <4>3. after[b] = [s.bars[b] EXCEPT !.primary = FALSE, !.active = FALSE]
        BY <2>3, <3>2 DEF Goods!Swept
      <4> HIDE DEF after
      <4>4. /\ after[b] \in Goods!Variation /\ after[b].code = bar[b].code
            /\ after[b].of = p /\ ~after[b].primary
        BY <4>2, <4>3, Deactivated
      <4> QED
        BY <3>1, <4>4, NoneIsNone
    <3>3. CASE b \notin used
      <4>1. after[b] = None
        BY <2>3, <3>3 DEF Goods!Swept
      <4> QED
        BY <3>1, <3>3, <4>1
    <3> QED
      BY <3>2, <3>3
  <2> QED
    BY <2>2, <2>3
<1>5. after \in [Goods!Bars -> Goods!Variation \cup {None}]
  <2>1. after = [b \in Goods!Bars |-> after[b]]
    BY DEF Goods!Swept
  <2>2. \A b \in Goods!Bars : after[b] \in Goods!Variation \cup {None}
    BY <1>1, <1>3, <1>4
  <2> HIDE DEF after
  <2> QED
    BY <2>1, <2>2
<1>6. \A b \in Goods!Rows(after) : s.bars[b] # None /\ s.bars[b].code = after[b].code
  <2> SUFFICES ASSUME NEW b \in Goods!Bars \ s.matched, after[b] # None
               PROVE  s.bars[b] # None /\ s.bars[b].code = after[b].code
    BY <1>3 DEF Goods!Rows
  <2>1. bar[b] # None /\ after[b].code = bar[b].code
    BY <1>4
  <2>2. s.bars[b] \in {bar[b], [bar[b] EXCEPT !.primary = FALSE]}
    BY DEF SyncFits, Goods!NoPrimary
  <2>3. [bar[b] EXCEPT !.primary = FALSE] \in Goods!Variation
    BY <2>1, VariationIs DEF Goods!Variation
  <2> QED
    BY <2>1, <2>2, <2>3, VariationIs, NoneIsNone DEF Goods!Variation
<1>7. Apart(after)
  BY <1>6 DEF Apart, SyncFits, Goods!Rows
<1> QED
  BY <1>3, <1>4, <1>5, <1>7


----------------------------------------------------------------------------
(* Products and combos                                                     *)

LEMMA EditorIs ==
  ASSUME GoodsTyped, NEW e \in Requests
  PROVE  /\ editor[e].op \in {"none", "product", "combo"}
         /\ editor[e].op = "none" => editor[e] = Goods!Resting
         /\ editor[e].op = "product" =>
              /\ editor[e].on \in Products /\ editor[e].entries \in EntryLists
              /\ editor[e].codes = Goods!CodesIn(editor[e].entries)
         /\ editor[e].op = "combo" =>
              /\ editor[e].on \in Combos /\ \E code \in Codes : editor[e].codes = {code}
              /\ editor[e].parts \subseteq Goods!Bars
<1>1. editor[e] \in {Goods!Resting} \cup ProductJobs \cup ComboJobs
  BY DEF GoodsTyped
<1>2. Goods!Resting.op = "none"
  BY DEF Goods!Resting
<1>3. ASSUME editor[e] \in ProductJobs
      PROVE  /\ editor[e].op = "product"
             /\ editor[e].on \in Products /\ editor[e].entries \in EntryLists
             /\ editor[e].codes = Goods!CodesIn(editor[e].entries)
  <2>1. PICK p \in Products, list \in EntryLists : editor[e] = ProductJob(p, list)
    BY <1>3 DEF ProductJobs
  <2> QED
    BY <2>1 DEF ProductJob
<1>4. ASSUME editor[e] \in ComboJobs
      PROVE  /\ editor[e].op = "combo"
             /\ editor[e].on \in Combos /\ \E code \in Codes : editor[e].codes = {code}
             /\ editor[e].parts \subseteq Goods!Bars
  <2>1. PICK c \in Combos, code \in Codes, of \in SUBSET Goods!Bars :
          editor[e] = ComboJob(c, code, of)
    BY <1>4 DEF ComboJobs
  <2> QED
    BY <2>1 DEF ComboJob
<1> QED
  BY <1>1, <1>2, <1>3, <1>4

\* The last of a request.
LEMMA DoneIs ==
  ASSUME GoodsTyped, NEW e \in Requests, Goods!Done(e)
  PROVE  /\ editor' \in [Requests -> {Goods!Resting} \cup ProductJobs \cup ComboJobs]
         /\ editor'[e].op = "none" /\ editor'[e].codes = {}
         /\ \A o \in Requests \ {e} : editor'[o] = editor[o]
BY DEF GoodsTyped, Goods!Done, Goods!Resting

LEMMA CommitProductKeeps ==
  ASSUME GoodsInv, NEW e \in Requests, Goods!CommitProduct(e)
  PROVE  GoodsInv'
<1> USE DEF GoodsInv
<1> DEFINE p == editor[e].on
           list == editor[e].entries
           s == Goods!Synced(p, list)
           codes == editor[e].codes
<1>1. p \in Products /\ list \in EntryLists /\ codes = Goods!CodesIn(list) /\ s.ok
  BY EditorIs DEF Goods!CommitProduct
<1>2. /\ s \in SyncState /\ SyncFits(p, s, codes)
      /\ \A a, b \in s.matched : s.bars[a].primary /\ s.bars[b].primary => a = b
      /\ ~s.twice => \E b \in s.matched : s.bars[b].primary
  BY <1>1, SyncedFits
<1>3. /\ bar' = Goods!Swept(p, s) /\ inserted' = s.last
      /\ Goods!Components \subseteq Goods!Rows(bar')
      /\ product' = [product EXCEPT ![p] = IF @ = "none" THEN "live" ELSE @]
      /\ shelf' = shelf \cap Goods!Rows(bar')
      /\ taken' = taken \cup (codes \cap {combo[c].code : c \in Goods!LiveCombos})
      /\ doubled' = IF s.twice THEN doubled \cup {p} ELSE doubled
      /\ Goods!Done(e) /\ UNCHANGED <<combo, used, contested>>
  BY DEF Goods!CommitProduct
<1> HIDE DEF s, codes, list, p
<1>4. /\ bar' \in [Goods!Bars -> Goods!Variation \cup {None}] /\ Apart(bar')
      /\ \A b \in s.matched : bar'[b] = s.bars[b]
      /\ \A b \in Goods!Bars \ s.matched :
           /\ bar[b] = None => bar'[b] = None
           /\ bar[b] # None /\ bar[b].of # p => bar'[b] = bar[b]
           /\ bar[b] # None /\ b \in used => bar'[b] # None
           /\ bar'[b] # None => /\ bar'[b].code = bar[b].code /\ bar'[b].of = bar[b].of
                                /\ bar'[b].of = p => ~bar'[b].primary
  BY <1>1, <1>2, <1>3, SweptIs
<1>5. /\ s.matched \subseteq Goods!Bars /\ s.last \in Nat /\ inserted <= s.last /\ inserted \in Nat
      /\ \A b \in s.matched : /\ bar'[b] # None /\ bar'[b].of = p /\ bar'[b].code \in codes
                              /\ b <= s.last /\ (bar[b] # None => bar[b].of = p)
  <2>1. s.matched \subseteq Goods!Bars /\ s.last \in Nat
    BY <1>2 DEF SyncState
  <2> QED
    BY <1>2, <1>4, <2>1 DEF SyncFits, GoodsTyped, Goods!Rows
<1>6. /\ product' \in [Products -> {"none", "live", "deleted"}] /\ product'[p] # "none"
      /\ \A q \in Products : q # p \/ product[q] # "none" => product'[q] = product[q]
  BY <1>1, <1>3 DEF GoodsTyped
<1>7. GoodsTyped'
  BY <1>3, <1>4, <1>5, <1>6, DoneIs DEF GoodsTyped
<1>8. VariationsFit'
  <2>1. ASSUME NEW b \in Goods!Rows(bar') PROVE b <= inserted' /\ product'[bar'[b].of] # "none"
    <3>1. CASE b \in s.matched
      BY <1>3, <1>5, <1>6, <3>1
    <3>2. CASE b \notin s.matched
      <4>1. b \in Goods!Bars /\ bar'[b] # None
        BY DEF Goods!Rows
      <4>2. b \in Goods!Rows(bar) /\ bar'[b].of = bar[b].of
        BY <1>4, <3>2, <4>1 DEF Goods!Rows
      <4>3. b <= inserted /\ product[bar[b].of] # "none" /\ bar[b].of \in Products
        BY <4>1, <4>2, VariationIs DEF VariationsFit, Goods!Rows
      <4> QED
        BY <1>3, <1>5, <1>6, <4>1, <4>2, <4>3 DEF Goods!Bars
    <3> QED
      BY <3>1, <3>2
  <2> QED
    BY <1>4, <2>1 DEF VariationsFit, Apart
<1>9. OnePrimary'
  <2> SUFFICES ASSUME NEW q \in Products
               PROVE  /\ \A a, b \in Primaries(bar', q) : a = b
                      /\ product'[q] # "none" /\ q \notin doubled' => Primaries(bar', q) # {}
    BY DEF OnePrimary
  <2>1. CASE q = p
    <3>1. Primaries(bar', p) = {b \in s.matched : s.bars[b].primary}
      <4>1. ASSUME NEW b \in Primaries(bar', p) PROVE b \in s.matched /\ s.bars[b].primary
        <5>1. b \in Goods!Bars /\ bar'[b] # None /\ bar'[b].of = p /\ bar'[b].primary
          BY DEF Primaries, Goods!BarsOf, Goods!Rows
        <5> QED
          BY <1>4, <5>1
      <4>2. ASSUME NEW b \in s.matched, s.bars[b].primary PROVE b \in Primaries(bar', p)
        BY <1>4, <1>5, <4>2 DEF Primaries, Goods!BarsOf, Goods!Rows
      <4> QED
        BY <4>1, <4>2
    <3> QED
      BY <1>2, <1>3, <2>1, <3>1
  <2>2. CASE q # p
    <3>1. Primaries(bar', q) = Primaries(bar, q)
      <4>1. ASSUME NEW b \in Goods!Bars PROVE b \in Primaries(bar', q) <=> b \in Primaries(bar, q)
        <5>1. CASE b \in s.matched
          BY <1>5, <2>2, <5>1 DEF Primaries, Goods!BarsOf, Goods!Rows
        <5>2. CASE b \notin s.matched
          BY <1>4, <2>2, <5>2 DEF Primaries, Goods!BarsOf, Goods!Rows
        <5> QED
          BY <5>1, <5>2
      <4> QED
        BY <4>1 DEF Primaries, Goods!BarsOf, Goods!Rows
    <3>2. product'[q] = product[q] /\ (q \notin doubled' => q \notin doubled)
      BY <1>3, <1>6, <2>2
    <3> QED
      BY <3>1, <3>2 DEF OnePrimary
  <2> QED
    BY <2>1, <2>2
<1>10. ReferencesFit'
  <2>1. Goods!Components' = Goods!Components
    BY <1>3 DEF Goods!Components
  <2>2. ASSUME NEW b \in used PROVE b \in Goods!Rows(bar')
    <3>1. b \in Goods!Bars /\ bar[b] # None
      BY DEF ReferencesFit, Goods!Rows
    <3> QED
      BY <1>4, <1>5, <3>1 DEF Goods!Rows
  <2> QED
    BY <1>3, <2>1, <2>2 DEF ReferencesFit
\* A code of a live variation is one of the request, or was one before.
<1>11. ASSUME NEW b \in Goods!LiveBars'
       PROVE  bar'[b].code \in codes \/ (b \in Goods!LiveBars /\ bar'[b].code = bar[b].code)
  <2>1. b \in Goods!Bars /\ bar'[b] # None /\ product'[bar'[b].of] = "live"
    BY DEF Goods!LiveBars, Goods!Rows
  <2>2. CASE b \in s.matched
    BY <1>5, <2>2
  <2>3. CASE b \notin s.matched
    <3>1. bar[b] # None /\ bar'[b].code = bar[b].code /\ bar'[b].of = bar[b].of
      BY <1>4, <2>1, <2>3
    <3>2. product[bar[b].of] # "none" /\ bar[b].of \in Products
      BY <2>1, <3>1, VariationIs DEF VariationsFit, Goods!Rows
    <3> QED
      BY <1>6, <2>1, <3>1, <3>2 DEF Goods!LiveBars, Goods!Rows
  <2> QED
    BY <2>2, <2>3
<1>12. Goods!LiveCombos' = Goods!LiveCombos
  BY <1>3 DEF Goods!LiveCombos
<1>13. CombosFit'
  <2>1. \A c, d \in Goods!LiveCombos' : combo'[c].code = combo'[d].code => c = d
    BY <1>3, <1>12 DEF CombosFit
  <2>2. ASSUME NEW b \in Goods!LiveBars', NEW c \in Goods!LiveCombos', bar'[b].code = combo'[c].code
        PROVE  bar'[b].code \in taken' \cup contested'
    BY <1>3, <1>11, <1>12, <2>2 DEF CombosFit
  <2> QED
    BY <2>1, <2>2 DEF CombosFit
<1>14. HandsFit'
  <2>1. \A a, o \in Requests : a # o => editor'[a].codes \cap editor'[o].codes \subseteq contested'
    BY <1>3, DoneIs DEF HandsFit
  <2>2. ASSUME NEW o \in Requests, NEW b \in Goods!LiveBars', editor'[o].op = "combo",
               bar'[b].code \in editor'[o].codes
        PROVE  bar'[b].code \in taken' \cup contested'
    <3>1. o # e /\ editor'[o] = editor[o]
      BY <1>3, <2>2, DoneIs
    <3> QED
      BY <1>3, <1>11, <2>2, <3>1 DEF HandsFit, codes
  <2> QED
    BY <2>1, <2>2 DEF HandsFit
<1> QED
  BY <1>7, <1>8, <1>9, <1>10, <1>13, <1>14


\* A step that leaves rows, products and combos alone.
LEMMA GoodsRest ==
  ASSUME GoodsInv, UNCHANGED <<product, bar, inserted, combo, taken, doubled>>,
         used' \cup shelf' \subseteq Goods!Rows(bar),
         editor' \in [Requests -> {Goods!Resting} \cup ProductJobs \cup ComboJobs], HandsFit',
         contested \subseteq contested'
  PROVE  GoodsInv'
<1> USE DEF GoodsInv
<1>1. GoodsTyped' /\ VariationsFit'
  BY DEF GoodsTyped, VariationsFit
<1>2. OnePrimary'
  BY DEF OnePrimary
<1>3. ReferencesFit'
  BY DEF ReferencesFit, Goods!Components
<1>4. CombosFit'
  BY DEF CombosFit, Goods!LiveCombos, Goods!LiveBars
<1> QED
  BY <1>1, <1>2, <1>3, <1>4

LEMMA TakeKeeps ==
  ASSUME GoodsInv, NEW e \in Requests, NEW j \in ProductJobs \cup ComboJobs, Goods!Take(e, j),
         j.op = "combo" => \A b \in Goods!LiveBars : bar[b].code \notin j.codes
  PROVE  GoodsInv'
<1> USE DEF GoodsInv
<1>1. /\ editor' = [editor EXCEPT ![e] = j] /\ UNCHANGED <<product, bar, inserted, combo, used,
                                                           shelf, taken, doubled>>
      /\ contested' = contested \cup UNION {j.codes \cap editor[o].codes : o \in Requests}
  BY DEF Goods!Take
<1>2. \A a, o \in Requests : a # o => editor'[a].codes \cap editor'[o].codes \subseteq contested'
  <2> SUFFICES ASSUME NEW a \in Requests, NEW o \in Requests, a # o,
                      NEW k \in editor'[a].codes \cap editor'[o].codes
               PROVE  k \in contested'
    OBVIOUS
  <2>1. CASE a # e /\ o # e
    BY <1>1, <2>1 DEF GoodsTyped, HandsFit
  <2>2. CASE a = e
    <3>1. k \in j.codes \cap editor[o].codes
      BY <1>1, <2>2 DEF GoodsTyped
    <3> QED
      BY <1>1, <3>1
  <2>3. CASE o = e
    <3>1. k \in j.codes \cap editor[a].codes
      BY <1>1, <2>3 DEF GoodsTyped
    <3> QED
      BY <1>1, <3>1
  <2> QED
    BY <2>1, <2>2, <2>3
<1>3. Goods!LiveBars' = Goods!LiveBars
  BY <1>1 DEF Goods!LiveBars
<1>4. HandsFit'
  BY <1>1, <1>2, <1>3 DEF HandsFit, GoodsTyped
<1>5. used' \cup shelf' \subseteq Goods!Rows(bar)
  BY <1>1 DEF ReferencesFit
<1>6. editor' \in [Requests -> {Goods!Resting} \cup ProductJobs \cup ComboJobs]
  BY <1>1 DEF GoodsTyped
<1> QED
  BY <1>1, <1>4, <1>5, <1>6, GoodsRest

LEMMA BeginProductKeeps ==
  ASSUME GoodsInv, NEW e \in Requests, NEW p \in Products, NEW list \in Goods!Requested(p),
         Goods!BeginProduct(e, p, list)
  PROVE  GoodsInv'
<1> DEFINE j == ProductJob(p, list)
<1>1. list \in EntryLists
  BY DEF Goods!Requested, EntryLists
<1>2. j.op = "product" /\ Goods!Take(e, j)
  BY DEF ProductJob, Goods!BeginProduct
<1>3. j \in ProductJobs
  BY <1>1 DEF ProductJobs
<1> HIDE DEF j
<1> QED
  BY <1>2, <1>3, TakeKeeps

LEMMA BeginComboKeeps ==
  ASSUME GoodsInv, NEW e \in Requests, NEW c \in Combos, NEW code \in Codes, NEW of,
         Goods!BeginCombo(e, c, code, of)
  PROVE  GoodsInv'
<1> DEFINE j == ComboJob(c, code, of)
<1>1. of \subseteq Goods!Bars /\ \A b \in Goods!LiveBars : bar[b].code # code
  BY DEF Goods!BeginCombo, Goods!ComboValid, Goods!Movable, Goods!LiveBars, Goods!Rows
<1>2. j.codes = {code} /\ Goods!Take(e, j)
  BY DEF ComboJob, Goods!BeginCombo
<1>3. j \in ComboJobs
  BY <1>1 DEF ComboJobs
<1> HIDE DEF j
<1> QED
  BY <1>1, <1>2, <1>3, TakeKeeps

LEMMA CommitComboKeeps ==
  ASSUME GoodsInv, NEW e \in Requests, Goods!CommitCombo(e)
  PROVE  GoodsInv'
<1> USE DEF GoodsInv
<1> DEFINE c == editor[e].on
           code == CHOOSE x \in editor[e].codes : TRUE
           new == [code |-> code, parts |-> editor[e].parts, deleted |-> FALSE]
<1>1. c \in Combos /\ editor[e].parts \subseteq Goods!Bars /\ editor[e].op = "combo"
  BY EditorIs DEF Goods!CommitCombo
<1>2. editor[e].codes = {code} /\ code \in Codes
  BY <1>1, EditorIs
<1>3. /\ editor[e].parts \subseteq Goods!Rows(bar) /\ Goods!Done(e)
      /\ UNCHANGED <<product, bar, inserted, used, shelf, taken, doubled, contested>>
  BY DEF Goods!CommitCombo
<1>4. \/ /\ c \notin Goods!LiveCombos /\ combo[c] # None
         /\ combo' = [combo EXCEPT ![c].parts = editor[e].parts]
      \/ /\ \A o \in Goods!LiveCombos \ {c} : combo[o].code # code
         /\ combo' = [combo EXCEPT ![c] = new]
  <2>1. IF c \notin Goods!LiveCombos /\ combo[c] # None
        THEN combo' = [combo EXCEPT ![c].parts = editor[e].parts]
        ELSE (\A o \in Goods!LiveCombos \ {c} : combo[o].code # code) /\ combo' = [combo EXCEPT ![c] = new]
    BY DEF Goods!CommitCombo
  <2> HIDE DEF c, code, new
  <2> QED
    BY <2>1
<1> HIDE DEF c, code
<1>5. new \in Goods!Combo /\ new # None
  <2>1. \A x \in Codes, l \in SUBSET Goods!Bars :
          [code |-> x, parts |-> l, deleted |-> FALSE] \in Goods!Combo
    BY DEF Goods!Combo
  <2>2. new \in Goods!Combo
    BY <1>1, <1>2, <2>1
  <2> QED
    BY <2>2, NoneIsNone
<1>6. ASSUME combo[c] # None
      PROVE  /\ [combo[c] EXCEPT !.parts = editor[e].parts] \in Goods!Combo
             /\ [combo[c] EXCEPT !.parts = editor[e].parts].deleted = combo[c].deleted
             /\ [combo[c] EXCEPT !.parts = editor[e].parts].parts = editor[e].parts
  <2>1. combo[c] \in Goods!Combo
    BY <1>1, <1>6 DEF GoodsTyped
  <2> QED
    BY <1>1, <2>1 DEF Goods!Combo
<1>7. /\ combo' \in [Combos -> Goods!Combo \cup {None}]
      /\ combo'[c].parts = editor[e].parts /\ \A d \in Combos \ {c} : combo'[d] = combo[d]
      /\ \A d \in Goods!LiveCombos' :
           \/ combo'[d] = combo[d] /\ d \in Goods!LiveCombos
           \/ /\ d = c /\ combo'[d].code = code
              /\ \A o \in Goods!LiveCombos \ {c} : combo[o].code # code
  <2>1. CASE c \notin Goods!LiveCombos /\ combo[c] # None /\ combo' = [combo EXCEPT ![c].parts = editor[e].parts]
    <3>1. combo' = [combo EXCEPT ![c] = [combo[c] EXCEPT !.parts = editor[e].parts]]
      BY <2>1
    <3>2. combo' \in [Combos -> Goods!Combo \cup {None}] /\ \A d \in Combos \ {c} : combo'[d] = combo[d]
      BY <1>6, <2>1, <3>1 DEF GoodsTyped
    <3>3. combo'[c] = [combo[c] EXCEPT !.parts = editor[e].parts]
      BY <1>1, <3>1 DEF GoodsTyped
    <3>4. c \notin Goods!LiveCombos'
      BY <1>1, <1>6, <2>1, <3>3 DEF Goods!LiveCombos
    <3> QED
      BY <1>6, <2>1, <3>2, <3>3, <3>4 DEF Goods!LiveCombos
  <2>2. CASE combo' = [combo EXCEPT ![c] = new] /\ \A o \in Goods!LiveCombos \ {c} : combo[o].code # code
    <3>1. combo' \in [Combos -> Goods!Combo \cup {None}] /\ combo'[c] = new
          /\ \A d \in Combos \ {c} : combo'[d] = combo[d]
      BY <1>1, <1>5, <2>2 DEF GoodsTyped
    <3>2. new.code = code /\ new.parts = editor[e].parts
      OBVIOUS
    <3> QED
      BY <2>2, <3>1, <3>2 DEF Goods!LiveCombos
  <2> QED
    BY <1>4, <2>1, <2>2
<1>8. GoodsTyped' /\ VariationsFit' /\ OnePrimary'
  BY <1>3, <1>7, DoneIs DEF GoodsTyped, VariationsFit, OnePrimary
<1>9. ReferencesFit'
  <2>1. ASSUME NEW d \in Combos, combo'[d] # None PROVE combo'[d].parts \subseteq Goods!Rows(bar)
    <3>1. CASE d = c
      BY <1>3, <1>7, <3>1
    <3>2. CASE d # c
      BY <1>7, <2>1, <3>2 DEF ReferencesFit, Goods!Components
    <3> QED
      BY <3>1, <3>2
  <2>2. Goods!Components' \subseteq Goods!Rows(bar)
    BY <2>1 DEF Goods!Components
  <2> QED
    BY <1>3, <2>2 DEF ReferencesFit
<1>10. Goods!LiveBars' = Goods!LiveBars
  BY <1>3 DEF Goods!LiveBars
<1>11. HandsFit'
  BY <1>3, <1>10, DoneIs DEF HandsFit
<1>12. CombosFit'
  <2>1. \A d, o \in Goods!LiveCombos' : combo'[d].code = combo'[o].code => d = o
    BY <1>7 DEF CombosFit
  <2>2. ASSUME NEW b \in Goods!LiveBars, NEW d \in Goods!LiveCombos', bar[b].code = combo'[d].code
        PROVE  bar[b].code \in taken \cup contested
    BY <1>1, <1>2, <1>7, <2>2 DEF CombosFit, HandsFit
  <2> QED
    BY <1>3, <1>10, <2>1, <2>2 DEF CombosFit
<1> QED
  BY <1>8, <1>9, <1>11, <1>12

LEMMA GiveBackKeeps ==
  ASSUME GoodsInv, NEW e \in Requests, Goods!GiveBack(e)
  PROVE  GoodsInv'
<1> USE DEF GoodsInv
<1>1. Goods!Done(e) /\ UNCHANGED <<product, bar, inserted, combo, used, shelf, taken, doubled, contested>>
  BY DEF Goods!GiveBack
<1>2. HandsFit'
  <2>1. Goods!LiveBars' = Goods!LiveBars
    BY <1>1 DEF Goods!LiveBars
  <2> QED
    BY <1>1, <2>1, DoneIs DEF HandsFit
<1>3. used' \cup shelf' \subseteq Goods!Rows(bar)
  BY <1>1 DEF ReferencesFit
<1> QED
  BY <1>1, <1>2, <1>3, DoneIs, GoodsRest

LEMMA DeleteProductKeeps ==
  ASSUME GoodsInv, NEW p \in Products, Goods!DeleteProduct(p)
  PROVE  GoodsInv'
<1> USE DEF GoodsInv
<1>1. /\ product[p] = "live" /\ product' = [product EXCEPT ![p] = "deleted"]
      /\ UNCHANGED <<bar, inserted, combo, used, shelf, editor, taken, doubled, contested>>
  BY DEF Goods!DeleteProduct
<1>2. /\ product' \in [Products -> {"none", "live", "deleted"}]
      /\ \A q \in Products : product'[q] = "none" <=> product[q] = "none"
      /\ \A q \in Products : product'[q] = "live" => product[q] = "live"
  BY <1>1 DEF GoodsTyped
<1>3. \A b \in Goods!Rows(bar) : bar[b].of \in Products
  BY VariationIs DEF Goods!Rows
<1>4. GoodsTyped' /\ VariationsFit' /\ OnePrimary' /\ ReferencesFit'
  BY <1>1, <1>2, <1>3 DEF GoodsTyped, VariationsFit, OnePrimary, ReferencesFit, Goods!Components
<1>5. Goods!LiveBars' \subseteq Goods!LiveBars /\ Goods!LiveCombos' = Goods!LiveCombos
  BY <1>1, <1>2, <1>3 DEF Goods!LiveBars, Goods!LiveCombos
<1>6. HandsFit' /\ CombosFit'
  BY <1>1, <1>5 DEF HandsFit, CombosFit
<1> QED
  BY <1>4, <1>6

LEMMA DeleteComboProductKeeps ==
  ASSUME GoodsInv, NEW c \in Combos, Goods!DeleteComboProduct(c)
  PROVE  GoodsInv'
<1> USE DEF GoodsInv
<1>1. /\ combo[c] # None /\ combo' = [combo EXCEPT ![c].deleted = TRUE]
      /\ UNCHANGED <<product, bar, inserted, used, shelf, editor, taken, doubled, contested>>
  BY DEF Goods!DeleteComboProduct, Goods!LiveCombos
<1>2. combo[c] \in Goods!Combo
  BY <1>1 DEF GoodsTyped
<1>3. /\ combo' \in [Combos -> Goods!Combo \cup {None}]
      /\ \A d \in Combos \ {c} : combo'[d] = combo[d]
      /\ combo'[c].parts = combo[c].parts /\ combo'[c].deleted = TRUE
  BY <1>1, <1>2 DEF GoodsTyped, Goods!Combo
<1>4. GoodsTyped' /\ VariationsFit' /\ OnePrimary'
  BY <1>1, <1>3 DEF GoodsTyped, VariationsFit, OnePrimary
<1>5. Goods!Components' \subseteq Goods!Components
  BY <1>1, <1>3 DEF Goods!Components
<1>6. ReferencesFit'
  BY <1>1, <1>5 DEF ReferencesFit
<1>7. Goods!LiveBars' = Goods!LiveBars /\ Goods!LiveCombos' \subseteq Goods!LiveCombos \ {c}
  BY <1>1, <1>3 DEF Goods!LiveBars, Goods!LiveCombos
<1>8. HandsFit' /\ CombosFit'
  <2>1. HandsFit'
    BY <1>1, <1>7 DEF HandsFit
  <2>2. \A d \in Goods!LiveCombos' : combo'[d] = combo[d] /\ d \in Goods!LiveCombos
    BY <1>3, <1>7 DEF Goods!LiveCombos
  <2>3. CombosFit'
    BY <1>1, <1>7, <2>2 DEF CombosFit
  <2> QED
    BY <2>1, <2>3
<1> QED
  BY <1>4, <1>6, <1>8

\* Stock moves, combos are sold, goods are placed.
LEMMA ReferencesKeep ==
  ASSUME GoodsInv,
         \/ \E b \in Goods!Bars : Goods!MoveStock(b)
         \/ \E c \in Combos : Goods!SellCombo(c)
         \/ \E p \in Products : \E places : Goods!ReplaceAssignments(p, places)
  PROVE  GoodsInv'
<1> USE DEF GoodsInv
<1>1. UNCHANGED <<product, bar, inserted, combo, editor, taken, doubled, contested>>
  BY DEF Goods!MoveStock, Goods!SellCombo, Goods!ReplaceAssignments
<1>2. used' \cup shelf' \subseteq Goods!Rows(bar)
  <2>1. Goods!Movable \subseteq Goods!Rows(bar)
    BY DEF Goods!Movable, Goods!LiveBars
  <2>2. used \cup shelf \subseteq Goods!Rows(bar)
    BY DEF ReferencesFit
  <2>3. ASSUME NEW b \in Goods!Bars, Goods!MoveStock(b) PROVE used' \cup shelf' \subseteq Goods!Rows(bar)
    BY <2>1, <2>2, <2>3 DEF Goods!MoveStock
  <2>4. ASSUME NEW c \in Combos, Goods!SellCombo(c) PROVE used' \cup shelf' \subseteq Goods!Rows(bar)
    BY <2>1, <2>2, <2>4 DEF Goods!SellCombo
  <2>5. ASSUME NEW p \in Products, NEW places, Goods!ReplaceAssignments(p, places)
        PROVE  used' \cup shelf' \subseteq Goods!Rows(bar)
    BY <2>2, <2>5 DEF Goods!ReplaceAssignments, Goods!BarsOf
  <2> QED
    BY <2>3, <2>4, <2>5
<1>3. HandsFit'
  BY <1>1 DEF HandsFit, Goods!LiveBars
<1> QED
  BY <1>1, <1>2, <1>3, GoodsRest DEF GoodsTyped

LEMMA GoodsKeep ==
  ASSUME GoodsInv, [Goods!CatalogueNext]_goods
  PROVE  GoodsInv'
<1>1. ASSUME NEW e \in Requests, NEW p \in Products, NEW list \in Goods!Requested(p),
             Goods!BeginProduct(e, p, list)
      PROVE  GoodsInv'
  BY <1>1, BeginProductKeeps
<1>2. ASSUME NEW e \in Requests, NEW c \in Combos, NEW code \in Codes, NEW of,
             Goods!BeginCombo(e, c, code, of)
      PROVE  GoodsInv'
  BY <1>2, BeginComboKeeps
<1>3. ASSUME NEW e \in Requests, Goods!CommitProduct(e) \/ Goods!CommitCombo(e) \/ Goods!GiveBack(e)
      PROVE  GoodsInv'
  BY <1>3, CommitProductKeeps, CommitComboKeeps, GiveBackKeeps
<1>4. ASSUME NEW p \in Products, Goods!DeleteProduct(p) PROVE GoodsInv'
  BY <1>4, DeleteProductKeeps
<1>5. ASSUME NEW c \in Combos, Goods!DeleteComboProduct(c) PROVE GoodsInv'
  BY <1>5, DeleteComboProductKeeps
<1>6. CASE UNCHANGED goods
  <2>1. HandsFit'
    BY <1>6 DEF goods, GoodsInv, HandsFit, Goods!LiveBars
  <2>2. used' \cup shelf' \subseteq Goods!Rows(bar)
    BY <1>6 DEF goods, GoodsInv, ReferencesFit
  <2> QED
    BY <1>6, <2>1, <2>2, GoodsRest DEF goods, GoodsInv, GoodsTyped
<1> QED
  BY <1>1, <1>2, <1>3, <1>4, <1>5, <1>6, ReferencesKeep DEF Goods!CatalogueNext

LEMMA GoodsStart == Goods!CatalogueInit => GoodsInv
<1> SUFFICES ASSUME Goods!CatalogueInit PROVE GoodsInv
  OBVIOUS
<1> USE DEF Goods!CatalogueInit
<1>1. Goods!Rows(bar) = {}
  BY DEF Goods!Rows
<1>2. GoodsTyped
  BY DEF GoodsTyped
<1>3. Goods!Components = {}
  BY DEF Goods!Components
<1>4. Goods!LiveBars = {} /\ Goods!LiveCombos = {}
  BY <1>1 DEF Goods!LiveBars, Goods!LiveCombos
<1>5. VariationsFit /\ ReferencesFit /\ CombosFit
  BY <1>1, <1>3, <1>4 DEF VariationsFit, ReferencesFit, CombosFit
<1>6. OnePrimary
  BY <1>1 DEF OnePrimary, Primaries, Goods!BarsOf
<1>7. HandsFit
  BY <1>4 DEF HandsFit, Goods!Resting
<1> QED
  BY <1>2, <1>5, <1>6, <1>7 DEF GoodsInv

LEMMA GoodsCardinality == \A S : Goods!Cardinality(S) = Cardinality(S)
BY Zenon DEF Cardinality, Goods!Cardinality

\* However products and combos are edited at once, each product has one primary variation,
\* or none once a request named one of its rows twice; what is referred to is not
\* deleted; codes of variations are apart and those of combos are; and a code is both only
\* where a product took it or requests with it overlapped (syncProductBarcodesTx,
\* validateComboRequestTx).
THEOREM CodesAlwaysAgree == ShopSpec => []CodesAgree
<1> DEFINE ShopStep == [ShopNext]_<<part, stock, transport, docs, edit, offers, goods, prices>>
<1>1. ShopInit => GoodsInv
  BY GoodsStart DEF ShopInit
<1>2. GoodsInv /\ ShopStep => GoodsInv'
  <2> SUFFICES ASSUME GoodsInv, ShopStep PROVE GoodsInv'
    OBVIOUS
  <2>1. [Goods!CatalogueNext]_goods
    BY DEF ShopNext
  <2> QED
    BY <2>1, GoodsKeep
<1>3. GoodsInv => CodesAgree
  <2> SUFFICES ASSUME GoodsInv PROVE CodesAgree
    OBVIOUS
  <2>1. ASSUME NEW p \in Products, product[p] # "none"
        PROVE  Cardinality({b \in Goods!BarsOf(bar, p) : bar[b].primary})
                 \in (IF p \in doubled THEN 0..1 ELSE {1})
    <3> DEFINE P == Primaries(bar, p)
    <3>1. P = {} \/ \E b : P = {b}
      BY DEF GoodsInv, OnePrimary
    <3>2. Cardinality(P) \in {0, 1} /\ (P # {} => Cardinality(P) = 1)
      BY <3>1, FS_EmptySet, FS_Singleton
    <3>3. p \notin doubled => P # {}
      BY <2>1 DEF GoodsInv, OnePrimary
    <3> QED
      BY <3>2, <3>3 DEF Primaries
  <2> QED
    BY <2>1, GoodsCardinality DEF CodesAgree, Goods!CodesAgree, GoodsInv, ReferencesFit, VariationsFit, CombosFit
<1> QED
  BY <1>1, <1>2, <1>3, PTL DEF ShopSpec

----------------------------------------------------------------------------
(* The amounts of a sale: values                                           *)

LEMMA PriceConstants ==
  /\ Weights \in [Sellable -> Seq(Nat \ {0})] /\ Cost \in [Sellable -> Nat]
  /\ Baskets \subseteq Seq(Prices!ItemRecord) \ {<<>>}
  /\ Rates \subseteq 0 .. 100 /\ Discounts \subseteq Nat
  /\ AllowLoss \in BOOLEAN /\ Fine \in Nat /\ Fine >= 1
BY ShopConstants DEF Prices!PricingConstants

LEMMA TotalIs == \A f : Prices!Total(f) = SumOf(f, DOMAIN f)
BY DEF Prices!Total, Prices!MapThenSumSet, Prices!MapThenFoldSet, SumOf, MapThenSumSet,
       MapThenFoldSet

\* Rounding down a quotient.
LEMMA Quotient ==
  ASSUME NEW a \in Int, NEW b \in Nat, b >= 1
  PROVE  /\ a \div b \in Int
         /\ b * (a \div b) <= a /\ a < b * (a \div b) + b
         /\ a >= 0 => a \div b \in Nat
OBVIOUS

LEMMA Cancel ==
  ASSUME NEW a \in Int, NEW b \in Int, NEW c \in Nat, c >= 1, c * a <= c * b
  PROVE  a <= b
OBVIOUS

LEMMA TimesLess ==
  ASSUME NEW a \in Int, NEW b \in Int, NEW c \in Nat, a <= b
  PROVE  c * a <= c * b
OBVIOUS

LEMMA Halves ==
  ASSUME NEW x \in Nat
  PROVE  /\ Prices!Half(x) \in Nat
         /\ 2 * (Fine * Prices!Half(x)) - 2 * x <= Fine
         /\ -Fine < 2 * (Fine * Prices!Half(x)) - 2 * x
<1> DEFINE b == 2 * Fine
           a == 2 * x + Fine
           h == a \div b
<1>1. Fine \in Nat /\ Fine >= 1
  BY PriceConstants
<1>2. a \in Int /\ a >= 0 /\ b \in Nat /\ b >= 1
  BY <1>1
<1>3. h \in Nat /\ b * h <= a /\ a < b * h + b
  <2> HIDE DEF a, b
  <2> QED
    BY <1>2, Quotient
<1> HIDE DEF h
<1>4. b * h = 2 * (Fine * h)
  BY <1>1, <1>3
<1>5. Fine * h \in Int
  BY <1>1, <1>3
<1>6. 2 * (Fine * h) - 2 * x <= Fine /\ -Fine < 2 * (Fine * h) - 2 * x
  BY <1>1, <1>3, <1>4, <1>5
<1>7. Prices!Half(x) = h
  BY DEF Prices!Half, h
<1>8. QED
  BY <1>3, <1>6, <1>7

\* To the nearest cent.
LEMMA Rounded ==
  ASSUME NEW x \in Int
  PROVE  /\ Prices!Cents(x) \in Int
         /\ 2 * (Fine * Prices!Cents(x)) - 2 * x <= Fine
         /\ -Fine <= 2 * (Fine * Prices!Cents(x)) - 2 * x
         /\ x >= 0 => Prices!Cents(x) \in Nat
<1>1. CASE x >= 0
  <2> DEFINE h == Prices!Half(x)
  <2>1. h \in Nat /\ 2 * (Fine * h) - 2 * x <= Fine /\ -Fine < 2 * (Fine * h) - 2 * x
    BY <1>1, Halves
  <2>2. Prices!Cents(x) = h
    BY <1>1 DEF Prices!Cents
  <2> HIDE DEF h
  <2>3. Fine * h \in Int
    BY <2>1, PriceConstants
  <2>4. QED
    BY <2>1, <2>2, <2>3, PriceConstants
<1>2. CASE x < 0
  <2> DEFINE y == -x
             h == Prices!Half(y)
  <2>1. y \in Nat
    BY <1>2
  <2>2. h \in Nat /\ 2 * (Fine * h) - 2 * y <= Fine /\ -Fine < 2 * (Fine * h) - 2 * y
    BY <2>1, Halves
  <2>3. Prices!Cents(x) = -h
    BY <1>2 DEF Prices!Cents
  <2> HIDE DEF h
  <2>4. Fine \in Nat
    BY PriceConstants
  <2>5. Fine * (-h) = -(Fine * h) /\ Fine * h \in Int
    BY <2>2, <2>4
  <2>6. QED
    BY <1>2, <2>2, <2>3, <2>4, <2>5
<1>3. QED
  BY <1>1, <1>2

\* Cents are right when nothing is to be rounded, and are none of nothing.
LEMMA RoundedWhole ==
  ASSUME NEW n \in Nat
  PROVE  Prices!Cents(n * Fine) = n
<1> DEFINE x == n * Fine
           c == Prices!Cents(x)
<1>1. Fine \in Nat /\ Fine >= 1
  BY PriceConstants
<1>2. x \in Int /\ x >= 0
  BY <1>1
<1>3. c \in Nat /\ 2 * (Fine * c) - 2 * x <= Fine /\ -Fine < 2 * (Fine * c) - 2 * x
  BY <1>1, <1>2, Halves DEF Prices!Cents
<1> HIDE DEF c
<1>4. 2 * (Fine * (c - n)) <= Fine /\ -Fine < 2 * (Fine * (c - n))
  BY <1>1, <1>3
<1>5. c - n <= 0
  <2> SUFFICES ASSUME c - n >= 1 PROVE FALSE
    BY <1>3
  <2>1. Fine * 1 <= Fine * (c - n)
    BY <1>1, <1>3, TimesLess
  <2>2. QED
    BY <1>1, <1>3, <1>4, <2>1
<1>6. c - n >= 0
  <2> SUFFICES ASSUME c - n <= -1 PROVE FALSE
    BY <1>3
  <2>1. Fine * (c - n) <= Fine * (-1)
    BY <1>1, <1>3, TimesLess
  <2>2. QED
    BY <1>1, <1>3, <1>4, <2>1
<1>7. QED
  BY <1>3, <1>5, <1>6 DEF c

AmountRecord == [net : Nat, tax : Nat]
LineRecord == [net : Nat, tax : Nat, by : Taxes, quantity : Nat \ {0}, cost : Nat]

PriceSettingsTyped ==
  /\ rate \in [Taxes -> 0 .. 100]
  /\ parts \in [Taxes -> {<<>>} \cup ((0 .. 100) \X (0 .. 100))]
  /\ taxOf \in [Sellable -> Taxes]

LEMMA Percentage ==
  ASSUME NEW a \in Nat, NEW p \in 0 .. 100
  PROVE  (a * p) \div 100 \in Nat /\ (a * p) \div 100 <= a
<1> DEFINE q == (a * p) \div 100
<1>1. a * p \in Nat /\ a * p <= a * 100
  BY TimesLess
<1>2. q \in Nat /\ 100 * q <= a * p
  <2> DEFINE m == a * p
  <2> HIDE DEF m
  <2> QED
    BY <1>1, Quotient DEF m
<1> HIDE DEF q
<1>3. QED
  BY <1>1, <1>2 DEF q

LEMMA TaxLineIs ==
  ASSUME NEW item \in Prices!ItemRecord, NEW percent \in 0 .. 100
  PROVE  Prices!TaxLine(item, percent) \in AmountRecord
<1> DEFINE gross == item.quantity * item.price * Fine
           off == (gross * item.off) \div 100
           after == gross - off
           bare == IF inclusive THEN (after * 100) \div (100 + percent) ELSE after
           tax == IF inclusive THEN after - bare ELSE (after * percent) \div 100
<1>1. gross \in Nat
  <2>1. item.quantity \in Nat /\ item.price \in Nat /\ Fine \in Nat
    BY PriceConstants DEF Prices!ItemRecord
  <2>2. QED
    BY <2>1
<1>2. item.off \in 0 .. 100
  BY DEF Prices!ItemRecord
<1>3. off \in Nat /\ off <= gross
  <2> HIDE DEF gross
  <2> QED
    BY <1>1, <1>2, Percentage
<1>4. after \in Nat
  <2> HIDE DEF gross, off
  <2> QED
    BY <1>1, <1>3
<1> HIDE DEF after
<1>5. bare \in Nat /\ bare <= after
  <2>1. CASE inclusive
    <3> DEFINE n == (after * 100) \div (100 + percent)
    <3>1. after * 100 \in Int /\ after * 100 >= 0 /\ 100 + percent \in Nat /\ 100 + percent >= 1
      BY <1>4
    <3>2. n \in Nat /\ (100 + percent) * n <= after * 100
      <4> DEFINE a == after * 100
                 b == 100 + percent
      <4> HIDE DEF a, b
      <4> QED
        BY <3>1, Quotient DEF a, b
    <3> HIDE DEF n
    <3>3. 100 * n <= (100 + percent) * n
      BY <3>2
    <3>4. 100 * n <= 100 * after
      BY <1>4, <3>1, <3>2, <3>3
    <3>5. n <= after
      BY <1>4, <3>2, <3>4
    <3>6. QED
      BY <2>1, <3>2, <3>5 DEF n
  <2>2. CASE ~inclusive
    BY <1>4, <2>2
  <2>3. QED
    BY <2>1, <2>2
<1>6. tax \in Nat
  <2>1. (after * percent) \div 100 \in Nat
    BY <1>4, Percentage
  <2> HIDE DEF bare
  <2>2. QED
    BY <1>4, <1>5, <2>1
<1>7. Prices!TaxLine(item, percent) = [net |-> bare, tax |-> tax]
  BY DEF Prices!TaxLine, after
<1> HIDE DEF bare, tax
<1>8. QED
  BY <1>5, <1>6, <1>7 DEF AmountRecord

\* The shares of the components are an amount's, down to its last unit.
LEMMA SharesAddUp ==
  ASSUME NEW w \in Seq(Nat \ {0}), w # <<>>, NEW amount \in Nat,
         NEW f, f = [i \in 1 .. Len(w) |-> Prices!Share(amount, w, i)]
  PROVE  /\ \A i \in 1 .. Len(w) : f[i] \in Nat
         /\ SumOf(f, 1 .. Len(w)) = amount
<1> DEFINE W == Prices!Total(w)
           of(i) == (amount * w[i]) \div W
<1>1. PICK n \in Nat : Len(w) = n + 1
  <2>1. Len(w) \in Nat /\ Len(w) # 0
    OBVIOUS
  <2>2. Len(w) - 1 \in Nat /\ Len(w) = (Len(w) - 1) + 1
    BY <2>1
  <2>3. QED
    BY <2>2
<1>2. /\ DOMAIN w = 1 .. n + 1 /\ IsFiniteSet(1 .. n + 1) /\ IsFiniteSet(1 .. n)
      /\ \A i \in 1 .. n + 1 : w[i] \in Nat /\ w[i] >= 1
      /\ \A i \in 1 .. n : i \in 1 .. n + 1 /\ i < n + 1
      /\ n + 1 \in 1 .. n + 1
  <2>1. \A i \in DOMAIN w : w[i] \in Nat \ {0}
    OBVIOUS
  <2>2. DOMAIN w = 1 .. n + 1
    BY <1>1
  <2>3. \A i \in 1 .. n + 1 : w[i] \in Nat /\ w[i] >= 1
    BY <2>1, <2>2
  <2>4. IsFiniteSet(1 .. n + 1) /\ IsFiniteSet(1 .. n)
    <3>1. \A m \in Int : IsFiniteSet(1 .. m)
      BY FS_Interval
    <3>2. n \in Int /\ n + 1 \in Int
      BY <1>1
    <3>3. QED
      BY <3>1, <3>2
  <2>5. (\A i \in 1 .. n : i \in 1 .. n + 1 /\ i < n + 1) /\ n + 1 \in 1 .. n + 1
    BY <1>1
  <2>6. QED
    BY <2>2, <2>3, <2>4, <2>5
<1>3. W = SumOf(w, 1 .. n) + w[n + 1] /\ SumOf(w, 1 .. n) \in Nat
  <2>1. W = SumOf(w, 1 .. n + 1)
    BY <1>2, TotalIs
  <2>2. SumOf(w, 1 .. n + 1) = SumOf(w, 1 .. n) + w[n + 1]
    BY <1>2, SumNext
  <2>3. SumOf(w, 1 .. n) \in Nat
    BY <1>2, SumNat
  <2>4. QED
    BY <2>1, <2>2, <2>3
<1> DEFINE V == SumOf(w, 1 .. n)
<1> HIDE DEF W, V
<1>4. W \in Nat /\ W >= 1 /\ V \in Nat /\ V <= W
  BY <1>2, <1>3 DEF V
<1>5. ASSUME NEW i \in 1 .. n + 1
      PROVE  of(i) \in Nat /\ W * of(i) <= amount * w[i]
  <2>1. amount * w[i] \in Nat
    BY <1>2
  <2> DEFINE a == amount * w[i]
  <2>2. a \in Int /\ a >= 0 /\ of(i) = a \div W
    BY <2>1
  <2> HIDE DEF a, of
  <2>3. a \div W \in Nat /\ W * (a \div W) <= a
    BY <1>4, <2>2, Quotient
  <2>4. QED
    BY <2>2, <2>3 DEF a
<1> DEFINE g == [j \in 1 .. n |-> of(j)]
<1>6. /\ \A i \in 1 .. n : f[i] = g[i] /\ g[i] \in Nat /\ W * g[i] <= amount * w[i]
      /\ f[n + 1] = amount - SumOf(g, 1 .. n)
  <2>1. \A i \in 1 .. n : f[i] = of(i)
    BY <1>1, <1>2 DEF Prices!Share, W
  <2>2. f[n + 1] = amount - Prices!Total([j \in 1 .. (n + 1) - 1 |-> of(j)])
    BY <1>1, <1>2 DEF Prices!Share, W
  <2>3. 1 .. (n + 1) - 1 = 1 .. n
    BY <1>1
  <2>4. f[n + 1] = amount - Prices!Total(g)
    BY <2>2, <2>3
  <2>5. Prices!Total(g) = SumOf(g, 1 .. n)
    BY TotalIs
  <2>6. QED
    BY <1>2, <1>5, <2>1, <2>4, <2>5
<1> HIDE DEF of, g
<1>7. SumOf(g, 1 .. n) \in Nat
  BY <1>2, <1>6, SumNat
<1>8. SumOf(g, 1 .. n) <= amount
  <2> DEFINE S == 1 .. n
             up == Times(W, g, S)
             down == Times(amount, w, S)
  <2>0. /\ IsFiniteSet(S)
        /\ \A i \in S : g[i] \in Int /\ w[i] \in Int /\ W * g[i] <= amount * w[i]
    <3>1. \A i \in S : g[i] \in Int /\ W * g[i] <= amount * w[i]
      <4>1. \A i \in S : g[i] \in Nat /\ W * g[i] <= amount * w[i]
        BY <1>6, Zenon
      <4> HIDE DEF S
      <4>2. QED
        BY <4>1
    <3>2. \A i \in S : w[i] \in Int
      BY <1>2
    <3>3. QED
      BY <1>2, <3>1, <3>2
  <2>1. SumOf(up, S) = W * SumOf(g, S)
    <3> HIDE DEF S
    <3> QED
      BY <1>4, <2>0, SumTimes
  <2>2. SumOf(down, S) = amount * SumOf(w, S)
    <3> HIDE DEF S
    <3> QED
      BY <2>0, SumTimes
  <2>3. \A i \in S : up[i] = W * g[i] /\ down[i] = amount * w[i]
    BY DEF Times
  <2>4. \A i \in S : up[i] \in Int /\ down[i] \in Int /\ up[i] <= down[i]
    <3> SUFFICES ASSUME NEW i \in S
                 PROVE  up[i] \in Int /\ down[i] \in Int /\ up[i] <= down[i]
      OBVIOUS
    <3>1. W * g[i] <= amount * w[i] /\ g[i] \in Int /\ w[i] \in Int
      BY <2>0
    <3>2. W * g[i] \in Int /\ amount * w[i] \in Int
      BY <1>4, <3>1
    <3>3. QED
      BY <2>3, <3>1, <3>2
  <2> HIDE DEF up, down
  <2>5. SumOf(up, S) <= SumOf(down, S)
    BY <1>2, <2>4, SumMonotone
  <2>6. W * SumOf(g, S) <= amount * V
    BY <2>1, <2>2, <2>5 DEF V
  <2>7. amount * V <= amount * W
    BY <1>4, TimesLess
  <2> DEFINE G == SumOf(g, S)
  <2>8. G \in Int
    BY <1>7
  <2> HIDE DEF G
  <2>9. W * G <= W * amount
    <3>1. W * G <= amount * V
      BY <2>6 DEF G
    <3>2. W * G \in Int /\ amount * V \in Int /\ amount * W = W * amount /\ amount * W \in Int
      BY <1>4, <2>8
    <3>3. QED
      BY <2>7, <3>1, <3>2
  <2>10. G <= amount
    BY <1>4, <2>8, <2>9, Cancel
  <2>11. QED
    BY <2>10 DEF G
<1>9. SumOf(f, 1 .. n) = SumOf(g, 1 .. n)
  BY <1>2, <1>6, SumSame
<1>10. \A i \in 1 .. n + 1 : f[i] \in Nat
  <2>1. \A i \in 1 .. n + 1 : i \in 1 .. n \/ i = n + 1
    BY <1>1
  <2>2. f[n + 1] \in Nat
    BY <1>6, <1>7, <1>8
  <2>3. QED
    BY <1>6, <2>1, <2>2
<1>11. SumOf(f, 1 .. n + 1) = SumOf(f, 1 .. n) + f[n + 1]
  <2>1. \A i \in 1 .. n + 1 : f[i] \in Int
    BY <1>10
  <2>2. QED
    BY <1>1, <2>1, SumNext, Zenon
<1>12. QED
  BY <1>1, <1>6, <1>7, <1>9, <1>10, <1>11

\* What a column of lines adds up to.
Column(lineup, field) == Prices!Total(Prices!Pick(lineup, field))

LEMMA ColumnIs ==
  ASSUME NEW field, NEW T, NEW q \in Seq(T), NEW f, f = [i \in 1 .. Len(q) |-> q[i][field]]
  PROVE  Column(q, field) = SumOf(f, 1 .. Len(q))
<1>1. DOMAIN q = 1 .. Len(q)
  OBVIOUS
<1>2. Prices!Pick(q, field) = f
  BY <1>1 DEF Prices!Pick
<1>3. DOMAIN f = 1 .. Len(q)
  OBVIOUS
<1>4. QED
  BY <1>2, <1>3, TotalIs DEF Column


\* An item comes to what its lines do.
LEMMA LinesAddUp ==
  ASSUME PriceSettingsTyped, NEW item \in Prices!ItemRecord, NEW owed \in AmountRecord
  PROVE  LET q == Prices!LinesOf(item, owed)
         IN  /\ q \in Seq(LineRecord) /\ q # <<>>
             /\ Column(q, "net") = owed.net /\ Column(q, "tax") = owed.tax
<1> DEFINE g == item.good
           entry(a, b) == [net |-> a, tax |-> b, by |-> taxOf[g],
                         quantity |-> item.quantity, cost |-> item.quantity * Cost[g] * Fine]
           q == Prices!LinesOf(item, owed)
           w == Weights[g]
<1>1. /\ g \in Sellable /\ taxOf[g] \in Taxes /\ item.quantity \in Nat \ {0}
      /\ w \in Seq(Nat \ {0}) /\ Cost[g] \in Nat
  BY PriceConstants DEF PriceSettingsTyped, Prices!ItemRecord
<1>2. item.quantity * Cost[g] * Fine \in Nat
  BY <1>1, PriceConstants
<1>3. \A a, b \in Nat : entry(a, b) \in LineRecord
  BY <1>1, <1>2 DEF LineRecord
<1>4. owed.net \in Nat /\ owed.tax \in Nat
  BY DEF AmountRecord
<1>5. CASE w = <<>>
  <2> DEFINE l == entry(owed.net, owed.tax)
  <2>1. q = <<l>>
    BY <1>5 DEF Prices!LinesOf
  <2>2. l \in LineRecord /\ l.net = owed.net /\ l.tax = owed.tax
    BY <1>3, <1>4
  <2> HIDE DEF l, q
  <2>3. q \in Seq(LineRecord) /\ Len(q) = 1 /\ q[1] = l /\ q # <<>>
    BY <2>1, <2>2
  <2>4. ASSUME NEW field \in {"net", "tax"} PROVE Column(q, field) = l[field]
    <3> DEFINE f == [i \in 1 .. Len(q) |-> q[i][field]]
    <3>1. Column(q, field) = SumOf(f, 1 .. Len(q))
      BY <2>3, ColumnIs
    <3>2. f[1] = l[field] /\ l[field] \in Int
      BY <1>4, <2>2, <2>3
    <3> HIDE DEF f
    <3>3. Column(q, field) = SumOf(f, 1 .. 0 + 1)
      BY <2>3, <3>1
    <3>4. SumOf(f, 1 .. 0 + 1) = SumOf(f, 1 .. 0) + f[0 + 1]
      <4>1. \A i \in 1 .. 0 + 1 : f[i] \in Int
        BY <3>2
      <4>2. 0 \in Nat
        OBVIOUS
      <4>3. QED
        BY <4>1, <4>2, SumNext, Zenon
    <3>5. SumOf(f, 1 .. 0) = 0
      BY SumOfNone
    <3>6. QED
      BY <3>2, <3>3, <3>4, <3>5
  <2>5. QED
    BY <2>2, <2>3, <2>4 DEF q
<1>6. CASE w # <<>>
  <2> DEFINE fn == [i \in 1 .. Len(w) |-> Prices!Share(owed.net, w, i)]
             ft == [i \in 1 .. Len(w) |-> Prices!Share(owed.tax, w, i)]
             shares == [i \in 1 .. Len(w) |-> entry(fn[i], ft[i])]
  <2>1. q = shares
    <3>1. DOMAIN w = 1 .. Len(w)
      BY <1>1
    <3>2. QED
      BY <1>6, <3>1 DEF Prices!LinesOf
  <2>2. /\ \A i \in 1 .. Len(w) : fn[i] \in Nat
        /\ SumOf(fn, 1 .. Len(w)) = owed.net
    BY <1>1, <1>4, <1>6, SharesAddUp
  <2>3. /\ \A i \in 1 .. Len(w) : ft[i] \in Nat
        /\ SumOf(ft, 1 .. Len(w)) = owed.tax
    BY <1>1, <1>4, <1>6, SharesAddUp
  <2> HIDE DEF fn, ft
  <2>4. \A i \in 1 .. Len(w) : shares[i] \in LineRecord /\ shares[i].net = fn[i] /\ shares[i].tax = ft[i]
    BY <1>3, <2>2, <2>3
  <2>5. Len(w) \in Nat /\ Len(w) # 0
    BY <1>1, <1>6
  <2>6. shares \in Seq(LineRecord) /\ Len(shares) = Len(w) /\ shares # <<>>
    <3> HIDE DEF entry, q, w
    <3>1. shares \in [1 .. Len(w) -> LineRecord]
      BY <2>4
    <3>2. shares \in Seq(LineRecord) /\ Len(shares) = Len(w)
      BY <2>5, <3>1
    <3>3. QED
      BY <2>5, <3>2
  <2> DEFINE hn == [i \in 1 .. Len(shares) |-> shares[i]["net"]]
             ht == [i \in 1 .. Len(shares) |-> shares[i]["tax"]]
  <2>7. Column(shares, "net") = SumOf(hn, 1 .. Len(w)) /\ Column(shares, "tax") = SumOf(ht, 1 .. Len(w))
    <3> HIDE DEF shares
    <3> QED
      BY <2>6, ColumnIs
  <2>8. \A i \in 1 .. Len(w) : hn[i] = fn[i] /\ ht[i] = ft[i]
    <3> HIDE DEF shares
    <3> QED
      BY <2>4, <2>6
  <2>9. IsFiniteSet(1 .. Len(w))
    <3>1. \A m \in Nat : IsFiniteSet(1 .. m)
      BY FS_Interval
    <3>2. QED
      BY <2>5, <3>1
  <2> HIDE DEF hn, ht
  <2>10. SumOf(hn, 1 .. Len(w)) = owed.net /\ SumOf(ht, 1 .. Len(w)) = owed.tax
    <3> HIDE DEF w
    <3> QED
      BY <2>2, <2>3, <2>8, <2>9, SumSame
  <2> HIDE DEF shares
  <2>11. QED
    BY <2>1, <2>6, <2>7, <2>10
<1>7. QED
  BY <1>5, <1>6

LEMMA ColumnsJoin ==
  ASSUME NEW u \in Seq(LineRecord), NEW v \in Seq(LineRecord), NEW field \in {"net", "tax"}
  PROVE  /\ Column(u \o v, field) = Column(u, field) + Column(v, field)
         /\ Column(u, field) \in Nat /\ Column(v, field) \in Nat
<1> DEFINE a == Len(u)
           b == Len(v)
           w == u \o v
           fu == [i \in 1 .. a |-> u[i][field]]
           fv == [i \in 1 .. b |-> v[i][field]]
           fw == [i \in 1 .. Len(w) |-> w[i][field]]
<1>1. /\ w \in Seq(LineRecord) /\ a \in Nat /\ b \in Nat /\ Len(w) = a + b
      /\ \A i \in 1 .. a : w[i] = u[i]
      /\ \A i \in 1 .. b : w[a + i] = v[i]
  BY Joined
<1>2. Column(u, field) = SumOf(fu, 1 .. a) /\ Column(v, field) = SumOf(fv, 1 .. b)
  BY ColumnIs
<1>3. Column(w, field) = SumOf(fw, 1 .. a + b)
  <2>1. Column(w, field) = SumOf(fw, 1 .. Len(w))
    <3> HIDE DEF w
    <3> QED
      BY <1>1, ColumnIs
  <2>2. QED
    BY <1>1, <2>1
<1>4. \A l \in LineRecord : l[field] \in Nat
  BY DEF LineRecord
<1>5. (\A i \in 1 .. a : fu[i] \in Nat) /\ (\A i \in 1 .. b : fv[i] \in Nat)
  <2>1. (\A i \in 1 .. a : u[i] \in LineRecord) /\ (\A i \in 1 .. b : v[i] \in LineRecord)
    OBVIOUS
  <2>2. QED
    BY <1>4, <2>1
<1>6. (\A i \in 1 .. a : fw[i] = fu[i]) /\ (\A i \in 1 .. b : fw[a + i] = fv[i])
  <2>1. \A i \in 1 .. a : i \in 1 .. Len(w)
    BY <1>1
  <2>2. \A i \in 1 .. b : a + i \in 1 .. Len(w)
    BY <1>1
  <2> HIDE DEF w
  <2>3. QED
    BY <1>1, <2>1, <2>2
<1> HIDE DEF a, b, w, fu, fv, fw
<1>7. \A m \in Nat : IsFiniteSet(1 .. m)
  BY FS_Interval
<1> DEFINE Good == {k \in 0 .. b : SumOf(fw, 1 .. a + k) = SumOf(fw, 1 .. a) + SumOf(fv, 1 .. k)}
<1>8. \A k \in 0 .. b : /\ k \in Nat /\ a + k \in Nat
                        /\ \A i \in 1 .. a + k : fw[i] \in Int
  <2> SUFFICES ASSUME NEW k \in 0 .. b
               PROVE  /\ k \in Nat /\ a + k \in Nat
                      /\ \A i \in 1 .. a + k : fw[i] \in Int
    OBVIOUS
  <2>1. k \in Nat /\ a + k \in Nat
    BY <1>1
  <2>2. ASSUME NEW i \in 1 .. a + k PROVE fw[i] \in Int
    <3>1. CASE i \in 1 .. a
      BY <1>5, <1>6, <3>1
    <3>2. CASE i \notin 1 .. a
      <4>1. i - a \in 1 .. b /\ i = a + (i - a)
        BY <1>1, <2>1, <3>2
      <4>2. fw[a + (i - a)] = fv[i - a] /\ fv[i - a] \in Nat
        BY <1>5, <1>6, <4>1
      <4>3. QED
        BY <4>1, <4>2
    <3>3. QED
      BY <3>1, <3>2
  <2>3. QED
    BY <2>1, <2>2
<1>9. SumOf(fw, 1 .. a) = SumOf(fu, 1 .. a) /\ SumOf(fu, 1 .. a) \in Nat /\ SumOf(fv, 1 .. b) \in Nat
  BY <1>1, <1>5, <1>6, <1>7, SumSame, SumNat
<1>10. 0 \in Good
  <2>1. a + 0 = a /\ 0 \in 0 .. b /\ 1 .. 0 = {}
    BY <1>1
  <2>2. SumOf(fv, 1 .. 0) = 0
    BY <2>1, SumOfNone
  <2> DEFINE s == SumOf(fw, 1 .. a)
  <2>3. s \in Nat /\ s + 0 = s
    BY <1>9
  <2>4. QED
    BY <2>1, <2>2, <2>3
<1>11. ASSUME NEW k \in 0 .. b - 1, k \in Good PROVE k + 1 \in Good
  <2>1. k \in 0 .. b /\ k + 1 \in 0 .. b /\ k + 1 \in 1 .. b /\ k \in Nat
    BY <1>1
  <2>2. a + k \in Nat /\ (a + k) + 1 = a + (k + 1)
    BY <1>1, <2>1
  <2>3. SumOf(fw, 1 .. (a + k) + 1) = SumOf(fw, 1 .. a + k) + fw[(a + k) + 1]
    <3>1. \A i \in 1 .. (a + k) + 1 : fw[i] \in Int
      BY <1>8, <2>1, <2>2
    <3>2. QED
      BY <2>2, <3>1, SumNext, Zenon
  <2>4. SumOf(fv, 1 .. k + 1) = SumOf(fv, 1 .. k) + fv[k + 1]
    <3>1. \A i \in 1 .. k + 1 : fv[i] \in Int
      <4>1. \A i \in 1 .. k + 1 : i \in 1 .. b
        BY <1>1, <2>1
      <4>2. QED
        BY <1>5, <4>1
    <3>2. QED
      BY <2>1, <3>1, SumNext, Zenon
  <2>5. fw[a + (k + 1)] = fv[k + 1] /\ fv[k + 1] \in Int
    BY <1>5, <1>6, <2>1
  <2>6. SumOf(fw, 1 .. a) \in Int /\ SumOf(fv, 1 .. k) \in Int
    <3>1. \A i \in 1 .. k : fv[i] \in Int
      <4>1. \A i \in 1 .. k : i \in 1 .. b
        BY <1>1, <2>1
      <4>2. QED
        BY <1>5, <4>1
    <3>2. SumOf(fv, 1 .. k) \in Int
      BY <1>7, <2>1, <3>1, SumType
    <3>3. QED
      BY <1>9, <3>2
  <2>7. QED
    BY <1>11, <2>1, <2>2, <2>3, <2>4, <2>5, <2>6
<1>12. b \in Good
  <2> HIDE DEF Good
  <2>1. 0 .. b \subseteq Good
    BY <1>1, <1>10, <1>11, UpTo, Zenon
  <2>2. b \in 0 .. b
    BY <1>1
  <2>3. QED
    BY <2>1, <2>2
<1>13. QED
  BY <1>2, <1>3, <1>9, <1>12 DEF w

LEMMA EmptyColumn ==
  ASSUME NEW field
  PROVE  Column(<<>>, field) = 0
<1> DEFINE q == <<>>
           f == [i \in 1 .. Len(q) |-> q[i][field]]
<1>1. q \in Seq({}) /\ Len(q) = 0
  OBVIOUS
<1>2. Column(q, field) = SumOf(f, 1 .. Len(q))
  BY <1>1, ColumnIs
<1>3. 1 .. Len(q) = {}
  BY <1>1
<1>4. QED
  BY <1>2, <1>3, SumOfNone


\* The totals of a basket are those of its lines.
LEMMA BasketAddsUp ==
  ASSUME PriceSettingsTyped, NEW basket \in Baskets
  PROVE  LET q == Prices!PrepareSaleDetails(basket)
             p == Prices!Priced(basket)
         IN  /\ q \in Seq(LineRecord) /\ q # <<>>
             /\ \A field \in {"net", "tax"} :
                  Column(p, field) = Column(q, field) /\ Column(q, field) \in Nat
<1> DEFINE q == Prices!PrepareSaleDetails(basket)
           p == Prices!Priced(basket)
           n == Len(basket)
           qs == [i \in 1 .. n |-> Prices!LinesOf(basket[i], p[i])]
<1>1. basket \in Seq(Prices!ItemRecord) /\ basket # <<>>
  BY PriceConstants
<1>2. /\ n \in Nat /\ n # 0 /\ n >= 1 /\ DOMAIN basket = 1 .. n /\ 0 \in 0 .. n /\ n \in 0 .. n
      /\ \A i \in 1 .. n : basket[i] \in Prices!ItemRecord
  BY <1>1
<1>3. p = [i \in 1 .. n |-> Prices!TaxLine(basket[i], rate[taxOf[basket[i].good]])]
  BY <1>2 DEF Prices!Priced
<1>4. \A i \in 1 .. n : p[i] \in AmountRecord
  <2> SUFFICES ASSUME NEW i \in 1 .. n PROVE p[i] \in AmountRecord
    OBVIOUS
  <2>1. basket[i] \in Prices!ItemRecord
    BY <1>2
  <2>2. basket[i].good \in Sellable
    BY <2>1 DEF Prices!ItemRecord
  <2>3. rate[taxOf[basket[i].good]] \in 0 .. 100
    BY <2>2 DEF PriceSettingsTyped
  <2>4. Prices!TaxLine(basket[i], rate[taxOf[basket[i].good]]) \in AmountRecord
    BY <2>1, <2>3, TaxLineIs
  <2> HIDE DEF p
  <2>5. QED
    BY <1>3, <2>4
<1>5. q = Flat(qs)
  <2>1. q = Prices!FlattenSeq(qs)
    BY <1>2 DEF Prices!PrepareSaleDetails
  <2> HIDE DEF qs
  <2>2. QED
    BY <2>1 DEF Prices!FlattenSeq, Flat
<1> HIDE DEF p, q
<1>6. \A i \in 1 .. n : /\ qs[i] \in Seq(LineRecord) /\ qs[i] # <<>>
                        /\ Column(qs[i], "net") = p[i].net /\ Column(qs[i], "tax") = p[i].tax
  BY <1>2, <1>4, LinesAddUp
<1>7. qs \in Seq(Seq(LineRecord)) /\ Len(qs) = n
  <2>1. qs = [i \in 1 .. n |-> qs[i]]
    OBVIOUS
  <2> HIDE DEF qs, n
  <2>2. qs \in [1 .. n -> Seq(LineRecord)]
    BY <1>6, <2>1
  <2>3. QED
    BY <1>2, <2>2
<1> HIDE DEF qs, n
<1>8. PICK f : /\ f[0] = <<>>
               /\ \A i \in 1 .. Len(qs) : f[i] = f[i - 1] \o qs[i]
               /\ \A i \in 0 .. Len(qs) : f[i] \in Seq(LineRecord)
               /\ Flat(qs) = f[Len(qs)]
  BY <1>7, FlatSteps
<1>9. /\ f[0] = <<>>
      /\ \A i \in 1 .. n : f[i] = f[i - 1] \o qs[i]
      /\ \A i \in 0 .. n : f[i] \in Seq(LineRecord)
      /\ Flat(qs) = f[n]
  BY <1>7, <1>8
<1>10. ASSUME NEW field \in {"net", "tax"} PROVE Column(p, field) = Column(f[n], field)
  <2> DEFINE h == [i \in 1 .. n |-> p[i][field]]
             Good == {k \in 0 .. n : Column(f[k], field) = SumOf(h, 1 .. k)}
  <2>1. \A i \in 1 .. n : h[i] \in Nat /\ h[i] = Column(qs[i], field)
    BY <1>4, <1>6 DEF AmountRecord
  <2>2. Column(p, field) = SumOf(h, 1 .. n)
    <3>1. p = [i \in 1 .. n |-> p[i]]
      BY <1>3
    <3>2. p \in [1 .. n -> AmountRecord]
      BY <1>4, <3>1
    <3>3. p \in Seq(AmountRecord) /\ Len(p) = n
      BY <1>2, <3>2
    <3>4. QED
      BY <3>3, ColumnIs
  <2> HIDE DEF h
  <2>3. 0 \in Good
    <3>1. Column(f[0], field) = 0
      BY <1>9, EmptyColumn
    <3>2. SumOf(h, 1 .. 0) = 0
      BY SumOfNone
    <3>3. QED
      BY <1>2, <3>1, <3>2
  <2>4. ASSUME NEW k \in 0 .. n - 1, k \in Good PROVE k + 1 \in Good
    <3>1. /\ k \in Nat /\ k \in 0 .. n /\ k + 1 \in 1 .. n /\ k + 1 \in 0 .. n
          /\ (k + 1) - 1 = k
      BY <1>2
    <3>2. f[k + 1] = f[k] \o qs[k + 1] /\ f[k] \in Seq(LineRecord)
      BY <1>9, <3>1
    <3>3. qs[k + 1] \in Seq(LineRecord)
      BY <1>6, <3>1
    <3>4. Column(f[k + 1], field) = Column(f[k], field) + Column(qs[k + 1], field)
      BY <3>2, <3>3, ColumnsJoin
    <3>5. SumOf(h, 1 .. k + 1) = SumOf(h, 1 .. k) + h[k + 1]
      <4>1. \A i \in 1 .. k + 1 : h[i] \in Int
        BY <1>2, <2>1, <3>1
      <4>2. QED
        BY <3>1, <4>1, SumNext, Zenon
    <3>6. h[k + 1] = Column(qs[k + 1], field)
      BY <2>1, <3>1
    <3>7. QED
      BY <2>4, <3>1, <3>4, <3>5, <3>6
  <2>5. 0 .. n \subseteq Good
    <3> HIDE DEF Good
    <3> QED
      BY <1>2, <2>3, <2>4, UpTo, Zenon
  <2>6. n \in Good
    BY <1>2, <2>5
  <2>7. QED
    BY <2>2, <2>6
<1>11. f[n] # <<>>
  <2>1. n \in 1 .. n /\ n - 1 \in 0 .. n
    BY <1>2
  <2>2. f[n] = f[n - 1] \o qs[n] /\ f[n - 1] \in Seq(LineRecord)
    BY <1>9, <2>1
  <2>3. qs[n] \in Seq(LineRecord) /\ qs[n] # <<>>
    BY <1>6, <2>1
  <2>4. Len(f[n]) = Len(f[n - 1]) + Len(qs[n]) /\ Len(f[n - 1]) \in Nat
    BY <2>2, <2>3, Joined
  <2>5. Len(qs[n]) \in Nat /\ Len(qs[n]) # 0
    BY <2>3
  <2>6. \A a, b \in Nat : b # 0 => a + b # 0
    OBVIOUS
  <2>7. Len(f[n]) # 0
    BY <2>4, <2>5, <2>6, Zenon
  <2>8. QED
    BY <2>7
<1>12. f[n] \in Seq(LineRecord) /\ q = f[n]
  BY <1>2, <1>5, <1>9
<1>13. \A field \in {"net", "tax"} : Column(q, field) \in Nat
  BY <1>12, ColumnsJoin
<1>14. QED
  BY <1>10, <1>11, <1>12, <1>13 DEF p, q

----------------------------------------------------------------------------
(* The amounts of a sale: rounded columns                                  *)

RefundLine == [net : Nat, tax : Nat, quantity : Nat]

LEMMA LineIs ==
  ASSUME NEW T \in {LineRecord, RefundLine}, NEW l \in T
  PROVE  l.net \in Nat /\ l.tax \in Nat /\ l["net"] \in Nat /\ l["tax"] \in Nat
<1>1. CASE T = LineRecord
  BY <1>1 DEF LineRecord
<1>2. CASE T = RefundLine
  BY <1>2 DEF RefundLine
<1>3. QED
  BY <1>1, <1>2

LEMMA WrittenIs ==
  ASSUME NEW T \in {LineRecord, RefundLine}, NEW q \in Seq(T)
  PROVE  /\ Prices!Written(q) \in Seq(T) /\ Len(Prices!Written(q)) = Len(q)
         /\ \A i \in 1 .. Len(q) :
              /\ Prices!Written(q)[i].net = Prices!Cents(q[i].net)
              /\ Prices!Written(q)[i].tax = Prices!Cents(q[i].tax)
              /\ Prices!Written(q)[i].quantity = q[i].quantity
              /\ T = LineRecord => /\ Prices!Written(q)[i].cost = q[i].cost
                                   /\ Prices!Written(q)[i].by = q[i].by
<1> DEFINE n == Len(q)
           round(l) == [l EXCEPT !.net = Prices!Cents(@), !.tax = Prices!Cents(@)]
           v == [i \in 1 .. n |-> round(q[i])]
<1>1. n \in Nat /\ DOMAIN q = 1 .. n /\ \A i \in 1 .. n : q[i] \in T
  OBVIOUS
<1>2. Prices!Written(q) = v
  BY <1>1 DEF Prices!Written
<1>3. ASSUME NEW l \in T
      PROVE  /\ round(l) \in T /\ round(l).net = Prices!Cents(l.net)
             /\ round(l).tax = Prices!Cents(l.tax) /\ round(l).quantity = l.quantity
             /\ T = LineRecord => round(l).cost = l.cost /\ round(l).by = l.by
  <2>1. l.net \in Int /\ l.net >= 0 /\ l.tax \in Int /\ l.tax >= 0
    BY LineIs
  <2>2. Prices!Cents(l.net) \in Nat /\ Prices!Cents(l.tax) \in Nat
    BY <2>1, Rounded
  <2>3. CASE T = LineRecord
    BY <2>2, <2>3 DEF LineRecord
  <2>4. CASE T = RefundLine
    <3>1. round(l) \in T /\ round(l).net = Prices!Cents(l.net)
             /\ round(l).tax = Prices!Cents(l.tax) /\ round(l).quantity = l.quantity
      BY <2>2, <2>4 DEF RefundLine
    <3>2. T = LineRecord => round(l).cost = l.cost /\ round(l).by = l.by
      BY <2>2 DEF LineRecord
    <3>3. QED
      BY <3>1, <3>2
  <2>5. QED
    BY <2>3, <2>4
<1> HIDE DEF n, round
<1>4. v \in [1 .. n -> T] /\ \A i \in 1 .. n : v[i] = round(q[i])
  BY <1>1, <1>3
<1>5. v \in Seq(T) /\ Len(v) = n
  BY <1>1, <1>4
<1> HIDE DEF v
<1>6. \A i \in 1 .. n :
        /\ v[i].net = Prices!Cents(q[i].net) /\ v[i].tax = Prices!Cents(q[i].tax)
        /\ v[i].quantity = q[i].quantity
        /\ T = LineRecord => v[i].cost = q[i].cost /\ v[i].by = q[i].by
  BY <1>1, <1>3, <1>4
<1>7. QED
  BY <1>2, <1>5, <1>6 DEF n

\* b is a to within c units of half a cent.
Close(a, b, c) == 2 * (Fine * b) - 2 * a <= c * Fine /\ -(c * Fine) <= 2 * (Fine * b) - 2 * a

LEMMA CentsClose ==
  ASSUME NEW x \in Int
  PROVE  Prices!Cents(x) \in Int /\ Close(x, Prices!Cents(x), 1)
<1>1. /\ Prices!Cents(x) \in Int /\ 2 * (Fine * Prices!Cents(x)) - 2 * x <= Fine
      /\ -Fine <= 2 * (Fine * Prices!Cents(x)) - 2 * x
  BY Rounded
<1>2. 1 * Fine = Fine
  BY PriceConstants
<1>3. QED
  BY <1>1, <1>2 DEF Close

\* Sums of amounts that are close are so, by as much for each.
LEMMA CloseSums ==
  ASSUME NEW S, IsFiniteSet(S), NEW f, NEW g,
         \A i \in S : f[i] \in Int /\ g[i] \in Int /\ Close(f[i], g[i], 1)
  PROVE  /\ SumOf(f, S) \in Int /\ SumOf(g, S) \in Int
         /\ Close(SumOf(f, S), SumOf(g, S), Cardinality(S))
<1> DEFINE a == Times(2 * Fine, g, S)
           b == Times(2, f, S)
           h == Minus(a, b, S)
           n == Cardinality(S)
<1>1. n \in Nat /\ SumOf(f, S) \in Int /\ SumOf(g, S) \in Int
  BY FS_CardinalityType, SumType
<1>2. Fine \in Nat /\ Fine >= 1 /\ 2 * Fine \in Int /\ -Fine \in Int /\ Fine \in Int
  BY PriceConstants
<1>3. SumOf(a, S) = (2 * Fine) * SumOf(g, S)
  BY <1>2, SumTimes
<1>4. SumOf(b, S) = 2 * SumOf(f, S)
  BY SumTimes
<1>5. \A i \in S : /\ a[i] \in Int /\ b[i] \in Int
                   /\ -Fine <= a[i] - b[i] /\ a[i] - b[i] <= Fine
  <2> SUFFICES ASSUME NEW i \in S
               PROVE  /\ a[i] \in Int /\ b[i] \in Int
                      /\ -Fine <= a[i] - b[i] /\ a[i] - b[i] <= Fine
    OBVIOUS
  <2>1. a[i] = (2 * Fine) * g[i] /\ b[i] = 2 * f[i]
    BY DEF Times
  <2>2. /\ f[i] \in Int /\ g[i] \in Int /\ 2 * (Fine * g[i]) - 2 * f[i] <= 1 * Fine
        /\ -(1 * Fine) <= 2 * (Fine * g[i]) - 2 * f[i]
    BY DEF Close
  <2>3. (2 * Fine) * g[i] = 2 * (Fine * g[i]) /\ Fine * g[i] \in Int /\ 1 * Fine = Fine
    BY <1>2, <2>2
  <2> HIDE DEF a, b
  <2>4. QED
    BY <1>2, <2>1, <2>2, <2>3
<1> HIDE DEF a, b
<1>6. SumOf(h, S) = SumOf(a, S) - SumOf(b, S)
  BY <1>5, SumMinus
<1>7. \A i \in S : h[i] \in Int /\ -Fine <= h[i] /\ h[i] <= Fine
  BY <1>5 DEF Minus
<1> HIDE DEF h
<1>8. (-Fine) * n <= SumOf(h, S) /\ SumOf(h, S) <= Fine * n
  BY <1>2, <1>7, SumBetween, Zenon DEF n
<1> HIDE DEF n
<1>9. /\ (-Fine) * n = -(n * Fine) /\ Fine * n = n * Fine
      /\ (2 * Fine) * SumOf(g, S) = 2 * (Fine * SumOf(g, S))
  BY <1>1, <1>2
<1>10. Close(SumOf(f, S), SumOf(g, S), n)
  BY <1>3, <1>4, <1>6, <1>8, <1>9 DEF Close
<1>11. QED
  BY <1>1, <1>10 DEF n

LEMMA ColumnRounded ==
  ASSUME NEW T \in {LineRecord, RefundLine}, NEW q \in Seq(T), NEW field \in {"net", "tax"}
  PROVE  /\ Column(q, field) \in Nat /\ Column(Prices!Written(q), field) \in Nat
         /\ Close(Column(q, field), Column(Prices!Written(q), field), Len(q))
<1> DEFINE n == Len(q)
           v == Prices!Written(q)
           S == 1 .. n
           fq == [i \in 1 .. Len(q) |-> q[i][field]]
           fv == [i \in 1 .. Len(v) |-> v[i][field]]
<1>1. /\ n \in Nat /\ v \in Seq(T) /\ Len(v) = n
      /\ \A i \in 1 .. n : v[i][field] = Prices!Cents(q[i][field])
  BY WrittenIs
<1>2. IsFiniteSet(S) /\ Cardinality(S) = n
  <2>1. \A m \in Nat : IsFiniteSet(1 .. m) /\ Cardinality(1 .. m) = m
    BY FS_Interval
  <2> HIDE DEF n
  <2>2. QED
    BY <1>1, <2>1
<1>3. \A i \in S : q[i][field] \in Nat
  <2>1. \A l \in T : l[field] \in Nat
    BY LineIs
  <2>2. \A i \in S : q[i] \in T
    OBVIOUS
  <2>3. QED
    BY <2>1, <2>2
<1>4. Column(q, field) = SumOf(fq, S)
  BY ColumnIs
<1>5. Column(v, field) = SumOf(fv, S)
  <2> HIDE DEF v
  <2>1. Column(v, field) = SumOf(fv, 1 .. Len(v))
    BY <1>1, ColumnIs
  <2>2. QED
    BY <1>1, <2>1
<1>6. \A i \in S : fq[i] \in Nat /\ fv[i] = Prices!Cents(fq[i])
  <2> HIDE DEF v
  <2> QED
    BY <1>1, <1>3
<1> HIDE DEF fq, fv, v, S, n
<1>7. \A i \in S : fv[i] \in Nat
  <2>1. \A x \in Nat : x \in Int /\ x >= 0
    OBVIOUS
  <2>2. \A x \in Nat : Prices!Cents(x) \in Nat
    BY <2>1, Rounded
  <2>3. QED
    BY <1>6, <2>2
<1>8. SumOf(fq, S) \in Nat /\ SumOf(fv, S) \in Nat
  BY <1>2, <1>6, <1>7, SumNat
<1>9. \A i \in S : fq[i] \in Int /\ fv[i] \in Int /\ Close(fq[i], fv[i], 1)
  <2>1. \A i \in S : fq[i] \in Int /\ fv[i] = Prices!Cents(fq[i])
    BY <1>6
  <2>2. QED
    BY <2>1, CentsClose
<1>10. Close(SumOf(fq, S), SumOf(fv, S), n)
  BY <1>2, <1>9, CloseSums
<1>11. QED
  BY <1>4, <1>5, <1>8, <1>10 DEF v, n

HeadRecord == [subtotal : Nat, tax : Nat, discount : Nat, total : Int]

\* A number of cents that is off by so many halves of one.
LEMMA HalfCents ==
  ASSUME NEW a \in Int, NEW c \in Nat,
         2 * (Fine * a) <= c * Fine, -(c * Fine) <= 2 * (Fine * a)
  PROVE  2 * Prices!Abs(a) <= c
<1>1. Fine \in Nat /\ Fine >= 1
  BY PriceConstants
<1>2. /\ Fine * (2 * a) = 2 * (Fine * a) /\ c * Fine = Fine * c
      /\ Fine * (-(2 * a)) = -(2 * (Fine * a)) /\ Fine * a \in Int /\ c * Fine \in Int
  BY <1>1
<1>3. Fine * (2 * a) <= Fine * c /\ Fine * (-(2 * a)) <= Fine * c
  BY <1>2
<1>4. 2 * a <= c
  BY <1>1, <1>3, Cancel
<1>5. -(2 * a) <= c
  BY <1>1, <1>3, Cancel
<1>6. QED
  BY <1>4, <1>5 DEF Prices!Abs

LEMMA TotalsAre ==
  ASSUME NEW q, NEW d
  PROVE  LET head == Prices!Totals(q, d)
             stored == Prices!Stored(head)
         IN  /\ head.subtotal = Column(q, "net") /\ head.tax = Column(q, "tax")
             /\ head.discount = d
             /\ head.total = Column(q, "net") + Column(q, "tax") - d
             /\ stored = [subtotal |-> Prices!Cents(head.subtotal), tax |-> Prices!Cents(head.tax),
                          discount |-> Prices!Cents(head.discount),
                          total |-> Prices!Cents(head.total)]
<1> DEFINE a == Column(q, "net")
           b == Column(q, "tax")
<1>1. Prices!Totals(q, d) = [subtotal |-> a, tax |-> b, discount |-> d, total |-> a + b - d]
  BY DEF Prices!Totals, Column
<1> HIDE DEF a, b
<1>2. QED
  BY <1>1 DEF Prices!Stored, a, b

LEMMA Distribute ==
  ASSUME NEW k \in Nat, NEW t \in Int, NEW u \in Int, NEW v \in Int, NEW w \in Int
  PROVE  /\ k * (t - (u + v - w)) = k * t - k * u - k * v + k * w
         /\ k * t \in Int /\ k * u \in Int /\ k * v \in Int /\ k * w \in Int
         /\ t - (u + v - w) \in Int
OBVIOUS

\* A head and its lines, each rounded by itself, add up.
LEMMA HeadAddsUp ==
  ASSUME NEW T \in {LineRecord, RefundLine}, NEW q \in Seq(T), NEW d \in Nat,
         NEW doc, doc.head = Prices!Stored(Prices!Totals(q, d)), doc.lines = Prices!Written(q)
  PROVE  doc.head \in HeadRecord /\ Prices!HeadIsLines(doc)
<1> DEFINE n == Len(q)
           a == Column(q, "net")
           b == Column(q, "tax")
           va == Column(doc.lines, "net")
           vb == Column(doc.lines, "tax")
           x == a + b - d
           h == doc.head
<1>1. n \in Nat /\ Len(doc.lines) = n
  BY WrittenIs
<1>2. /\ a \in Nat /\ b \in Nat /\ va \in Nat /\ vb \in Nat
      /\ Close(a, va, n) /\ Close(b, vb, n)
  BY ColumnRounded
<1>3. h = [subtotal |-> Prices!Cents(a), tax |-> Prices!Cents(b), discount |-> Prices!Cents(d),
           total |-> Prices!Cents(x)]
  BY TotalsAre
<1> HIDE DEF n, a, b, va, vb, h
<1>4. /\ h.subtotal = Prices!Cents(a) /\ h.tax = Prices!Cents(b)
      /\ h.discount = Prices!Cents(d) /\ h.total = Prices!Cents(x)
  BY <1>3
<1>5. x \in Int
  BY <1>2
<1> HIDE DEF x
<1>6. \A y \in Int : /\ Prices!Cents(y) \in Int
                     /\ 2 * (Fine * Prices!Cents(y)) - 2 * y <= Fine
                     /\ -Fine <= 2 * (Fine * Prices!Cents(y)) - 2 * y
                     /\ y >= 0 => Prices!Cents(y) \in Nat
  BY Rounded
<1>7. /\ h.subtotal \in Nat /\ h.tax \in Nat /\ h.discount \in Nat /\ h.total \in Int
      /\ 2 * (Fine * h.subtotal) - 2 * a <= Fine /\ -Fine <= 2 * (Fine * h.subtotal) - 2 * a
      /\ 2 * (Fine * h.tax) - 2 * b <= Fine /\ -Fine <= 2 * (Fine * h.tax) - 2 * b
      /\ 2 * (Fine * h.discount) - 2 * d <= Fine /\ -Fine <= 2 * (Fine * h.discount) - 2 * d
      /\ 2 * (Fine * h.total) - 2 * x <= Fine /\ -Fine <= 2 * (Fine * h.total) - 2 * x
  <2>1. /\ h.subtotal \in Nat /\ 2 * (Fine * h.subtotal) - 2 * a <= Fine
        /\ -Fine <= 2 * (Fine * h.subtotal) - 2 * a
    BY <1>2, <1>4, <1>6
  <2>2. /\ h.tax \in Nat /\ 2 * (Fine * h.tax) - 2 * b <= Fine
        /\ -Fine <= 2 * (Fine * h.tax) - 2 * b
    BY <1>2, <1>4, <1>6
  <2>3. /\ h.discount \in Nat /\ 2 * (Fine * h.discount) - 2 * d <= Fine
        /\ -Fine <= 2 * (Fine * h.discount) - 2 * d
    <3>1. d \in Int /\ d >= 0
      OBVIOUS
    <3>2. QED
      BY <1>4, <1>6, <3>1
  <2>4. /\ h.total \in Int /\ 2 * (Fine * h.total) - 2 * x <= Fine
        /\ -Fine <= 2 * (Fine * h.total) - 2 * x
    BY <1>4, <1>5, <1>6
  <2>5. QED
    BY <2>1, <2>2, <2>3, <2>4
<1>8. h \in HeadRecord
  BY <1>3, <1>4, <1>7 DEF HeadRecord
<1>9. Fine \in Nat
  BY PriceConstants
<1>10. (n + 1) * Fine = n * Fine + Fine /\ n * Fine \in Int /\ n + 1 \in Nat
  BY <1>1, <1>9
<1>11. ASSUME NEW s \in Nat, NEW v \in Nat, NEW y \in Nat, Close(y, v, n),
              2 * (Fine * s) - 2 * y <= Fine, -Fine <= 2 * (Fine * s) - 2 * y
       PROVE  Prices!Within(s, v, n + 1)
  <2>1. Fine * (s - v) = Fine * s - Fine * v /\ Fine * s \in Int /\ Fine * v \in Int
        /\ s - v \in Int
    BY <1>9
  <2>2. /\ 2 * (Fine * (s - v)) <= (n + 1) * Fine
        /\ -((n + 1) * Fine) <= 2 * (Fine * (s - v))
    BY <1>9, <1>10, <1>11, <2>1 DEF Close
  <2>3. QED
    BY <1>10, <2>1, <2>2, HalfCents DEF Prices!Within
<1>12. Prices!Within(h.subtotal, va, n + 1) /\ Prices!Within(h.tax, vb, n + 1)
  BY <1>2, <1>7, <1>11
<1>13. Prices!Within(h.total, h.subtotal + h.tax - h.discount, 4)
  <2> DEFINE t == h.total
             u == h.subtotal
             v == h.tax
             w == h.discount
             e == t - (u + v - w)
             ft == Fine * t
             fs == Fine * u
             fx == Fine * v
             fd == Fine * w
  <2>0. t \in Int /\ u \in Int /\ v \in Int /\ w \in Int
    BY <1>7
  <2>1. /\ Fine * e = ft - fs - fx + fd /\ e \in Int
        /\ ft \in Int /\ fs \in Int /\ fx \in Int /\ fd \in Int
    <3> HIDE DEF t, u, v, w
    <3> QED
      BY <1>9, <2>0, Distribute
  <2>2. /\ 2 * ft - 2 * x <= Fine /\ -Fine <= 2 * ft - 2 * x
        /\ 2 * fs - 2 * a <= Fine /\ -Fine <= 2 * fs - 2 * a
        /\ 2 * fx - 2 * b <= Fine /\ -Fine <= 2 * fx - 2 * b
        /\ 2 * fd - 2 * d <= Fine /\ -Fine <= 2 * fd - 2 * d
    BY <1>7
  <2> HIDE DEF e, ft, fs, fx, fd, t, u, v, w
  <2>3. Fine * e = ft - fs - fx + fd /\ x = a + b - d
    BY <2>1 DEF x
  <2>4. 2 * (ft - fs - fx + fd) <= 4 * Fine /\ -(4 * Fine) <= 2 * (ft - fs - fx + fd)
    BY <1>2, <1>9, <2>1, <2>2, <2>3
  <2>5. 2 * (Fine * e) <= 4 * Fine /\ -(4 * Fine) <= 2 * (Fine * e)
    BY <2>3, <2>4
  <2>6. 2 * Prices!Abs(e) <= 4
    BY <2>1, <2>5, HalfCents
  <2>7. QED
    BY <2>6 DEF Prices!Within, e, t, u, v, w
<1>14. Prices!HeadIsLines(doc)
  BY <1>1, <1>12, <1>13 DEF Prices!HeadIsLines, va, vb, h, Column
<1>15. QED
  BY <1>8, <1>14 DEF h

----------------------------------------------------------------------------
(* The amounts of a sale: what is given back                               *)

\* Parts of a whole, each rounded down, are all of it but for one unit of each.
LEMMA PartsOfOne ==
  ASSUME NEW R, IsFiniteSet(R), NEW of \in Nat, of >= 1, NEW full \in Nat, NEW part1, NEW asked1,
         \A k \in R : /\ part1[k] \in Nat /\ asked1[k] \in Nat
                      /\ of * part1[k] <= full * asked1[k]
                      /\ full * asked1[k] <= of * part1[k] + of,
         SumOf(asked1, R) = of
  PROVE  /\ SumOf(part1, R) \in Nat
         /\ SumOf(part1, R) <= full /\ full <= SumOf(part1, R) + Cardinality(R)
<1> DEFINE a == Times(full, asked1, R)
           p == Times(of, part1, R)
           h == Minus(a, p, R)
           n == Cardinality(R)
           s == SumOf(part1, R)
<1>1. n \in Nat /\ s \in Nat
  BY FS_CardinalityType, SumNat
<1>2. SumOf(a, R) = full * of
  <2>1. \A k \in R : asked1[k] \in Int
    OBVIOUS
  <2>2. QED
    BY <2>1, SumTimes
<1>3. SumOf(p, R) = of * s
  <2>1. \A k \in R : part1[k] \in Int
    OBVIOUS
  <2>2. QED
    BY <2>1, SumTimes
<1>4. \A k \in R : a[k] \in Int /\ p[k] \in Int /\ a[k] - p[k] >= 0 /\ a[k] - p[k] <= of
  <2> SUFFICES ASSUME NEW k \in R
               PROVE  a[k] \in Int /\ p[k] \in Int /\ a[k] - p[k] >= 0 /\ a[k] - p[k] <= of
    OBVIOUS
  <2>1. a[k] = full * asked1[k] /\ p[k] = of * part1[k]
    BY DEF Times
  <2>2. full * asked1[k] \in Int /\ of * part1[k] \in Int
    OBVIOUS
  <2> HIDE DEF a, p
  <2>3. QED
    BY <2>1, <2>2
<1> HIDE DEF a, p, s
<1>5. SumOf(h, R) = full * of - of * s
  BY <1>2, <1>3, <1>4, SumMinus
<1>6. \A k \in R : h[k] \in Int /\ 0 <= h[k] /\ h[k] <= of
  BY <1>4 DEF Minus
<1> HIDE DEF h, n
<1>7. 0 * n <= SumOf(h, R) /\ SumOf(h, R) <= of * n
  <2>1. 0 \in Int /\ of \in Int
    OBVIOUS
  <2>2. QED
    BY <1>6, <2>1, SumBetween, Zenon DEF n
<1>8. of * s <= of * full /\ of * full <= of * (s + n)
  <2>1. /\ full * of = of * full /\ of * (s + n) = of * s + of * n /\ 0 * n = 0
        /\ of * s \in Int /\ of * n \in Int /\ of * full \in Int
    BY <1>1
  <2>2. QED
    BY <1>5, <1>7, <2>1
<1>9. s <= full /\ full <= s + n
  BY <1>1, <1>8, Cancel
<1>10. QED
  BY <1>1, <1>9 DEF s, n

LEMMA PartsOfAll ==
  ASSUME NEW R, IsFiniteSet(R), NEW L, IsFiniteSet(L), NEW of, NEW full, NEW shares, NEW asked,
         \A i \in L : of[i] \in Nat /\ of[i] >= 1 /\ full[i] \in Nat,
         \A k \in R : \A i \in L :
           /\ shares[k][i] \in Nat /\ asked[k][i] \in Nat
           /\ of[i] * shares[k][i] <= full[i] * asked[k][i]
           /\ full[i] * asked[k][i] <= of[i] * shares[k][i] + of[i],
         \A i \in L : SumOf([k \in R |-> asked[k][i]], R) = of[i]
  PROVE  LET s == SumOf([k \in R |-> SumOf(shares[k], L)], R)
         IN  /\ s \in Nat /\ s <= SumOf(full, L)
             /\ SumOf(full, L) <= s + Cardinality(R) * Cardinality(L)
<1> DEFINE col == [i \in L |-> SumOf([k \in R |-> shares[k][i]], R)]
           s == SumOf([k \in R |-> SumOf(shares[k], L)], R)
           n == Cardinality(R)
           m == Cardinality(L)
           h == Minus(full, col, L)
<1>1. n \in Nat /\ m \in Nat
  BY FS_CardinalityType
<1>2. s = SumOf(col, L)
  <2>1. \A k \in R, i \in L : shares[k][i] \in Int
    OBVIOUS
  <2>2. QED
    BY <2>1, SumSwap
<1>3. ASSUME NEW i \in L
      PROVE  col[i] \in Nat /\ col[i] <= full[i] /\ full[i] <= col[i] + n
  <2> DEFINE p == [k \in R |-> shares[k][i]]
             a == [k \in R |-> asked[k][i]]
  <2>1. of[i] \in Nat /\ of[i] >= 1 /\ full[i] \in Nat /\ SumOf(a, R) = of[i]
    OBVIOUS
  <2>2. \A k \in R : /\ p[k] \in Nat /\ a[k] \in Nat
                     /\ of[i] * p[k] <= full[i] * a[k]
                     /\ full[i] * a[k] <= of[i] * p[k] + of[i]
    OBVIOUS
  <2>3. col[i] = SumOf(p, R)
    OBVIOUS
  <2> HIDE DEF p, a, col
  <2>4. /\ SumOf(p, R) \in Nat
        /\ SumOf(p, R) <= full[i] /\ full[i] <= SumOf(p, R) + Cardinality(R)
    <3> DEFINE o == of[i]
               c == full[i]
    <3> HIDE DEF o, c
    <3>1. /\ o \in Nat /\ o >= 1 /\ c \in Nat /\ SumOf(a, R) = o
          /\ \A k \in R : /\ p[k] \in Nat /\ a[k] \in Nat
                           /\ o * p[k] <= c * a[k] /\ c * a[k] <= o * p[k] + o
      BY <2>1, <2>2 DEF o, c
    <3>2. SumOf(p, R) \in Nat /\ SumOf(p, R) <= c /\ c <= SumOf(p, R) + Cardinality(R)
      BY <3>1, PartsOfOne
    <3>3. QED
      BY <3>2 DEF c
  <2>5. QED
    BY <2>3, <2>4 DEF n
<1> HIDE DEF col, s, n, m
<1>4. \A i \in L : full[i] \in Int /\ col[i] \in Int /\ h[i] \in Int /\ 0 <= h[i] /\ h[i] <= n
  BY <1>1, <1>3 DEF Minus
<1>5. SumOf(h, L) = SumOf(full, L) - SumOf(col, L)
  BY <1>4, SumMinus
<1>6. SumOf(col, L) \in Nat /\ SumOf(full, L) \in Nat
  BY <1>3, SumNat
<1> HIDE DEF h
<1>7. 0 * m <= SumOf(h, L) /\ SumOf(h, L) <= n * m
  <2>1. 0 \in Int /\ n \in Int
    BY <1>1
  <2>2. QED
    BY <1>4, <2>1, SumBetween, Zenon DEF m
<1>8. 0 * m = 0 /\ n * m \in Nat
  BY <1>1
<1>9. QED
  BY <1>2, <1>5, <1>6, <1>7, <1>8 DEF s, n, m

LEMMA RefundLinesAre ==
  ASSUME NEW s, s.lines \in Seq(LineRecord), NEW quantity,
         quantity \in [DOMAIN s.lines -> Nat]
  PROVE  LET q == Prices!RefundLines(s, quantity)
         IN  /\ q \in Seq(RefundLine) /\ Len(q) = Len(s.lines)
             /\ \A i \in 1 .. Len(s.lines) :
                  /\ q[i].quantity = quantity[i]
                  /\ \A field \in {"net", "tax"} :
                       LET of   == s.lines[i].quantity
                           full == s.lines[i][field] * Fine
                       IN  /\ q[i][field] \in Nat
                           /\ of * q[i][field] <= full * quantity[i]
                           /\ full * quantity[i] <= of * q[i][field] + of
<1> DEFINE n == Len(s.lines)
           q == Prices!RefundLines(s, quantity)
           share(i, field) == (s.lines[i][field] * Fine * quantity[i]) \div s.lines[i].quantity
           v == [i \in 1 .. n |->
                   [net |-> share(i, "net"), tax |-> share(i, "tax"), quantity |-> quantity[i]]]
<1>1. n \in Nat /\ DOMAIN s.lines = 1 .. n
  OBVIOUS
<1>2. q = v
  BY <1>1 DEF Prices!RefundLines
<1>3. ASSUME NEW i \in 1 .. n, NEW field \in {"net", "tax"}
      PROVE  LET of   == s.lines[i].quantity
                 full == s.lines[i][field] * Fine
             IN  /\ share(i, field) \in Nat
                 /\ of * share(i, field) <= full * quantity[i]
                 /\ full * quantity[i] <= of * share(i, field) + of
  <2> DEFINE of == s.lines[i].quantity
             c == s.lines[i][field]
             a == c * Fine * quantity[i]
  <2>1. s.lines[i] \in LineRecord /\ quantity[i] \in Nat
    BY <1>1
  <2>2. of \in Nat /\ of >= 1 /\ c \in Nat
    BY <2>1, LineIs DEF LineRecord
  <2>3. Fine \in Nat
    BY PriceConstants
  <2>4. a \in Nat
    <3> HIDE DEF c
    <3> QED
      BY <2>1, <2>2, <2>3
  <2> HIDE DEF a, of
  <2>5. a \div of \in Nat /\ of * (a \div of) <= a /\ a < of * (a \div of) + of
    <3>1. a \in Int /\ a >= 0
      BY <2>4
    <3>2. QED
      BY <2>2, <3>1, Quotient
  <2>6. share(i, field) = a \div of
    BY DEF a, of
  <2> HIDE DEF share
  <2>7. of * (a \div of) \in Int
    BY <2>2, <2>5
  <2>8. a <= of * (a \div of) + of
    BY <2>2, <2>4, <2>5, <2>7
  <2>9. QED
    BY <2>5, <2>6, <2>8 DEF a, of
<1>4. \A i \in 1 .. n : share(i, "net") \in Nat /\ share(i, "tax") \in Nat /\ quantity[i] \in Nat
  BY <1>1, <1>3
<1> HIDE DEF share
<1>5. v \in [1 .. n -> RefundLine]
  BY <1>4 DEF RefundLine
<1>6. v \in Seq(RefundLine) /\ Len(v) = n
  BY <1>1, <1>5
<1>7. \A i \in 1 .. n : /\ v[i].quantity = quantity[i]
                        /\ \A field \in {"net", "tax"} : v[i][field] = share(i, field)
  OBVIOUS
<1> HIDE DEF v, q, n
<1>8. \A i \in 1 .. n :
                  /\ q[i].quantity = quantity[i]
                  /\ \A field \in {"net", "tax"} :
                       LET of   == s.lines[i].quantity
                           full == s.lines[i][field] * Fine
                       IN  /\ q[i][field] \in Nat
                           /\ of * q[i][field] <= full * quantity[i]
                           /\ full * quantity[i] <= of * q[i][field] + of
  BY <1>2, <1>3, <1>7
<1>9. QED
  BY <1>2, <1>6, <1>8 DEF q, n

\* What a refund keeps of the discount of its sale.
LEMMA DiscountShareIs ==
  ASSUME NEW s, s.head \in HeadRecord, NEW gross \in Nat
  PROVE  LET share == Prices!DiscountShare(s, gross)
             all   == s.head.subtotal + s.head.tax
             off   == s.head.discount
         IN  /\ share \in Nat
             /\ all >= 1 => all * share <= off * gross /\ off * gross <= all * share + all
<1> DEFINE a == s.head.subtotal + s.head.tax
           b == s.head.discount
           c == b * Fine * gross
           share == Prices!DiscountShare(s, gross)
<1>1. a \in Nat /\ b \in Nat /\ s.head.subtotal \in Nat /\ s.head.tax \in Nat
  BY DEF HeadRecord
<1>2. Fine \in Nat /\ Fine >= 1
  BY PriceConstants
<1>3. share = IF b > 0 /\ a * Fine > 0 /\ gross > 0 THEN c \div (a * Fine) ELSE 0
  BY DEF Prices!DiscountShare
<1> HIDE DEF a, b, share
<1>4. CASE b > 0 /\ a >= 1 /\ gross > 0
  <2> DEFINE d == a * Fine
             k == c \div d
  <2>1. d \in Nat /\ d >= 1
    <3>1. a * 1 <= a * Fine
      BY <1>1, <1>2, TimesLess
    <3>2. QED
      BY <1>1, <1>2, <1>4, <3>1
  <2>2. c \in Nat /\ c = Fine * (b * gross) /\ d = Fine * a
    BY <1>1, <1>2
  <2>3. k \in Nat /\ d * k <= c /\ c < d * k + d
    <3> HIDE DEF c, d
    <3>1. c \in Int /\ c >= 0
      BY <2>2
    <3> QED
      BY <2>1, <2>2, <3>1, Quotient
  <2>4. share = k
    <3>1. d > 0
      BY <2>1
    <3>2. QED
      BY <1>3, <1>4, <3>1
  <2> HIDE DEF k
  <2>5. d * k = Fine * (a * k) /\ a * k \in Int /\ b * gross \in Int /\ d * k + d = Fine * (a * k + a)
    BY <1>1, <1>2, <2>2, <2>3
  <2>6. Fine * (a * k) <= Fine * (b * gross) /\ Fine * (b * gross) <= Fine * (a * k + a)
    <3> HIDE DEF c, d
    <3>1. d * k \in Int /\ c \in Int
      BY <2>1, <2>2, <2>3
    <3>2. QED
      BY <2>1, <2>2, <2>3, <2>5, <3>1
  <2>7. a * k <= b * gross /\ b * gross <= a * k + a
    <3>1. a * k + a \in Int
      BY <1>1, <2>5
    <3>2. QED
      BY <1>2, <2>5, <2>6, <3>1, Cancel
  <2>8. QED
    BY <2>3, <2>4, <2>7 DEF a, b, share
<1>5. CASE ~(b > 0 /\ a >= 1 /\ gross > 0)
  <2>1. share = 0
    <3>1. a * Fine > 0 => a >= 1
      BY <1>1, <1>2
    <3>2. QED
      BY <1>3, <1>5, <3>1
  <2>2. a >= 1 => b * gross = 0 /\ a * 0 = 0
    BY <1>1, <1>5
  <2>3. QED
    BY <1>1, <2>1, <2>2 DEF a, b, share
<1>6. QED
  BY <1>4, <1>5

\* The refund of so much of each line of s.
RefundedAs(s, refund, quantity) ==
  LET q == Prices!RefundLines(s, quantity)
      head == Prices!RefundTotals(s, q)
  IN  /\ quantity \in [DOMAIN s.lines -> Nat]
      /\ head.total > 0
      /\ refund = [head |-> Prices!Stored(head), lines |-> Prices!Written(q)]

Gross(s, quantity) ==
  Column(Prices!RefundLines(s, quantity), "net") + Column(Prices!RefundLines(s, quantity), "tax")

Kept(s, quantity) == Prices!DiscountShare(s, Gross(s, quantity))

LEMMA RefundIs ==
  ASSUME NEW s, s.head \in HeadRecord, s.lines \in Seq(LineRecord), NEW refund, NEW quantity,
         RefundedAs(s, refund, quantity)
  PROVE  /\ Gross(s, quantity) \in Nat /\ Kept(s, quantity) \in Nat
         /\ Gross(s, quantity) - Kept(s, quantity) > 0
         /\ refund.head.total \in Int
         /\ Close(Gross(s, quantity) - Kept(s, quantity), refund.head.total, 1)
         /\ refund.head \in HeadRecord /\ Prices!HeadIsLines(refund)
         /\ refund.lines \in Seq(RefundLine) /\ Len(refund.lines) = Len(s.lines)
         /\ \A i \in 1 .. Len(s.lines) : refund.lines[i].quantity = quantity[i]
<1> DEFINE q == Prices!RefundLines(s, quantity)
           a == Column(q, "net")
           b == Column(q, "tax")
           g == Gross(s, quantity)
           k == Kept(s, quantity)
           head == Prices!RefundTotals(s, q)
           x == g - k
<1>1. /\ quantity \in [DOMAIN s.lines -> Nat] /\ head.total > 0
      /\ refund = [head |-> Prices!Stored(head), lines |-> Prices!Written(q)]
  BY DEF RefundedAs
<1>2. /\ q \in Seq(RefundLine) /\ Len(q) = Len(s.lines)
      /\ \A i \in 1 .. Len(s.lines) : q[i].quantity = quantity[i]
  BY <1>1, RefundLinesAre
<1>3. a \in Nat /\ b \in Nat /\ g = a + b
  <2> HIDE DEF q
  <2>1. \A field \in {"net", "tax"} : Column(q, field) \in Nat
    BY <1>2, ColumnRounded
  <2>2. QED
    BY <2>1 DEF Gross, q
<1>4. head = Prices!Totals(q, k)
  BY DEF Prices!RefundTotals, Kept, Gross, Column
<1> HIDE DEF a, b, q, head
<1>5. g \in Nat
  BY <1>3
<1>6. k \in Nat
  <2> HIDE DEF g
  <2> QED
    BY <1>5, DiscountShareIs DEF Kept, g
<1> HIDE DEF g, k
<1>7. head.total = x /\ Prices!Stored(head).total = Prices!Cents(head.total)
  <2>1. head.total = a + b - k /\ Prices!Stored(head).total = Prices!Cents(head.total)
    <3> DEFINE y == Prices!Totals(q, k)
    <3>1. y.total = a + b - k
      BY TotalsAre DEF a, b
    <3>2. Prices!Stored(y) = [subtotal |-> Prices!Cents(y.subtotal), tax |-> Prices!Cents(y.tax),
                              discount |-> Prices!Cents(y.discount),
                              total |-> Prices!Cents(y.total)]
      BY TotalsAre
    <3> HIDE DEF y
    <3>3. Prices!Stored(y).total = Prices!Cents(y.total)
      BY <3>2
    <3>4. head = y
      BY <1>4 DEF y
    <3>5. QED
      BY <3>1, <3>3, <3>4
  <2>2. QED
    BY <1>3, <1>5, <1>6, <2>1
<1>8. refund.head.total = Prices!Cents(x) /\ x \in Int /\ x > 0
  BY <1>1, <1>5, <1>6, <1>7
<1>9. Prices!Cents(x) \in Int /\ Close(x, Prices!Cents(x), 1)
  BY <1>8, CentsClose
<1>10. refund.head \in HeadRecord /\ Prices!HeadIsLines(refund)
  <2>1. refund.head = Prices!Stored(Prices!Totals(q, k)) /\ refund.lines = Prices!Written(q)
    BY <1>1, <1>4
  <2>2. QED
    BY <1>2, <1>6, <2>1, HeadAddsUp
<1>11. /\ refund.lines \in Seq(RefundLine) /\ Len(refund.lines) = Len(s.lines)
       /\ \A i \in 1 .. Len(s.lines) : refund.lines[i].quantity = quantity[i]
  <2>1. /\ Prices!Written(q) \in Seq(RefundLine) /\ Len(Prices!Written(q)) = Len(q)
        /\ \A i \in 1 .. Len(q) : Prices!Written(q)[i].quantity = q[i].quantity
    BY <1>2, WrittenIs
  <2>2. refund.lines = Prices!Written(q)
    BY <1>1
  <2>3. QED
    BY <1>2, <2>1, <2>2
<1>12. QED
  BY <1>5, <1>6, <1>8, <1>9, <1>10, <1>11 DEF g, k

\* What the refunds keep of the discount is their part of it, but for a unit of each.
LEMMA KeptAddsUp ==
  ASSUME NEW S, IsFiniteSet(S), NEW f, NEW g, NEW a \in Nat, NEW b \in Nat,
         \A i \in S : /\ f[i] \in Nat /\ g[i] \in Nat
                      /\ a * g[i] <= b * f[i] /\ b * f[i] <= a * g[i] + a
  PROVE  /\ SumOf(f, S) \in Nat /\ SumOf(g, S) \in Nat
         /\ a * SumOf(g, S) <= b * SumOf(f, S)
         /\ b * SumOf(f, S) <= a * SumOf(g, S) + a * Cardinality(S)
<1> DEFINE u == Times(b, f, S)
           w == Times(a, g, S)
           h == Minus(u, w, S)
           n == Cardinality(S)
<1>1. n \in Nat /\ SumOf(f, S) \in Nat /\ SumOf(g, S) \in Nat
  BY FS_CardinalityType, SumNat
<1>2. SumOf(u, S) = b * SumOf(f, S)
  <2>1. \A i \in S : f[i] \in Int
    OBVIOUS
  <2>2. QED
    BY <2>1, SumTimes
<1>3. SumOf(w, S) = a * SumOf(g, S)
  <2>1. \A i \in S : g[i] \in Int
    OBVIOUS
  <2>2. QED
    BY <2>1, SumTimes
<1>4. \A i \in S : u[i] \in Int /\ w[i] \in Int /\ 0 <= u[i] - w[i] /\ u[i] - w[i] <= a
  <2> SUFFICES ASSUME NEW i \in S
               PROVE  u[i] \in Int /\ w[i] \in Int /\ 0 <= u[i] - w[i] /\ u[i] - w[i] <= a
    OBVIOUS
  <2>1. u[i] = b * f[i] /\ w[i] = a * g[i]
    BY DEF Times
  <2>2. b * f[i] \in Int /\ a * g[i] \in Int
    OBVIOUS
  <2> HIDE DEF u, w
  <2>3. QED
    BY <2>1, <2>2
<1> HIDE DEF u, w
<1>5. SumOf(h, S) = SumOf(u, S) - SumOf(w, S)
  BY <1>4, SumMinus
<1>6. \A i \in S : h[i] \in Int /\ 0 <= h[i] /\ h[i] <= a
  BY <1>4 DEF Minus
<1> HIDE DEF h
<1>7. 0 * n <= SumOf(h, S) /\ SumOf(h, S) <= a * n
  <2>1. 0 \in Int /\ a \in Int
    OBVIOUS
  <2>2. QED
    BY <1>6, <2>1, SumBetween, Zenon DEF n
<1> HIDE DEF n
<1>8. 0 * n = 0 /\ a * n \in Int /\ b * SumOf(f, S) \in Int /\ a * SumOf(g, S) \in Int
  BY <1>1
<1>9. QED
  BY <1>1, <1>2, <1>3, <1>5, <1>7, <1>8 DEF n

\* A difference that is made of two in a ratio, and of what was rounded off, is no larger.
LEMMA Balance ==
  ASSUME NEW a \in Nat, a >= 1, NEW b \in Nat, b <= a, NEW g \in Nat, NEW e \in Nat,
         NEW y \in Nat, NEW k \in Nat, NEW m \in Nat, NEW c \in Nat,
         a * e <= b * g, b * g <= a * e + a * k,
         -(m + c) <= 2 * g - 2 * y, 2 * g - 2 * y <= m,
         -m <= 2 * (Fine * a) - 2 * y, 2 * (Fine * a) - 2 * y <= m
  PROVE  LET z == 2 * (g - e) - 2 * (y - b * Fine)
         IN  z <= m + 2 * k /\ -(m + c) <= z
<1> DEFINE p == a - b
           u == 2 * g - 2 * y
           v == 2 * (Fine * a) - 2 * y
           z == 2 * (g - e) - 2 * (y - b * Fine)
<1>1. Fine \in Nat
  BY PriceConstants
<1>2. p \in Nat /\ a = p + b
  OBVIOUS
<1>3. u \in Int /\ v \in Int /\ z \in Int /\ u <= m /\ v <= m /\ -(m + c) <= u /\ -(m + c) <= v
  <2>1. Fine * a \in Int /\ b * Fine \in Int
    BY <1>1
  <2>2. QED
    BY <2>1
<1>4. a * z = p * u + b * v + 2 * (b * g - a * e)
  BY <1>1
<1> HIDE DEF p, u, v, z
<1>5. /\ p * u <= p * m /\ b * v <= b * m
      /\ p * (-(m + c)) <= p * u /\ b * (-(m + c)) <= b * v
  <2>1. -(m + c) \in Int /\ m \in Int
    OBVIOUS
  <2>2. QED
    BY <1>2, <1>3, <2>1, TimesLess
<1>6. /\ p * m + b * m = a * m /\ p * (-(m + c)) + b * (-(m + c)) = a * (-(m + c))
      /\ a * (m + 2 * k) = a * m + 2 * (a * k)
  BY <1>2
<1>7. /\ p * u \in Int /\ p * m \in Int /\ b * v \in Int /\ b * m \in Int /\ a * k \in Int
      /\ p * (-(m + c)) \in Int /\ b * (-(m + c)) \in Int /\ b * g \in Int /\ a * e \in Int
      /\ a * m \in Int /\ a * (-(m + c)) \in Int /\ a * z \in Int
  BY <1>2, <1>3
<1>8. a * z <= a * (m + 2 * k) /\ a * (-(m + c)) <= a * z
  BY <1>4, <1>5, <1>6, <1>7
<1>9. z <= m + 2 * k /\ -(m + c) <= z
  <2>1. m + 2 * k \in Int /\ -(m + c) \in Int
    OBVIOUS
  <2>2. QED
    BY <1>3, <1>8, <2>1, Cancel
<1>10. QED
  BY <1>9 DEF z

\* What rounds to nothing has only lines that do.
LEMMA NothingOfNothing ==
  ASSUME NEW q \in Seq(LineRecord), NEW field \in {"net", "tax"},
         Prices!Cents(Column(q, field)) = 0
  PROVE  Column(Prices!Written(q), field) = 0
<1> DEFINE n == Len(q)
           w == Prices!Written(q)
           f == [i \in 1 .. n |-> q[i][field]]
           g == [i \in 1 .. Len(w) |-> w[i][field]]
           x == Column(q, field)
<1>1. /\ n \in Nat /\ w \in Seq(LineRecord) /\ Len(w) = n
      /\ \A i \in 1 .. n : w[i][field] = Prices!Cents(q[i][field])
  BY WrittenIs
<1>2. IsFiniteSet(1 .. n)
  <2>1. \A m \in Nat : IsFiniteSet(1 .. m)
    BY FS_Interval
  <2> HIDE DEF n
  <2>2. QED
    BY <1>1, <2>1
<1>3. \A i \in 1 .. n : q[i][field] \in Nat
  <2>1. \A l \in LineRecord : l[field] \in Nat
    BY LineIs
  <2>2. \A i \in 1 .. n : q[i] \in LineRecord
    OBVIOUS
  <2>3. QED
    BY <2>1, <2>2
<1>4. x = SumOf(f, 1 .. n)
  BY ColumnIs
<1>5. Column(w, field) = SumOf(g, 1 .. n)
  <2> HIDE DEF w
  <2>1. Column(w, field) = SumOf(g, 1 .. Len(w))
    BY <1>1, ColumnIs
  <2>2. QED
    BY <1>1, <2>1
<1>6. \A i \in 1 .. n : f[i] \in Nat /\ g[i] = Prices!Cents(f[i])
  <2> HIDE DEF w
  <2> QED
    BY <1>1, <1>3
<1>7. Prices!Cents(x) = 0
  OBVIOUS
<1> HIDE DEF n, w, f, g, x
<1>8. x \in Nat /\ \A i \in 1 .. n : f[i] <= x
  BY <1>2, <1>4, <1>6, SumNat
<1>9. \A y \in Nat : /\ Prices!Cents(y) \in Nat
                     /\ 2 * (Fine * Prices!Cents(y)) - 2 * y <= Fine
                     /\ -Fine < 2 * (Fine * Prices!Cents(y)) - 2 * y
  <2> SUFFICES ASSUME NEW y \in Nat
               PROVE  /\ Prices!Cents(y) \in Nat
                      /\ 2 * (Fine * Prices!Cents(y)) - 2 * y <= Fine
                      /\ -Fine < 2 * (Fine * Prices!Cents(y)) - 2 * y
    OBVIOUS
  <2>1. Prices!Cents(y) = Prices!Half(y)
    BY DEF Prices!Cents
  <2>2. QED
    BY <2>1, Halves
<1>10. Fine \in Nat /\ Fine >= 1 /\ Fine * 0 = 0
  BY PriceConstants
<1>11. 2 * x < Fine
  <2>1. -Fine < 2 * (Fine * 0) - 2 * x
    BY <1>7, <1>8, <1>9
  <2>2. QED
    BY <1>8, <1>10, <2>1
<1>12. ASSUME NEW i \in 1 .. n PROVE g[i] = 0
  <2> DEFINE c == Prices!Cents(f[i])
  <2>1. f[i] \in Nat /\ g[i] = c /\ f[i] <= x
    BY <1>6, <1>8
  <2>2. c \in Nat /\ 2 * (Fine * c) - 2 * f[i] <= Fine
    BY <1>9, <2>1
  <2> HIDE DEF c
  <2>3. c >= 1 => Fine * 1 <= Fine * c
    BY <1>10, <2>2, TimesLess
  <2>4. Fine * c \in Int /\ Fine * 1 = Fine
    BY <1>10, <2>2
  <2>5. ~(c >= 1)
    BY <1>8, <1>10, <1>11, <2>1, <2>2, <2>3, <2>4
  <2>6. QED
    BY <2>1, <2>2, <2>5
<1>13. QED
  BY <1>2, <1>5, <1>12, SumOfZeros DEF w

----------------------------------------------------------------------------
(* The amounts of a sale: all of its refunds                               *)

RefundRecord == [head : HeadRecord, lines : Seq(RefundLine)]

SaleRecord ==
  [head : HeadRecord, lines : Seq(LineRecord), stale : BOOLEAN, refunds : Seq(RefundRecord)]

RefundedBy(s, asked) ==
  \A k \in 1 .. Len(s.refunds) : RefundedAs(s, s.refunds[k], asked[k])

LEMMA SaleIs ==
  ASSUME NEW s \in SaleRecord
  PROVE  /\ s.head \in HeadRecord /\ s.lines \in Seq(LineRecord) /\ s.stale \in BOOLEAN
         /\ s.refunds \in Seq(RefundRecord)
         /\ Len(s.lines) \in Nat /\ DOMAIN s.lines = 1 .. Len(s.lines)
         /\ Len(s.refunds) \in Nat /\ DOMAIN s.refunds = 1 .. Len(s.refunds)
         /\ IsFiniteSet(1 .. Len(s.lines)) /\ Cardinality(1 .. Len(s.lines)) = Len(s.lines)
         /\ IsFiniteSet(1 .. Len(s.refunds)) /\ Cardinality(1 .. Len(s.refunds)) = Len(s.refunds)
         /\ \A i \in 1 .. Len(s.lines) : s.lines[i] \in LineRecord
<1>1. /\ s.head \in HeadRecord /\ s.lines \in Seq(LineRecord) /\ s.stale \in BOOLEAN
      /\ s.refunds \in Seq(RefundRecord)
  BY DEF SaleRecord
<1> DEFINE n == Len(s.lines)
           k == Len(s.refunds)
<1>2. /\ n \in Nat /\ DOMAIN s.lines = 1 .. n /\ \A i \in 1 .. n : s.lines[i] \in LineRecord
      /\ k \in Nat /\ DOMAIN s.refunds = 1 .. k
  BY <1>1
<1>3. \A m \in Nat : IsFiniteSet(1 .. m) /\ Cardinality(1 .. m) = m
  BY FS_Interval
<1> HIDE DEF n, k
<1>4. /\ IsFiniteSet(1 .. n) /\ Cardinality(1 .. n) = n
      /\ IsFiniteSet(1 .. k) /\ Cardinality(1 .. k) = k
  BY <1>2, <1>3
<1>5. QED
  BY <1>1, <1>2, <1>4 DEF n, k

LEMMA ReturnedIs ==
  ASSUME NEW s \in SaleRecord, NEW asked, RefundedBy(s, asked), NEW i \in 1 .. Len(s.lines)
  PROVE  Prices!Returned(s, i)
           = SumOf([k \in 1 .. Len(s.refunds) |-> asked[k][i]], 1 .. Len(s.refunds))
<1> DEFINE R == 1 .. Len(s.refunds)
           f == [k \in R |-> s.refunds[k].lines[i].quantity]
           g == [k \in R |-> asked[k][i]]
<1>1. /\ s.head \in HeadRecord /\ s.lines \in Seq(LineRecord)
      /\ DOMAIN s.refunds = R /\ IsFiniteSet(R)
  BY SaleIs
<1>2. Prices!Returned(s, i) = Prices!Total(f)
  BY <1>1 DEF Prices!Returned
<1>3. \A k \in R : s.refunds[k].lines[i].quantity = asked[k][i]
  <2> SUFFICES ASSUME NEW k \in R PROVE s.refunds[k].lines[i].quantity = asked[k][i]
    OBVIOUS
  <2>1. RefundedAs(s, s.refunds[k], asked[k])
    BY DEF RefundedBy
  <2>2. QED
    BY <1>1, <2>1, RefundIs
<1>4. \A k \in R : f[k] = g[k]
  BY <1>3
<1>5. DOMAIN f = R
  OBVIOUS
<1> HIDE DEF f, g, R
<1>6. Prices!Total(f) = SumOf(f, R)
  BY <1>5, TotalIs
<1>7. QED
  BY <1>1, <1>2, <1>4, <1>6, SumSame DEF g, R

\* What comes back of a column of a sale all of which is refunded.
LEMMA ColumnBack ==
  ASSUME NEW s \in SaleRecord, NEW asked, RefundedBy(s, asked), Prices!AllBack(s),
         NEW field \in {"net", "tax"}
  PROVE  LET R == 1 .. Len(s.refunds)
             back == SumOf([k \in R |-> Column(Prices!RefundLines(s, asked[k]), field)], R)
             all  == Fine * Column(s.lines, field)
         IN  /\ back \in Nat /\ all \in Nat
             /\ back <= all /\ all <= back + Len(s.refunds) * Len(s.lines)
<1> DEFINE R == 1 .. Len(s.refunds)
           L == 1 .. Len(s.lines)
           of == [i \in L |-> s.lines[i].quantity]
           col == [i \in L |-> s.lines[i][field]]
           full == [i \in L |-> s.lines[i][field] * Fine]
           shares == [k \in R |-> [i \in L |-> Prices!RefundLines(s, asked[k])[i][field]]]
           rows == [k \in R |-> SumOf(shares[k], L)]
           backs == [k \in R |-> Column(Prices!RefundLines(s, asked[k]), field)]
<1>1. /\ s.head \in HeadRecord /\ s.lines \in Seq(LineRecord) /\ DOMAIN s.lines = L
      /\ IsFiniteSet(R) /\ Cardinality(R) = Len(s.refunds)
      /\ IsFiniteSet(L) /\ Cardinality(L) = Len(s.lines)
      /\ \A i \in L : s.lines[i] \in LineRecord
  BY SaleIs
<1>2. Fine \in Nat
  BY PriceConstants
<1>3. \A i \in L : of[i] \in Nat /\ of[i] >= 1 /\ col[i] \in Nat /\ full[i] \in Nat
  <2> SUFFICES ASSUME NEW i \in L
               PROVE  of[i] \in Nat /\ of[i] >= 1 /\ col[i] \in Nat /\ full[i] \in Nat
    OBVIOUS
  <2> DEFINE x == s.lines[i][field]
  <2>1. x \in Nat /\ s.lines[i].quantity \in Nat /\ s.lines[i].quantity >= 1
    <3>1. s.lines[i] \in LineRecord
      BY <1>1
    <3>2. \A l \in LineRecord : l[field] \in Nat
      BY LineIs
    <3>3. \A l \in LineRecord : l.quantity \in Nat /\ l.quantity >= 1
      BY DEF LineRecord
    <3>4. QED
      BY <3>1, <3>2, <3>3
  <2> HIDE DEF x
  <2>2. x * Fine \in Nat
    BY <1>2, <2>1
  <2>3. QED
    BY <2>1, <2>2 DEF x
<1>4. ASSUME NEW k \in R
      PROVE  /\ Prices!RefundLines(s, asked[k]) \in Seq(RefundLine)
             /\ Len(Prices!RefundLines(s, asked[k])) = Len(s.lines)
             /\ \A i \in L : /\ shares[k][i] \in Nat /\ asked[k][i] \in Nat
                             /\ of[i] * shares[k][i] <= full[i] * asked[k][i]
                             /\ full[i] * asked[k][i] <= of[i] * shares[k][i] + of[i]
             /\ backs[k] = rows[k]
  <2> DEFINE q == Prices!RefundLines(s, asked[k])
  <2>1. asked[k] \in [DOMAIN s.lines -> Nat]
    BY DEF RefundedBy, RefundedAs
  <2>2. /\ q \in Seq(RefundLine) /\ Len(q) = Len(s.lines)
        /\ \A i \in 1 .. Len(s.lines) :
             LET o == s.lines[i].quantity
                 c == s.lines[i][field] * Fine
             IN  /\ q[i][field] \in Nat
                 /\ o * q[i][field] <= c * asked[k][i]
                 /\ c * asked[k][i] <= o * q[i][field] + o
    BY <1>1, <2>1, RefundLinesAre
  <2>3. \A i \in L : asked[k][i] \in Nat
    BY <1>1, <2>1
  <2>4. shares[k] = [i \in 1 .. Len(q) |-> q[i][field]]
    BY <2>2
  <2> HIDE DEF q
  <2>5. Column(q, field) = SumOf(shares[k], 1 .. Len(q))
    BY <2>2, <2>4, ColumnIs
  <2>6. backs[k] = rows[k]
    BY <2>2, <2>5 DEF q
  <2>7. \A i \in L : shares[k][i] = q[i][field]
    BY DEF q
  <2>8. \A i \in L : of[i] = s.lines[i].quantity /\ full[i] = s.lines[i][field] * Fine
    OBVIOUS
  <2> HIDE DEF of, full, shares, rows, backs
  <2>9. \A i \in L : /\ shares[k][i] \in Nat /\ asked[k][i] \in Nat
                     /\ of[i] * shares[k][i] <= full[i] * asked[k][i]
                     /\ full[i] * asked[k][i] <= of[i] * shares[k][i] + of[i]
    BY <2>2, <2>3, <2>7, <2>8
  <2>10. QED
    BY <2>2, <2>6, <2>9 DEF q
<1>5. \A i \in L : SumOf([k \in R |-> asked[k][i]], R) = of[i]
  <2> SUFFICES ASSUME NEW i \in L PROVE SumOf([k \in R |-> asked[k][i]], R) = of[i]
    OBVIOUS
  <2>1. Prices!Returned(s, i) = s.lines[i].quantity
    BY <1>1 DEF Prices!AllBack
  <2>2. Prices!Returned(s, i) = SumOf([k \in R |-> asked[k][i]], R)
    BY ReturnedIs
  <2>3. QED
    BY <2>1, <2>2
<1>6. rows = [k \in R |-> SumOf(shares[k], L)]
  OBVIOUS
<1>7. SumOf(full, L) = Fine * Column(s.lines, field) /\ Column(s.lines, field) \in Nat
  <2>1. Column(s.lines, field) = SumOf(col, L)
    BY <1>1, ColumnIs
  <2>2. SumOf(Times(Fine, col, L), L) = Fine * SumOf(col, L)
    <3> HIDE DEF col, L, of, full
    <3>1. Fine \in Int /\ \A i \in L : col[i] \in Int
      BY <1>2, <1>3
    <3>2. QED
      BY <1>1, <3>1, SumTimes
  <2>3. \A i \in L : full[i] = Times(Fine, col, L)[i]
    <3> SUFFICES ASSUME NEW i \in L PROVE full[i] = Times(Fine, col, L)[i]
      OBVIOUS
    <3>1. full[i] = col[i] * Fine /\ Times(Fine, col, L)[i] = Fine * col[i]
      BY DEF Times
    <3> HIDE DEF full, col, of, L
    <3>2. col[i] * Fine = Fine * col[i]
      <4>1. col[i] \in Nat
        BY <1>3
      <4>2. \A x, y \in Nat : x * y = y * x
        OBVIOUS
      <4>3. QED
        BY <1>2, <4>1, <4>2
    <3>3. QED
      BY <3>1, <3>2
  <2> HIDE DEF full, col, L
  <2>4. SumOf(full, L) = SumOf(Times(Fine, col, L), L)
    BY <1>1, <2>3, SumSame
  <2>5. SumOf(col, L) \in Nat
    BY <1>1, <1>3, SumNat
  <2>6. QED
    BY <2>1, <2>2, <2>4, <2>5
<1> HIDE DEF of, full, shares, L, R, col, backs, rows
<1>8. LET t == SumOf([k \in R |-> SumOf(shares[k], L)], R)
      IN  t \in Nat /\ t <= SumOf(full, L) /\ SumOf(full, L) <= t + Cardinality(R) * Cardinality(L)
  <2>1. \A i \in L : of[i] \in Nat /\ of[i] >= 1 /\ full[i] \in Nat
    BY <1>3
  <2>2. \A k \in R : \A i \in L :
          /\ shares[k][i] \in Nat /\ asked[k][i] \in Nat
          /\ of[i] * shares[k][i] <= full[i] * asked[k][i]
          /\ full[i] * asked[k][i] <= of[i] * shares[k][i] + of[i]
    BY <1>4
  <2>3. QED
    BY <1>1, <1>5, <2>1, <2>2, PartsOfAll
<1>9. SumOf(backs, R) = SumOf(rows, R)
  BY <1>1, <1>4, SumSame
<1>10. Fine * Column(s.lines, field) \in Nat
  BY <1>2, <1>7
<1>11. QED
  BY <1>1, <1>6, <1>7, <1>8, <1>9, <1>10 DEF backs, R, L


\* How a sale was made: of these lines, before they were rounded, and d cents off.
SoldAs(s, q, d) ==
  /\ q \in Seq(LineRecord) /\ q # <<>> /\ d \in Nat
  /\ s.lines = Prices!Written(q)
  /\ s.head = Prices!Stored(Prices!Totals(q, d * Fine))
  /\ Prices!ProfitAllowed(q, d * Fine)

LEMMA SoldHead ==
  ASSUME NEW s, NEW q, NEW d, SoldAs(s, q, d)
  PROVE  LET a == Column(q, "net")
             b == Column(q, "tax")
             n == Len(s.lines)
             x == a + b - d * Fine
         IN  /\ a \in Nat /\ b \in Nat /\ n \in Nat /\ n >= 1 /\ Len(q) = n /\ d \in Nat
             /\ s.head.subtotal = Prices!Cents(a) /\ s.head.tax = Prices!Cents(b)
             /\ s.head.subtotal \in Nat /\ s.head.tax \in Nat
             /\ s.head.discount = d /\ s.head.total = Prices!Cents(x)
             /\ Close(a, s.head.subtotal, 1) /\ Close(b, s.head.tax, 1)
             /\ x \in Int /\ s.head.total \in Int /\ Close(x, s.head.total, 1)
             /\ Column(s.lines, "net") \in Nat /\ Close(a, Column(s.lines, "net"), n)
             /\ Column(s.lines, "tax") \in Nat /\ Close(b, Column(s.lines, "tax"), n)
<1> DEFINE a == Column(q, "net")
           b == Column(q, "tax")
           n == Len(s.lines)
           off == d * Fine
           x == a + b - off
           head == Prices!Totals(q, off)
<1>1. /\ q \in Seq(LineRecord) /\ q # <<>> /\ d \in Nat /\ s.lines = Prices!Written(q)
      /\ s.head = Prices!Stored(head)
  BY DEF SoldAs
<1>2. Len(q) = n /\ n \in Nat /\ n >= 1
  <2>1. Len(Prices!Written(q)) = Len(q)
    BY <1>1, WrittenIs
  <2>2. Len(q) \in Nat /\ Len(q) >= 1
    BY <1>1
  <2>3. QED
    BY <1>1, <2>1, <2>2
<1>3. /\ a \in Nat /\ b \in Nat
      /\ Column(s.lines, "net") \in Nat /\ Close(a, Column(s.lines, "net"), Len(q))
      /\ Column(s.lines, "tax") \in Nat /\ Close(b, Column(s.lines, "tax"), Len(q))
  <2>1. \A field \in {"net", "tax"} :
          /\ Column(q, field) \in Nat /\ Column(Prices!Written(q), field) \in Nat
          /\ Close(Column(q, field), Column(Prices!Written(q), field), Len(q))
    BY <1>1, ColumnRounded
  <2>2. QED
    BY <1>1, <2>1
<1>4. off \in Nat /\ Prices!Cents(off) = d
  <2>1. Fine \in Nat
    BY PriceConstants
  <2>2. QED
    BY <1>1, <2>1, RoundedWhole
<1> HIDE DEF a, b, n, off, head
<1>5. /\ head.subtotal = a /\ head.tax = b /\ head.discount = off /\ head.total = x
      /\ s.head = [subtotal |-> Prices!Cents(head.subtotal), tax |-> Prices!Cents(head.tax),
                   discount |-> Prices!Cents(head.discount), total |-> Prices!Cents(head.total)]
  BY <1>1, TotalsAre DEF a, b, head
<1>6. /\ s.head.subtotal = Prices!Cents(a) /\ s.head.tax = Prices!Cents(b)
      /\ s.head.discount = d /\ s.head.total = Prices!Cents(x)
  BY <1>4, <1>5
<1>7. x \in Int
  BY <1>3, <1>4
<1> HIDE DEF x
<1>8. \A y \in Int : Prices!Cents(y) \in Int /\ Close(y, Prices!Cents(y), 1)
  BY CentsClose
<1>9. \A y \in Nat : Prices!Cents(y) \in Nat
  <2>1. \A y \in Nat : y \in Int /\ y >= 0
    OBVIOUS
  <2>2. QED
    BY <2>1, Rounded
<1>10. /\ s.head.subtotal \in Nat /\ s.head.tax \in Nat
       /\ Close(a, s.head.subtotal, 1) /\ Close(b, s.head.tax, 1)
       /\ s.head.total \in Int /\ Close(x, s.head.total, 1)
  <2>1. a \in Int /\ b \in Int
    BY <1>3
  <2>2. QED
    BY <1>3, <1>6, <1>7, <1>8, <1>9, <2>1
<1>11. QED
  BY <1>1, <1>2, <1>3, <1>6, <1>7, <1>10 DEF a, b, n, off, x


\* What refunds of all of a sale come to, from what was given back of its columns.
LEMMA GivenBack ==
  ASSUME NEW k \in Nat, NEW n \in Nat, n >= 1, NEW d \in Nat,
         NEW gs \in Nat, NEW es \in Nat, NEW back \in Int, NEW t \in Int,
         NEW w1 \in Nat, NEW w2 \in Nat, NEW a1 \in Nat, NEW a2 \in Nat,
         NEW e1 \in Nat, NEW e2 \in Nat, e1 + e2 >= 1, d <= e1 + e2,
         gs <= Fine * w1 + Fine * w2, Fine * w1 + Fine * w2 <= gs + 2 * (k * n),
         Close(a1, w1, n), Close(a2, w2, n), Close(a1, e1, 1), Close(a2, e2, 1),
         (e1 + e2) * es <= d * gs, d * gs <= (e1 + e2) * es + (e1 + e2) * k,
         Close(gs - es, back, k), Close(a1 + a2 - d * Fine, t, 1)
  PROVE  2 * Fine * Prices!Abs(back - t) <= Fine * (2 * n + 1 + k) + 2 * k * (2 * n + 1)
<1> DEFINE a == e1 + e2
           y == a1 + a2
           c == k * n
           nf == n * Fine
           kf == k * Fine
           mm == 2 * nf
           cc == 4 * c
           df == d * Fine
           f1 == Fine * w1
           f2 == Fine * w2
           h1 == Fine * e1
           h2 == Fine * e2
           z == 2 * (gs - es) - 2 * (y - df)
           u == back - t
           fb == Fine * back
           fx == Fine * t
           fu == Fine * u
<1>1. Fine \in Nat /\ Fine >= 1
  BY PriceConstants
<1>2. /\ a \in Nat /\ a >= 1 /\ d <= a /\ y \in Nat /\ c \in Nat /\ nf \in Nat /\ kf \in Nat
      /\ mm \in Nat /\ cc \in Nat /\ df \in Nat
      /\ f1 \in Nat /\ f2 \in Nat /\ h1 \in Nat /\ h2 \in Nat
      /\ u \in Int /\ fb \in Int /\ fx \in Int /\ fu \in Int
  BY <1>1
<1>3. /\ Fine * a = h1 + h2 /\ fu = fb - fx
      /\ Fine * (2 * n + 1 + k) = mm + Fine + kf /\ 2 * k * (2 * n + 1) = cc + 2 * k
  BY <1>1
<1>4. Fine <= nf
  <2>1. Fine * 1 <= Fine * n
    BY <1>1, TimesLess
  <2>2. Fine * 1 = Fine /\ Fine * n = nf
    BY <1>1
  <2>3. QED
    BY <2>1, <2>2
<1>5. 1 * Fine = Fine
  BY <1>1
<1>6. /\ 2 * f1 - 2 * a1 <= nf /\ -nf <= 2 * f1 - 2 * a1
      /\ 2 * f2 - 2 * a2 <= nf /\ -nf <= 2 * f2 - 2 * a2
      /\ 2 * h1 - 2 * a1 <= Fine /\ -Fine <= 2 * h1 - 2 * a1
      /\ 2 * h2 - 2 * a2 <= Fine /\ -Fine <= 2 * h2 - 2 * a2
      /\ 2 * fb - 2 * (gs - es) <= kf /\ -kf <= 2 * fb - 2 * (gs - es)
      /\ 2 * fx - 2 * (y - df) <= Fine /\ -Fine <= 2 * fx - 2 * (y - df)
  <2> DEFINE one == 1 * Fine
  <2>1. /\ 2 * f1 - 2 * a1 <= nf /\ -nf <= 2 * f1 - 2 * a1
        /\ 2 * f2 - 2 * a2 <= nf /\ -nf <= 2 * f2 - 2 * a2
        /\ 2 * h1 - 2 * a1 <= one /\ -one <= 2 * h1 - 2 * a1
        /\ 2 * h2 - 2 * a2 <= one /\ -one <= 2 * h2 - 2 * a2
        /\ 2 * fb - 2 * (gs - es) <= kf /\ -kf <= 2 * fb - 2 * (gs - es)
        /\ 2 * fx - 2 * (y - df) <= one /\ -one <= 2 * fx - 2 * (y - df)
    <3>1. 2 * f1 - 2 * a1 <= nf /\ -nf <= 2 * f1 - 2 * a1
      BY Zenon DEF Close
    <3>2. 2 * f2 - 2 * a2 <= nf /\ -nf <= 2 * f2 - 2 * a2
      BY Zenon DEF Close
    <3>3. 2 * h1 - 2 * a1 <= one /\ -one <= 2 * h1 - 2 * a1
      BY Zenon DEF Close
    <3>4. 2 * h2 - 2 * a2 <= one /\ -one <= 2 * h2 - 2 * a2
      BY Zenon DEF Close
    <3>5. 2 * fb - 2 * (gs - es) <= kf /\ -kf <= 2 * fb - 2 * (gs - es)
      BY Zenon DEF Close
    <3>6. 2 * fx - 2 * (y - df) <= one /\ -one <= 2 * fx - 2 * (y - df)
      <4> DEFINE x == a1 + a2 - d * Fine
      <4>1. Close(x, t, 1)
        OBVIOUS
      <4>2. 2 * fx - 2 * x <= one /\ -one <= 2 * fx - 2 * x
        <5> HIDE DEF x
        <5> QED
          BY <4>1, Zenon DEF Close
      <4>3. x = y - df
        <5>1. d * Fine \in Int
          BY <1>1
        <5>2. QED
          BY <5>1
      <4> HIDE DEF x, y, df, fx, one
      <4> QED
        BY <4>2, <4>3
    <3> HIDE DEF one, f1, f2, h1, h2, fb, fx, kf, nf, y, df
    <3>7. QED
      BY <3>1, <3>2, <3>3, <3>4, <3>5, <3>6
  <2>2. one = Fine
    BY <1>5
  <2> HIDE DEF one, f1, f2, h1, h2, fb, fx, kf, nf, y, df
  <2>3. QED
    BY <2>1, <2>2
<1>7. gs <= f1 + f2 /\ f1 + f2 <= gs + 2 * c
  OBVIOUS
<1>8. a * es <= d * gs /\ d * gs <= a * es + a * k
  OBVIOUS
<1> HIDE DEF a, c, nf, kf, df, f1, f2, h1, h2, fb, fx, fu, u
<1>9. /\ -(mm + cc) <= 2 * gs - 2 * y /\ 2 * gs - 2 * y <= mm
      /\ -mm <= 2 * (Fine * a) - 2 * y /\ 2 * (Fine * a) - 2 * y <= mm
  BY <1>1, <1>2, <1>3, <1>4, <1>6, <1>7
<1>10. z <= mm + 2 * k /\ -(mm + cc) <= z
  <2> HIDE DEF mm, cc, y
  <2>1. LET x == 2 * (gs - es) - 2 * (y - d * Fine) IN x <= mm + 2 * k /\ -(mm + cc) <= x
    BY <1>2, <1>8, <1>9, Balance
  <2>2. QED
    BY <2>1 DEF df
<1>11. 2 * fu <= mm + Fine + kf + cc + 2 * k /\ -(2 * fu) <= mm + Fine + kf + cc + 2 * k
  BY <1>1, <1>2, <1>3, <1>6, <1>10
<1>12. 2 * Fine * Prices!Abs(u) \in {2 * fu, -(2 * fu)}
  <2>1. CASE u < 0
    <3>1. 2 * Fine * (-u) = -(2 * (Fine * u))
      BY <1>1, <1>2
    <3>2. QED
      BY <2>1, <3>1 DEF Prices!Abs, fu
  <2>2. CASE ~(u < 0)
    <3>1. 2 * Fine * u = 2 * (Fine * u)
      BY <1>1, <1>2
    <3>2. QED
      BY <2>2, <3>1 DEF Prices!Abs, fu
  <2>3. QED
    BY <2>1, <2>2
<1>13. 2 * Fine * Prices!Abs(u) <= mm + Fine + kf + cc + 2 * k
  BY <1>11, <1>12
<1>14. mm + Fine + kf + cc + 2 * k = Fine * (2 * n + 1 + k) + 2 * k * (2 * n + 1)
  <2> DEFINE p1 == Fine * (2 * n + 1 + k)
             p2 == 2 * k * (2 * n + 1)
  <2>1. p1 = mm + Fine + kf /\ p2 = cc + 2 * k
    BY <1>3
  <2> HIDE DEF p1, p2
  <2>2. mm + Fine + kf + cc + 2 * k = p1 + p2
    BY <1>1, <1>2, <2>1
  <2>3. QED
    BY <2>2 DEF p1, p2
<1>15. QED
  BY <1>13, <1>14 DEF u


\* All refunds of a sale together give back its total.
LEMMA GivesBackIs ==
  ASSUME NEW s \in SaleRecord, NEW asked, RefundedBy(s, asked), Prices!AllBack(s),
         NEW q, NEW d, SoldAs(s, q, d)
  PROVE  Prices!GivesBack(s)
<1> DEFINE k == Len(s.refunds)
           n == Len(s.lines)
           R == 1 .. k
           gross == [j \in R |-> Gross(s, asked[j])]
           kept == [j \in R |-> Kept(s, asked[j])]
           paid == Minus(gross, kept, R)
           given == [j \in R |-> s.refunds[j].head.total]
           fn == [j \in R |-> Column(Prices!RefundLines(s, asked[j]), "net")]
           ft == [j \in R |-> Column(Prices!RefundLines(s, asked[j]), "tax")]
           gs == SumOf(gross, R)
           es == SumOf(kept, R)
           back == SumOf(given, R)
           e1 == s.head.subtotal
           e2 == s.head.tax
           a1 == Column(q, "net")
           a2 == Column(q, "tax")
           w1 == Column(s.lines, "net")
           w2 == Column(s.lines, "tax")
           t == s.head.total
<1>1. /\ s.head \in HeadRecord /\ s.lines \in Seq(LineRecord) /\ DOMAIN s.lines = 1 .. n
      /\ n \in Nat /\ k \in Nat /\ IsFiniteSet(R) /\ Cardinality(R) = k
      /\ \A i \in 1 .. n : s.lines[i] \in LineRecord
  BY SaleIs
<1>2. /\ a1 \in Nat /\ a2 \in Nat /\ n >= 1 /\ d \in Nat
      /\ e1 \in Nat /\ e2 \in Nat /\ e1 = Prices!Cents(a1) /\ e2 = Prices!Cents(a2)
      /\ s.head.discount = d /\ t \in Int
      /\ Close(a1, e1, 1) /\ Close(a2, e2, 1) /\ Close(a1 + a2 - d * Fine, t, 1)
      /\ w1 \in Nat /\ w2 \in Nat /\ Close(a1, w1, n) /\ Close(a2, w2, n)
  BY SoldHead
<1>3. k >= 1
  <2>1. 1 \in 1 .. n
    BY <1>1, <1>2
  <2>2. Prices!Returned(s, 1) = SumOf([j \in R |-> asked[j][1]], R)
    BY <2>1, ReturnedIs
  <2>3. Prices!Returned(s, 1) = s.lines[1].quantity
    BY <1>1, <2>1 DEF Prices!AllBack
  <2>4. s.lines[1].quantity >= 1
    <3>1. \A l \in LineRecord : l.quantity \in Nat /\ l.quantity >= 1
      BY DEF LineRecord
    <3>2. QED
      BY <1>1, <2>1, <3>1
  <2>5. R # {}
    <3>1. SUFFICES ASSUME R = {} PROVE FALSE
      OBVIOUS
    <3>2. Prices!Returned(s, 1) = 0
      BY <2>2, <3>1, SumOfNone
    <3>3. QED
      BY <2>3, <2>4, <3>2
  <2> HIDE DEF k
  <2>6. QED
    BY <1>1, <2>5
<1>4. ASSUME NEW j \in R
      PROVE  /\ gross[j] \in Nat /\ kept[j] \in Nat /\ gross[j] > kept[j]
             /\ gross[j] = Plus(fn, ft, R)[j] /\ fn[j] \in Nat /\ ft[j] \in Nat
             /\ given[j] \in Int /\ Close(paid[j], given[j], 1) /\ paid[j] \in Int
             /\ e1 + e2 >= 1 => /\ (e1 + e2) * kept[j] <= d * gross[j]
                                /\ d * gross[j] <= (e1 + e2) * kept[j] + (e1 + e2)
  <2> DEFINE g == Gross(s, asked[j])
             e == Kept(s, asked[j])
             c1 == Column(Prices!RefundLines(s, asked[j]), "net")
             c2 == Column(Prices!RefundLines(s, asked[j]), "tax")
             b == s.refunds[j].head.total
  <2>1. RefundedAs(s, s.refunds[j], asked[j])
    BY DEF RefundedBy
  <2>2. g \in Nat /\ e \in Nat /\ g - e > 0 /\ b \in Int /\ Close(g - e, b, 1)
    BY <1>1, <2>1, RefundIs
  <2>3. c1 \in Nat /\ c2 \in Nat /\ g = c1 + c2
    <3>1. asked[j] \in [DOMAIN s.lines -> Nat]
      BY <2>1 DEF RefundedAs
    <3>2. Prices!RefundLines(s, asked[j]) \in Seq(RefundLine)
      BY <1>1, <3>1, RefundLinesAre
    <3>3. \A field \in {"net", "tax"} : Column(Prices!RefundLines(s, asked[j]), field) \in Nat
      BY <3>2, ColumnRounded
    <3>4. QED
      BY <3>3 DEF Gross
  <2>4. e1 + e2 >= 1 => (e1 + e2) * e <= d * g /\ d * g <= (e1 + e2) * e + (e1 + e2)
    <3>1. e = Prices!DiscountShare(s, g)
      BY DEF Kept
    <3> HIDE DEF g, e
    <3>2. QED
      BY <1>1, <1>2, <2>2, <3>1, DiscountShareIs
  <2>5. /\ gross[j] = g /\ kept[j] = e /\ fn[j] = c1 /\ ft[j] = c2 /\ given[j] = b
        /\ paid[j] = gross[j] - kept[j] /\ Plus(fn, ft, R)[j] = fn[j] + ft[j]
    BY DEF Plus, Minus
  <2> HIDE DEF g, e, c1, c2, b, gross, kept, paid, given, fn, ft, R, e1, e2
  <2>6. gross[j] > kept[j] /\ paid[j] \in Int /\ Close(paid[j], given[j], 1)
    BY <2>2, <2>5
  <2>7. QED
    BY <2>2, <2>3, <2>4, <2>5, <2>6
<1>5. /\ SumOf(fn, R) \in Nat /\ SumOf(ft, R) \in Nat
      /\ Fine * w1 \in Nat /\ Fine * w2 \in Nat
      /\ SumOf(fn, R) <= Fine * w1 /\ Fine * w1 <= SumOf(fn, R) + k * n
      /\ SumOf(ft, R) <= Fine * w2 /\ Fine * w2 <= SumOf(ft, R) + k * n
  BY ColumnBack
<1>6. Prices!Total(given) = back
  <2>1. DOMAIN given = R
    OBVIOUS
  <2> HIDE DEF given
  <2>2. QED
    BY <2>1, TotalIs
<1>7. s.refunds \in Seq(RefundRecord)
  BY SaleIs
<1> HIDE DEF gross, kept, paid, given, fn, ft, k, n, e1, e2, a1, a2, w1, w2, t
<1>8. gs = SumOf(fn, R) + SumOf(ft, R)
  <2>1. SumOf(gross, R) = SumOf(Plus(fn, ft, R), R)
    BY <1>1, <1>4, SumSame
  <2>2. \A j \in R : fn[j] \in Int /\ ft[j] \in Int
    BY <1>4
  <2>3. SumOf(Plus(fn, ft, R), R) = SumOf(fn, R) + SumOf(ft, R)
    BY <1>1, <2>2, SumPlus
  <2>4. QED
    BY <2>1, <2>3
<1>9. gs \in Nat /\ es \in Nat /\ \A j \in R : gross[j] <= gs
  BY <1>1, <1>4, SumNat
<1>10. 1 \in R /\ gross[1] \in Nat /\ gross[1] >= 1
  BY <1>1, <1>3, <1>4
<1>11. gs <= Fine * w1 + Fine * w2 /\ Fine * w1 + Fine * w2 <= gs + 2 * (k * n)
  <2> DEFINE c == k * n
             f1 == Fine * w1
             f2 == Fine * w2
  <2>1. /\ c \in Int /\ f1 \in Nat /\ f2 \in Nat
        /\ SumOf(fn, R) <= f1 /\ f1 <= SumOf(fn, R) + c
        /\ SumOf(ft, R) <= f2 /\ f2 <= SumOf(ft, R) + c
    BY <1>1, <1>5
  <2> HIDE DEF c, f1, f2
  <2>2. gs <= f1 + f2 /\ f1 + f2 <= gs + 2 * c
    BY <1>5, <1>8, <2>1
  <2>3. QED
    BY <2>2 DEF c, f1, f2
<1>12. e1 + e2 >= 1
  <2>1. SUFFICES ASSUME e1 = 0, e2 = 0 PROVE FALSE
    BY <1>2
  <2>2. q \in Seq(LineRecord) /\ s.lines = Prices!Written(q)
    BY DEF SoldAs
  <2>3. w1 = 0 /\ w2 = 0
    <3>1. \A field \in {"net", "tax"} :
            Prices!Cents(Column(q, field)) = 0 => Column(Prices!Written(q), field) = 0
      BY <2>2, NothingOfNothing
    <3>2. QED
      BY <1>2, <2>1, <2>2, <3>1 DEF a1, a2, w1, w2
  <2>4. Fine * w1 + Fine * w2 = 0
    BY <2>3, PriceConstants
  <2>5. QED
    BY <1>9, <1>10, <1>11, <2>4
<1>13. d <= e1 + e2
  <2> DEFINE a == e1 + e2
             g == gross[1]
             e == kept[1]
  <2>1. a \in Nat /\ g \in Nat /\ e \in Nat /\ g >= 1 /\ e + 1 <= g
    BY <1>2, <1>4, <1>10
  <2>2. d * g <= a * e + a
    BY <1>4, <1>10, <1>12
  <2> HIDE DEF a, g, e
  <2>3. a * (e + 1) <= a * g /\ a * (e + 1) = a * e + a
    <3>1. e + 1 \in Int /\ g \in Int
      BY <2>1
    <3>2. a * (e + 1) <= a * g
      BY <2>1, <3>1, TimesLess
    <3>3. a * (e + 1) = a * e + a
      BY <2>1
    <3>4. QED
      BY <3>2, <3>3
  <2>4. g * d <= g * a
    <3>1. /\ d * g = g * d /\ a * g = g * a /\ d * g \in Int /\ a * g \in Int
          /\ a * e \in Int
      BY <1>2, <2>1
    <3>2. QED
      BY <2>1, <2>2, <2>3, <3>1
  <2>5. d <= a
    BY <1>2, <2>1, <2>4, Cancel
  <2>6. QED
    BY <2>5 DEF a
<1>14. (e1 + e2) * es <= d * gs /\ d * gs <= (e1 + e2) * es + (e1 + e2) * k
  <2> DEFINE a == e1 + e2
  <2>1. a \in Nat
    BY <1>2
  <2>2. \A j \in R : /\ gross[j] \in Nat /\ kept[j] \in Nat
                     /\ a * kept[j] <= d * gross[j] /\ d * gross[j] <= a * kept[j] + a
    BY <1>4, <1>12
  <2> HIDE DEF a
  <2>3. /\ a * SumOf(kept, R) <= d * SumOf(gross, R)
        /\ d * SumOf(gross, R) <= a * SumOf(kept, R) + a * Cardinality(R)
    BY <1>1, <1>2, <2>1, <2>2, KeptAddsUp
  <2>4. QED
    BY <1>1, <2>3 DEF a
<1>15. back \in Int /\ Close(gs - es, back, k)
  <2>1. \A j \in R : paid[j] \in Int /\ given[j] \in Int /\ Close(paid[j], given[j], 1)
    BY <1>4
  <2>2. back \in Int /\ Close(SumOf(paid, R), back, Cardinality(R))
    BY <1>1, <2>1, CloseSums
  <2>3. SumOf(paid, R) = gs - es
    <3>1. \A j \in R : gross[j] \in Int /\ kept[j] \in Int
      BY <1>4
    <3>2. QED
      BY <1>1, <3>1, SumMinus DEF paid
  <2>4. QED
    BY <1>1, <2>2, <2>3
<1> HIDE DEF gs, es, back
<1>16. 2 * Fine * Prices!Abs(back - t) <= Fine * (2 * n + 1 + k) + 2 * k * (2 * n + 1)
  BY <1>1, <1>2, <1>9, <1>11, <1>12, <1>13, <1>14, <1>15, GivenBack
<1>17. QED
  BY <1>6, <1>16 DEF Prices!GivesBack, n, k, t, given


\* Where no loss is allowed, what was paid for cost no more than it brought.
LEMMA NoLoss ==
  ASSUME NEW s, NEW q, NEW d, SoldAs(s, q, d), ~AllowLoss,
         NEW charged, charged = {i \in 1 .. Len(s.lines) : s.lines[i].net > 0}
  PROVE  \/ charged = {}
         \/ s.head.subtotal - s.head.discount + Len(s.lines)
              >= Prices!Total([i \in charged |-> s.lines[i].cost]) \div Fine
<1> DEFINE n == Len(s.lines)
           L == 1 .. n
           nets == [i \in L |-> q[i].net]
           costs == [i \in L |-> q[i].cost]
           paid == {i \in L : q[i].net > 0}
           a == Column(q, "net")
           sub == s.head.subtotal
           df == d * Fine
           c == SumOf(costs, charged)
           e == SumOf(costs, paid)
<1>1. /\ a \in Nat /\ n \in Nat /\ Len(q) = n /\ d \in Nat /\ sub \in Nat
      /\ s.head.discount = d /\ Close(a, sub, 1)
  BY SoldHead
<1>2. /\ q \in Seq(LineRecord) /\ DOMAIN q = L /\ s.lines = Prices!Written(q)
      /\ Prices!ProfitAllowed(q, df)
  <2>1. q \in Seq(LineRecord) /\ s.lines = Prices!Written(q) /\ Prices!ProfitAllowed(q, df)
    BY DEF SoldAs
  <2>2. DOMAIN q = 1 .. Len(q)
    BY <2>1
  <2>3. QED
    BY <1>1, <2>1, <2>2
<1>3. Fine \in Nat /\ Fine >= 1 /\ df \in Nat
  BY <1>1, PriceConstants
<1>4. \A i \in L : /\ q[i].net \in Nat /\ q[i].cost \in Nat
                   /\ s.lines[i].net = Prices!Cents(q[i].net) /\ s.lines[i].cost = q[i].cost
  <2>1. \A i \in L : q[i] \in LineRecord
    BY <1>2
  <2>2. \A l \in LineRecord : l.net \in Nat /\ l.cost \in Nat
    BY DEF LineRecord
  <2>3. \A i \in 1 .. Len(q) : /\ Prices!Written(q)[i].net = Prices!Cents(q[i].net)
                               /\ Prices!Written(q)[i].cost = q[i].cost
    BY <1>2, WrittenIs
  <2>4. QED
    BY <1>1, <1>2, <2>1, <2>2, <2>3
<1>5. IsFiniteSet(L)
  <2>1. \A m \in Nat : IsFiniteSet(1 .. m)
    BY FS_Interval
  <2> HIDE DEF n
  <2>2. QED
    BY <1>1, <2>1
<1>6. charged \subseteq paid /\ paid \subseteq L
  <2>1. Prices!Cents(0) = 0
    <3>1. 0 * Fine = 0 /\ 0 \in Nat
      BY <1>3
    <3>2. QED
      BY <3>1, RoundedWhole
  <2>2. \A i \in L : q[i].net = 0 => ~(s.lines[i].net > 0)
    BY <1>4, <2>1
  <2>3. QED
    BY <1>4, <2>2
<1>7. a = SumOf(nets, L)
  <2>1. nets = [i \in 1 .. Len(q) |-> q[i]["net"]]
    BY <1>1
  <2> HIDE DEF nets
  <2>2. a = SumOf(nets, 1 .. Len(q))
    BY <1>2, <2>1, ColumnIs
  <2>3. QED
    BY <1>1, <2>2
<1>8. SUFFICES ASSUME charged # {}
               PROVE  sub - d + n >= Prices!Total([i \in charged |-> s.lines[i].cost]) \div Fine
  BY <1>1
<1>9. SumOf(nets, paid) - e - df >= 0
  <2> DEFINE h == [i \in paid |-> q[i].net - q[i].cost]
  <2>1. Prices!Profit(q, df) >= 0
    BY <1>2 DEF Prices!ProfitAllowed
  <2>2. Prices!Profit(q, df) = Prices!Total(h) - df
    <3>1. {i \in DOMAIN q : q[i].net > 0} = paid
      BY <1>2
    <3>2. paid # {}
      BY <1>6, <1>8
    <3>3. QED
      BY <3>1, <3>2 DEF Prices!Profit
  <2>3. DOMAIN h = paid /\ \A i \in paid : h[i] = Minus(nets, costs, paid)[i]
    BY <1>6 DEF Minus
  <2>4. \A i \in paid : nets[i] \in Int /\ costs[i] \in Int
    BY <1>4, <1>6
  <2>5. IsFiniteSet(paid)
    BY <1>5, <1>6, FS_Subset
  <2> HIDE DEF h, nets, costs, paid
  <2>6. Prices!Total(h) = SumOf(Minus(nets, costs, paid), paid)
    <3>1. Prices!Total(h) = SumOf(h, paid)
      BY <2>3, TotalIs
    <3>2. SumOf(h, paid) = SumOf(Minus(nets, costs, paid), paid)
      BY <2>3, <2>5, SumSame
    <3>3. QED
      BY <3>1, <3>2
  <2>7. SumOf(Minus(nets, costs, paid), paid) = SumOf(nets, paid) - e
    BY <2>4, <2>5, SumMinus
  <2>8. QED
    BY <2>1, <2>2, <2>6, <2>7
<1>10. /\ SumOf(nets, paid) = a /\ c <= e /\ c \in Nat /\ e \in Nat
  <2> DEFINE some == Within(nets, paid, L)
             few == Within(costs, charged, L)
             more == Within(costs, paid, L)
  <2>1. \A i \in L : nets[i] \in Nat /\ costs[i] \in Nat
    BY <1>4
  <2>2. \A i \in L : some[i] = nets[i]
    <3> SUFFICES ASSUME NEW i \in L PROVE some[i] = nets[i]
      OBVIOUS
    <3>1. nets[i] = q[i].net /\ q[i].net \in Nat
      BY <1>4
    <3>2. some[i] = IF i \in paid THEN nets[i] ELSE 0
      BY DEF Within
    <3>3. QED
      BY <3>1, <3>2
  <2>3. \A i \in L : few[i] \in Int /\ more[i] \in Int /\ few[i] <= more[i]
    <3> SUFFICES ASSUME NEW i \in L
                 PROVE  few[i] \in Int /\ more[i] \in Int /\ few[i] <= more[i]
      OBVIOUS
    <3>1. /\ few[i] = IF i \in charged THEN costs[i] ELSE 0
          /\ more[i] = IF i \in paid THEN costs[i] ELSE 0
      BY DEF Within
    <3>2. costs[i] \in Nat
      BY <2>1
    <3> HIDE DEF few, more, costs, paid
    <3>3. QED
      BY <1>6, <3>1, <3>2
  <2> HIDE DEF nets, costs, paid, L
  <2>4. SumOf(nets, paid) = SumOf(some, L)
    <3>1. paid \in SUBSET L /\ \A i \in paid : nets[i] \in Int
      BY <1>6, <2>1
    <3>2. QED
      BY <1>5, <3>1, SumPart
  <2>5. SumOf(some, L) = SumOf(nets, L)
    <3> HIDE DEF some
    <3> QED
      BY <1>5, <2>2, SumSame
  <2>6. c = SumOf(few, L)
    <3>1. charged \in SUBSET L /\ \A i \in charged : costs[i] \in Int
      BY <1>6, <2>1
    <3>2. QED
      BY <1>5, <3>1, SumPart
  <2>7. e = SumOf(more, L)
    <3>1. paid \in SUBSET L /\ \A i \in paid : costs[i] \in Int
      BY <1>6, <2>1
    <3>2. QED
      BY <1>5, <3>1, SumPart
  <2>8. SumOf(few, L) <= SumOf(more, L)
    <3> HIDE DEF few, more
    <3> QED
      BY <1>5, <2>3, SumMonotone
  <2>9. c \in Nat /\ e \in Nat
    <3>1. IsFiniteSet(charged) /\ IsFiniteSet(paid)
      BY <1>5, <1>6, FS_Subset
    <3>2. \A i \in charged : costs[i] \in Nat
      BY <1>6, <2>1
    <3>3. \A i \in paid : costs[i] \in Nat
      BY <1>6, <2>1
    <3>4. c \in Nat
      BY <3>1, <3>2, SumNat
    <3>5. e \in Nat
      BY <3>1, <3>3, SumNat
    <3>6. QED
      BY <3>4, <3>5
  <2>10. QED
    BY <1>7, <2>4, <2>5, <2>6, <2>7, <2>8, <2>9
<1>11. Prices!Total([i \in charged |-> s.lines[i].cost]) = c
  <2> DEFINE g == [i \in charged |-> s.lines[i].cost]
  <2>1. DOMAIN g = charged /\ \A i \in charged : g[i] = costs[i]
    BY <1>4, <1>6
  <2>2. IsFiniteSet(charged)
    BY <1>5, <1>6, FS_Subset
  <2> HIDE DEF g, costs
  <2>3. Prices!Total(g) = SumOf(g, charged) /\ SumOf(g, charged) = c
    <3>1. Prices!Total(g) = SumOf(g, charged)
      BY <2>1, TotalIs
    <3>2. SumOf(g, charged) = SumOf(costs, charged)
      BY <2>1, <2>2, SumSame
    <3>3. QED
      BY <3>1, <3>2
  <2>4. QED
    BY <2>3 DEF g
<1> HIDE DEF a, c, e, n, sub, nets, paid
<1>12. c <= a - df
  BY <1>1, <1>3, <1>9, <1>10
<1> DEFINE x == c \div Fine
<1>13. x \in Int /\ Fine * x <= c
  <2>1. c \in Int
    BY <1>10
  <2>2. QED
    BY <1>3, <2>1, Quotient
<1> HIDE DEF x
<1>14. -Fine <= 2 * (Fine * sub) - 2 * a
  <2>1. 1 * Fine = Fine
    BY <1>3
  <2>2. QED
    BY <1>1, <2>1 DEF Close
<1>15. 2 * x <= 2 * sub + 1 - 2 * d
  <2> DEFINE f1 == Fine * x
             f2 == Fine * sub
  <2>1. /\ Fine * (2 * x) = 2 * f1 /\ Fine * (2 * sub + 1 - 2 * d) = 2 * f2 + Fine - 2 * df
        /\ f1 \in Int /\ f2 \in Int
    BY <1>1, <1>3, <1>13
  <2>2. 2 * f1 <= 2 * f2 + Fine - 2 * df
    <3>1. f1 <= c /\ -Fine <= 2 * f2 - 2 * a
      BY <1>13, <1>14
    <3> HIDE DEF f1, f2, df
    <3>2. QED
      BY <1>1, <1>3, <1>10, <1>12, <2>1, <3>1
  <2>3. Fine * (2 * x) <= Fine * (2 * sub + 1 - 2 * d)
    BY <2>1, <2>2
  <2>4. 2 * x \in Int /\ 2 * sub + 1 - 2 * d \in Int
    BY <1>1, <1>13
  <2>5. QED
    BY <1>3, <2>3, <2>4, Cancel
<1>16. sub - d + n >= x
  BY <1>1, <1>13, <1>15
<1>17. QED
  BY <1>11, <1>16 DEF x, sub, n

----------------------------------------------------------------------------
(* The amounts of a sale: the breakdown of its tax                         *)

PartsAgree ==
  \A t \in Taxes \ skewed : parts[t] # <<>> => parts[t][1] + parts[t][2] = rate[t]

LEMMA Pair ==
  ASSUME NEW a \in Int, NEW b \in Int
  PROVE  Prices!Total(<<a, b>>) = a + b
<1> DEFINE f == <<a, b>>
<1>1. DOMAIN f = 1 .. 1 + 1 /\ f[1] = a /\ f[2] = b
  OBVIOUS
<1>2. \A i \in 1 .. 1 + 1 : f[i] \in Int
  OBVIOUS
<1>3. \A i \in 1 .. 0 + 1 : f[i] \in Int
  OBVIOUS
<1>4. 1 .. 0 = {}
  OBVIOUS
<1> HIDE DEF f
<1>5. SumOf(f, 1 .. 1 + 1) = SumOf(f, 1 .. 1) + f[1 + 1]
  BY <1>2, SumNext
<1>6. SumOf(f, 1 .. 0 + 1) = SumOf(f, 1 .. 0) + f[0 + 1]
  BY <1>3, SumNext
<1>7. SumOf(f, 1 .. 0) = 0
  BY <1>4, SumOfNone
<1>8. Prices!Total(f) = SumOf(f, 1 .. 1 + 1)
  BY <1>1, TotalIs
<1>9. 1 + 1 = 2 /\ 0 + 1 = 1
  OBVIOUS
<1>10. Prices!Total(f) = a + b
  BY <1>1, <1>5, <1>6, <1>7, <1>8, <1>9
<1>11. QED
  BY <1>10 DEF f

LEMMA Whole ==
  ASSUME NEW x \in Nat, NEW r \in Nat, r >= 1
  PROVE  (x * r) \div r = x
<1> DEFINE a == x * r
           k == a \div r
<1>1. a \in Int /\ a = r * x /\ r * (x + 1) = r * x + r
  OBVIOUS
<1>2. k \in Int /\ r * k <= a /\ a < r * k + r
  <2> HIDE DEF a
  <2> QED
    BY <1>1, Quotient
<1> HIDE DEF a, k
<1>3. r * (k + 1) = r * k + r /\ r * k \in Int
  BY <1>2
<1>4. k <= x
  BY <1>1, <1>2, Cancel
<1>5. x <= k
  <2>1. x >= k + 1 \/ x <= k
    BY <1>2
  <2>2. ~(x >= k + 1)
    <3>1. SUFFICES ASSUME x >= k + 1 PROVE FALSE
      OBVIOUS
    <3>2. k + 1 \in Int /\ k + 1 <= x
      BY <1>2, <3>1
    <3>3. r * (k + 1) <= r * x
      BY <3>2, TimesLess
    <3>4. r * (k + 1) \in Int
      BY <1>2
    <3>5. QED
      BY <1>1, <1>2, <1>3, <3>3, <3>4
  <2>3. QED
    BY <2>1, <2>2
<1>6. QED
  BY <1>2, <1>4, <1>5 DEF a, k

\* The components of a tax that agree with its percentage share all of it.
LEMMA BreakdownIs ==
  ASSUME PriceSettingsTyped, PartsAgree, NEW l \in LineRecord, l.by \notin skewed
  PROVE  Prices!Breakdown(l) = l.tax * Fine
<1> DEFINE p == parts[l.by]
           r == rate[l.by]
           x == l.tax * Fine
<1>1. l.by \in Taxes /\ l.tax \in Nat
  BY DEF LineRecord
<1>2. x \in Nat
  BY <1>1, PriceConstants
<1>3. r \in 0 .. 100 /\ p \in {<<>>} \cup ((0 .. 100) \X (0 .. 100))
  BY <1>1 DEF PriceSettingsTyped
<1>4. CASE p # <<>> /\ r > 0
  <2>1. p \in (0 .. 100) \X (0 .. 100) /\ p[1] + p[2] = r
    <3>1. l.by \in Taxes \ skewed /\ p # <<>>
      BY <1>1, <1>4
    <3>2. p[1] + p[2] = r
      BY <3>1 DEF PartsAgree
    <3> HIDE DEF p, r
    <3>3. QED
      BY <1>3, <3>1, <3>2
  <2>2. PICK u \in 0 .. 100, v \in 0 .. 100 : p = <<u, v>>
    <3> HIDE DEF p, r
    <3> QED
      BY <2>1
  <2>3. u + v = r /\ p[1] = u /\ p[2] = v /\ DOMAIN p = 1 .. 2
    BY <2>1, <2>2
  <2> DEFINE f == [i \in DOMAIN p |-> x * p[i]]
  <2>4. f = <<x * u, x * v>>
    BY <2>3
  <2>5. Prices!Breakdown(l) = Prices!Total(f) \div r
    BY <1>4 DEF Prices!Breakdown
  <2> HIDE DEF f, p, r
  <2>6. Prices!Total(f) = x * r
    <3> HIDE DEF x
    <3>1. x * u \in Int /\ x * v \in Int /\ x * u + x * v = x * (u + v)
      BY <1>2, <2>2
    <3>2. Prices!Total(<<x * u, x * v>>) = x * u + x * v
      BY <3>1, Pair
    <3>3. QED
      BY <2>3, <2>4, <3>1, <3>2
  <2>7. (x * r) \div r = x
    <3> HIDE DEF x
    <3>1. r \in Nat /\ r >= 1
      BY <1>3, <1>4
    <3>2. QED
      BY <1>2, <3>1, Whole
  <2>8. QED
    BY <2>5, <2>6, <2>7
<1>5. CASE ~(p # <<>> /\ r > 0)
  BY <1>5 DEF Prices!Breakdown
<1>6. QED
  BY <1>4, <1>5


----------------------------------------------------------------------------
(* The amounts of a sale: what holds at every step                         *)

TillRecord == [basket : Baskets, head : HeadRecord, stale : BOOLEAN]

\* A checkout the settings of which have not changed has the totals they give.
Quoted(job) ==
  \/ job = Prices!Closed
  \/ /\ job \in TillRecord
     /\ ~job.stale =>
          \E d \in Nat : job.head = Prices!Totals(Prices!Priced(job.basket), d * Fine)

\* A sale has the lines of its totals, unless they are of other settings, and each of its
\* refunds is one of so much of its lines.
Honest(s) ==
  /\ s \in SaleRecord
  /\ ~s.stale => \E q, d : SoldAs(s, q, d)
  /\ \E asked : RefundedBy(s, asked)

PriceInv ==
  /\ PriceSettingsTyped /\ PartsAgree
  /\ till = [r \in Tills |-> till[r]] /\ \A r \in Tills : Quoted(till[r])
  /\ sold \in Seq(SaleRecord) /\ \A i \in 1 .. Len(sold) : Honest(sold[i])

LEMMA StoredIs ==
  ASSUME NEW h \in HeadRecord
  PROVE  Prices!Stored(h) \in HeadRecord
<1>1. DOMAIN h = {"subtotal", "tax", "discount", "total"}
  BY DEF HeadRecord
<1>2. Prices!Stored(h) = [subtotal |-> Prices!Cents(h.subtotal), tax |-> Prices!Cents(h.tax),
                          discount |-> Prices!Cents(h.discount),
                          total |-> Prices!Cents(h.total)]
  BY <1>1 DEF Prices!Stored
<1>3. \A y \in Nat : Prices!Cents(y) \in Nat
  <2>1. \A y \in Nat : y \in Int /\ y >= 0
    OBVIOUS
  <2>2. QED
    BY <2>1, Rounded
<1>4. \A y \in Int : Prices!Cents(y) \in Int
  BY Rounded
<1>5. h.subtotal \in Nat /\ h.tax \in Nat /\ h.discount \in Nat /\ h.total \in Int
  BY DEF HeadRecord
<1>6. /\ Prices!Cents(h.subtotal) \in Nat /\ Prices!Cents(h.tax) \in Nat
      /\ Prices!Cents(h.discount) \in Nat /\ Prices!Cents(h.total) \in Int
  BY <1>3, <1>4, <1>5
<1>7. QED
  BY <1>2, <1>6 DEF HeadRecord

LEMMA RefundedSame ==
  ASSUME NEW s, NEW u, u.head = s.head, u.lines = s.lines, NEW refund, NEW quantity,
         RefundedAs(s, refund, quantity)
  PROVE  RefundedAs(u, refund, quantity)
<1>1. Prices!RefundLines(u, quantity) = Prices!RefundLines(s, quantity)
  BY DEF Prices!RefundLines
<1>2. \A g : Prices!DiscountShare(u, g) = Prices!DiscountShare(s, g)
  BY DEF Prices!DiscountShare
<1> DEFINE q == Prices!RefundLines(s, quantity)
<1>3. Prices!RefundTotals(u, q) = Prices!RefundTotals(s, q)
  BY <1>2 DEF Prices!RefundTotals
<1>4. QED
  BY <1>1, <1>3 DEF RefundedAs

\* What a checkout computes.
LEMMA CheckoutIs ==
  ASSUME PriceSettingsTyped, NEW basket \in Baskets, NEW d \in Nat
  PROVE  LET q == Prices!PrepareSaleDetails(basket)
             head == Prices!Totals(Prices!Priced(basket), d * Fine)
         IN  /\ q \in Seq(LineRecord) /\ q # <<>>
             /\ head \in HeadRecord /\ head.discount = d * Fine
             /\ head = Prices!Totals(q, d * Fine)
<1> DEFINE q == Prices!PrepareSaleDetails(basket)
           p == Prices!Priced(basket)
           df == d * Fine
           a == Column(q, "net")
           b == Column(q, "tax")
<1>1. /\ q \in Seq(LineRecord) /\ q # <<>> /\ a \in Nat /\ b \in Nat
      /\ Column(p, "net") = a /\ Column(p, "tax") = b
  BY BasketAddsUp
<1>2. df \in Nat
  BY PriceConstants
<1> HIDE DEF q, p, df, a, b
<1>3. /\ Prices!Totals(p, df) = [subtotal |-> a, tax |-> b, discount |-> df, total |-> a + b - df]
      /\ Prices!Totals(q, df) = [subtotal |-> a, tax |-> b, discount |-> df, total |-> a + b - df]
  BY <1>1 DEF Prices!Totals, Column, a, b
<1>4. a + b - df \in Int
  BY <1>1, <1>2
<1>5. [subtotal |-> a, tax |-> b, discount |-> df, total |-> a + b - df] \in HeadRecord
  BY <1>1, <1>2, <1>4 DEF HeadRecord
<1>6. QED
  BY <1>1, <1>3, <1>5 DEF q, p, df

LEMMA PricedSame ==
  ASSUME UNCHANGED <<rate, parts, taxOf, inclusive>>, NEW basket
  PROVE  Prices!Priced(basket)' = Prices!Priced(basket)
BY DEF Prices!Priced, Prices!TaxLine

LEMMA CheckoutKeeps ==
  ASSUME PriceInv, NEW r \in Tills, NEW basket \in Baskets, NEW discount \in Discounts,
         Prices!Checkout(r, basket, discount)
  PROVE  PriceInv'
<1> DEFINE job == [basket |-> basket,
                   head |-> Prices!Totals(Prices!Priced(basket), discount * Fine), stale |-> FALSE]
<1>1. /\ till' = [till EXCEPT ![r] = job]
      /\ UNCHANGED <<rate, parts, taxOf, inclusive, sold, skewed>>
  BY DEF Prices!Checkout, Prices!settings
<1>2. Quoted(job)
  <2>1. discount \in Nat
    BY PriceConstants
  <2>2. job.head \in HeadRecord
    BY <2>1, CheckoutIs DEF PriceInv
  <2>3. job \in TillRecord
    BY <2>2 DEF TillRecord
  <2>4. QED
    BY <2>1, <2>3 DEF Quoted
<1> HIDE DEF job
<1>3. \A u \in Tills : Quoted(till'[u])
  BY <1>1, <1>2 DEF PriceInv
<1>4. \A u \in Tills : Quoted(till[u])'
  <2> SUFFICES ASSUME NEW u \in Tills PROVE Quoted(till[u])'
    OBVIOUS
  <2>1. \A basket2 : Prices!Priced(basket2)' = Prices!Priced(basket2)
    BY <1>1, PricedSame
  <2>2. QED
    BY <1>3, <2>1 DEF Quoted, Prices!Totals, Prices!Closed
<1>5. QED
  BY <1>1, <1>4 DEF PriceInv, PriceSettingsTyped, PartsAgree


LEMMA PricedSaleKeeps ==
  ASSUME PriceInv, NEW r \in Tills, Prices!Sell(r)
  PROVE  PriceInv'
<1> DEFINE job == till[r]
           q == Prices!PrepareSaleDetails(job.basket)
           s == [head |-> Prices!Stored(job.head), lines |-> Prices!Written(q),
                 stale |-> job.stale, refunds |-> <<>>]
<1>1. /\ job # Prices!Closed /\ Prices!ProfitAllowed(q, job.head.discount)
      /\ sold' = Append(sold, s)
      /\ till' = [till EXCEPT ![r] = Prices!Closed]
      /\ UNCHANGED <<rate, parts, taxOf, inclusive, skewed>>
  BY DEF Prices!Sell, Prices!settings
<1>2. job \in TillRecord
  BY <1>1 DEF PriceInv, Quoted
<1>3. job.basket \in Baskets /\ job.head \in HeadRecord /\ job.stale \in BOOLEAN
  BY <1>2 DEF TillRecord
<1>4. q \in Seq(LineRecord) /\ q # <<>>
  BY <1>3, BasketAddsUp DEF PriceInv
<1>5. ~job.stale => \E d \in Nat : SoldAs(s, q, d)
  <2> SUFFICES ASSUME ~job.stale PROVE \E d \in Nat : SoldAs(s, q, d)
    OBVIOUS
  <2>1. PICK d \in Nat : job.head = Prices!Totals(Prices!Priced(job.basket), d * Fine)
    BY <1>1 DEF PriceInv, Quoted
  <2>2. job.head.discount = d * Fine /\ job.head = Prices!Totals(q, d * Fine)
    BY <1>3, <2>1, CheckoutIs DEF PriceInv
  <2> HIDE DEF q, job
  <2>3. /\ s.lines = Prices!Written(q) /\ s.head = Prices!Stored(Prices!Totals(q, d * Fine))
        /\ Prices!ProfitAllowed(q, d * Fine)
    BY <1>1, <2>2
  <2> HIDE DEF s
  <2>4. SoldAs(s, q, d)
    BY <1>4, <2>3 DEF SoldAs
  <2>5. QED
    BY <2>4
<1>6. s \in SaleRecord
  <2>1. Prices!Stored(job.head) \in HeadRecord
    BY <1>3, StoredIs
  <2>2. Prices!Written(q) \in Seq(LineRecord)
    BY <1>4, WrittenIs
  <2>3. <<>> \in Seq(RefundRecord)
    OBVIOUS
  <2> HIDE DEF q, job
  <2>4. QED
    BY <1>3, <2>1, <2>2, <2>3 DEF SaleRecord
<1>7. RefundedBy(s, <<>>)
  BY DEF RefundedBy
<1>8. s.stale = job.stale
  OBVIOUS
<1> HIDE DEF s, q, job
<1>9. Honest(s)
  BY <1>5, <1>6, <1>7, <1>8 DEF Honest
<1>10. sold' \in Seq(SaleRecord) /\ \A i \in 1 .. Len(sold') : Honest(sold'[i])
  <2>1. sold \in Seq(SaleRecord) /\ \A i \in 1 .. Len(sold) : Honest(sold[i])
    BY DEF PriceInv
  <2>2. QED
    BY <1>1, <1>6, <1>9, <2>1
<1>11. \A u \in Tills : Quoted(till[u])'
  <2> SUFFICES ASSUME NEW u \in Tills PROVE Quoted(till[u])'
    OBVIOUS
  <2>1. \A basket : Prices!Priced(basket)' = Prices!Priced(basket)
    BY <1>1, PricedSame
  <2>2. Quoted(till'[u])
    BY <1>1 DEF PriceInv, Quoted
  <2>3. QED
    BY <2>1, <2>2 DEF Quoted, Prices!Totals, Prices!Closed
<1>12. till' = [u \in Tills |-> till'[u]]
  BY <1>1 DEF PriceInv
<1>13. PriceSettingsTyped' /\ PartsAgree'
  BY <1>1 DEF PriceInv, PriceSettingsTyped, PartsAgree
<1>14. (\A i \in 1 .. Len(sold) : Honest(sold[i]))'
  BY <1>10 DEF Honest
<1>15. QED
  BY <1>10, <1>11, <1>12, <1>13, <1>14 DEF PriceInv

LEMMA PricedAbandonKeeps ==
  ASSUME PriceInv, NEW r \in Tills, Prices!Abandon(r)
  PROVE  PriceInv'
<1>1. /\ till' = [till EXCEPT ![r] = Prices!Closed]
      /\ UNCHANGED <<rate, parts, taxOf, inclusive, sold, skewed>>
  BY DEF Prices!Abandon, Prices!settings
<1>2. \A u \in Tills : Quoted(till[u])'
  <2> SUFFICES ASSUME NEW u \in Tills PROVE Quoted(till[u])'
    OBVIOUS
  <2>1. \A basket : Prices!Priced(basket)' = Prices!Priced(basket)
    BY <1>1, PricedSame
  <2>2. Quoted(till'[u])
    BY <1>1 DEF PriceInv, Quoted
  <2>3. QED
    BY <2>1, <2>2 DEF Quoted, Prices!Totals, Prices!Closed
<1>3. till' = [u \in Tills |-> till'[u]]
  BY <1>1 DEF PriceInv
<1>4. QED
  BY <1>1, <1>2, <1>3 DEF PriceInv, PriceSettingsTyped, PartsAgree

\* One more refund of a sale.
LEMMA OneMoreRefund ==
  ASSUME NEW s, Honest(s), NEW quantity \in [DOMAIN s.lines -> Nat], NEW refund,
         RefundedAs(s, refund, quantity),
         NEW u, u = [s EXCEPT !.refunds = Append(@, refund)]
  PROVE  Honest(u)
<1>1. s \in SaleRecord
  BY DEF Honest
<1>2. /\ s.head \in HeadRecord /\ s.lines \in Seq(LineRecord)
      /\ s.refunds \in Seq(RefundRecord) /\ Len(s.refunds) \in Nat
  BY <1>1, SaleIs
<1>3. refund \in RefundRecord
  <2>1. refund.head \in HeadRecord /\ refund.lines \in Seq(RefundLine)
    BY <1>2, RefundIs
  <2>2. refund = [head |-> refund.head, lines |-> refund.lines]
    BY DEF RefundedAs
  <2>3. QED
    BY <2>1, <2>2 DEF RefundRecord
<1>4. Append(s.refunds, refund) \in Seq(RefundRecord)
  BY <1>2, <1>3
<1>5. u \in SaleRecord
  BY <1>1, <1>4 DEF SaleRecord
<1>6. /\ u.head = s.head /\ u.lines = s.lines /\ u.stale = s.stale
      /\ u.refunds = Append(s.refunds, refund)
  BY <1>1 DEF SaleRecord
<1>7. ~u.stale => \E q, d : SoldAs(u, q, d)
  BY <1>6 DEF Honest, SoldAs
<1>8. \E asked : RefundedBy(u, asked)
  <2>1. PICK asked : RefundedBy(s, asked)
    BY DEF Honest
  <2> DEFINE m == Len(s.refunds)
             more == [k \in 1 .. m + 1 |-> IF k <= m THEN asked[k] ELSE quantity]
  <2>2. /\ Len(u.refunds) = m + 1 /\ u.refunds[m + 1] = refund
        /\ \A k \in 1 .. m : u.refunds[k] = s.refunds[k]
    BY <1>2, <1>3, <1>6
  <2>3. \A k \in 1 .. m + 1 : RefundedAs(s, u.refunds[k], more[k])
    <3> SUFFICES ASSUME NEW k \in 1 .. m + 1 PROVE RefundedAs(s, u.refunds[k], more[k])
      OBVIOUS
    <3>1. CASE k <= m
      <4>1. k \in 1 .. m /\ more[k] = asked[k]
        BY <1>2, <3>1
      <4>2. RefundedAs(s, s.refunds[k], asked[k])
        BY <2>1, <4>1 DEF RefundedBy
      <4>3. QED
        BY <2>2, <4>1, <4>2
    <3>2. CASE ~(k <= m)
      <4>1. k = m + 1 /\ more[k] = quantity
        BY <1>2, <3>2
      <4>2. QED
        BY <2>2, <4>1
    <3>3. QED
      BY <3>1, <3>2
  <2> HIDE DEF more, m
  <2>4. \A k \in 1 .. m + 1 : RefundedAs(u, u.refunds[k], more[k])
    <3>1. \A r, w : RefundedAs(s, r, w) => RefundedAs(u, r, w)
      <4>1. u.head = s.head /\ u.lines = s.lines
        BY <1>6
      <4>2. QED
        BY <4>1, RefundedSame, Zenon
    <3>2. QED
      BY <2>3, <3>1, Zenon
  <2>5. RefundedBy(u, more)
    BY <2>2, <2>4 DEF RefundedBy
  <2>6. QED
    BY <2>5
<1>9. QED
  BY <1>5, <1>7, <1>8 DEF Honest

LEMMA CreateRefundInvoiceKeeps ==
  ASSUME PriceInv, NEW s \in DOMAIN sold,
         NEW quantity \in [DOMAIN sold[s].lines
                             -> 0 .. Prices!Total(Prices!Pick(sold[s].lines, "quantity"))],
         Prices!CreateRefundInvoice(s, quantity)
  PROVE  PriceInv'
<1> DEFINE old == sold[s]
           back == Prices!RefundLines(old, quantity)
           refund == [head |-> Prices!Stored(Prices!RefundTotals(old, back)),
                      lines |-> Prices!Written(back)]
           new == [old EXCEPT !.refunds = Append(@, refund)]
<1>1. /\ Prices!RefundTotals(old, back).total > 0
      /\ sold' = [sold EXCEPT ![s].refunds = Append(@, refund)]
      /\ UNCHANGED <<rate, parts, taxOf, inclusive, till, skewed>>
  BY DEF Prices!CreateRefundInvoice, Prices!settings
<1>2. sold' = [sold EXCEPT ![s] = new]
  BY <1>1
<1>3. /\ sold \in Seq(SaleRecord) /\ DOMAIN sold = 1 .. Len(sold)
      /\ \A i \in 1 .. Len(sold) : Honest(sold[i])
  BY DEF PriceInv
<1>4. Honest(old)
  BY <1>3
<1>5. quantity \in [DOMAIN old.lines -> Nat]
  <2> DEFINE f == Prices!Pick(old.lines, "quantity")
             L == 1 .. Len(old.lines)
  <2>1. /\ DOMAIN old.lines = L /\ IsFiniteSet(L)
        /\ \A i \in L : old.lines[i] \in LineRecord
    BY <1>4, SaleIs DEF Honest
  <2>2. DOMAIN f = L /\ \A i \in L : f[i] = old.lines[i].quantity
    BY <2>1 DEF Prices!Pick
  <2>3. \A l \in LineRecord : l.quantity \in Nat
    BY DEF LineRecord
  <2>4. \A i \in L : f[i] \in Nat
    BY <2>1, <2>2, <2>3
  <2>5. quantity \in [DOMAIN old.lines -> 0 .. Prices!Total(f)]
    OBVIOUS
  <2> HIDE DEF f, L, old
  <2>6. Prices!Total(f) \in Nat
    BY <2>1, <2>2, <2>4, TotalIs, SumNat
  <2>7. 0 .. Prices!Total(f) \subseteq Nat
    BY <2>6
  <2>8. QED
    BY <2>5, <2>7
<1>6. RefundedAs(old, refund, quantity)
  <2> HIDE DEF old
  <2> QED
    BY <1>1, <1>5 DEF RefundedAs
<1>7. Honest(new)
  <2> HIDE DEF refund, old
  <2> QED
    BY <1>4, <1>5, <1>6, OneMoreRefund
<1> HIDE DEF old, refund, new
<1>8. /\ sold' \in Seq(SaleRecord) /\ Len(sold') = Len(sold)
      /\ \A i \in 1 .. Len(sold) : Honest(sold'[i])
  <2>1. new \in SaleRecord
    BY <1>7 DEF Honest
  <2>2. QED
    BY <1>2, <1>3, <1>7, <2>1
<1>9. \A u \in Tills : Quoted(till[u])'
  <2> SUFFICES ASSUME NEW u \in Tills PROVE Quoted(till[u])'
    OBVIOUS
  <2>1. \A basket : Prices!Priced(basket)' = Prices!Priced(basket)
    BY <1>1, PricedSame
  <2>2. QED
    BY <1>1, <2>1 DEF PriceInv, Quoted, Prices!Totals, Prices!Closed
<1>10. QED
  BY <1>1, <1>8, <1>9 DEF PriceInv, PriceSettingsTyped, PartsAgree


\* After a change of a setting every open checkout is of other settings.
LEMMA ChangeKeeps ==
  ASSUME PriceInv, Prices!Change, PriceSettingsTyped', PartsAgree'
  PROVE  PriceInv'
<1> DEFINE stale(job) == [job EXCEPT !.stale = TRUE]
<1>1. /\ till' = [r \in Tills |->
                    IF till[r] = Prices!Closed THEN Prices!Closed ELSE stale(till[r])]
      /\ sold' = sold
  BY DEF Prices!Change
<1>2. \A u \in Tills : Quoted(till[u])'
  <2> SUFFICES ASSUME NEW u \in Tills PROVE Quoted(till[u])'
    OBVIOUS
  <2>1. CASE till[u] = Prices!Closed
    <3>1. till'[u] = Prices!Closed
      BY <1>1, <2>1
    <3>2. Prices!Closed' = Prices!Closed
      BY DEF Prices!Closed
    <3>3. QED
      BY <3>1, <3>2 DEF Quoted
  <2>2. CASE till[u] # Prices!Closed
    <3>1. till'[u] = stale(till[u]) /\ till[u] \in TillRecord
      BY <1>1, <2>2 DEF PriceInv, Quoted
    <3>2. till'[u] \in TillRecord /\ till'[u].stale
      BY <3>1 DEF TillRecord
    <3>3. QED
      BY <3>2 DEF Quoted
  <2>3. QED
    BY <2>1, <2>2
<1> HIDE DEF stale
<1>3. till' = [u \in Tills |-> till'[u]]
  BY <1>1
<1>4. QED
  BY <1>1, <1>2, <1>3 DEF PriceInv

LEMMA ReplaceComponentsKeeps ==
  ASSUME PriceInv, NEW t \in Taxes,
         NEW new, new = <<>> \/ (\E a, b \in Rates : new = <<a, b>>),
         Prices!ReplaceComponents(t, new)
  PROVE  PriceInv'
<1>1. /\ Prices!Change /\ parts' = [parts EXCEPT ![t] = new]
      /\ rate' = IF new = <<>> THEN rate ELSE [rate EXCEPT ![t] = Prices!Total(new)]
      /\ skewed' = skewed \ {t} /\ taxOf' = taxOf
      /\ new = <<>> \/ Prices!Total(new) <= 100
  BY DEF Prices!ReplaceComponents
<1>2. PriceSettingsTyped /\ PartsAgree
  BY DEF PriceInv
<1>3. CASE new = <<>>
  <2>1. PriceSettingsTyped'
    BY <1>1, <1>2, <1>3 DEF PriceSettingsTyped
  <2>2. PartsAgree'
    BY <1>1, <1>2, <1>3 DEF PartsAgree, PriceSettingsTyped
  <2>3. QED
    BY <1>1, <2>1, <2>2, ChangeKeeps
<1>4. CASE new # <<>>
  <2>1. PICK a \in Rates, b \in Rates : new = <<a, b>>
    BY <1>4
  <2>2. a \in 0 .. 100 /\ b \in 0 .. 100
    BY PriceConstants
  <2>3. Prices!Total(new) = a + b /\ a + b \in 0 .. 100
    <3>1. Prices!Total(new) = a + b
      BY <2>1, <2>2, Pair
    <3>2. QED
      BY <1>1, <1>4, <2>2, <3>1
  <2>4. rate' = [rate EXCEPT ![t] = a + b] /\ parts' = [parts EXCEPT ![t] = <<a, b>>]
    BY <1>1, <1>4, <2>1, <2>3
  <2>5. PriceSettingsTyped'
    <3>1. rate' \in [Taxes -> 0 .. 100]
      BY <1>2, <2>3, <2>4 DEF PriceSettingsTyped
    <3>2. <<a, b>> \in {<<>>} \cup ((0 .. 100) \X (0 .. 100))
      BY <2>2
    <3>3. parts' \in [Taxes -> {<<>>} \cup ((0 .. 100) \X (0 .. 100))]
      <4> DEFINE Pairs == {<<>>} \cup ((0 .. 100) \X (0 .. 100))
      <4>1. parts \in [Taxes -> Pairs]
        BY <1>2 DEF PriceSettingsTyped
      <4> HIDE DEF Pairs
      <4>2. QED
        BY <2>4, <3>2, <4>1 DEF Pairs
    <3>4. QED
      BY <1>1, <1>2, <3>1, <3>3 DEF PriceSettingsTyped
  <2>6. PartsAgree'
    <3> SUFFICES ASSUME NEW v \in Taxes, v \notin skewed', parts'[v] # <<>>
                 PROVE  parts'[v][1] + parts'[v][2] = rate'[v]
      BY DEF PartsAgree
    <3>1. CASE v = t
      <4>1. parts'[v] = <<a, b>> /\ rate'[v] = a + b
        BY <1>2, <2>4, <3>1 DEF PriceSettingsTyped
      <4>2. QED
        BY <4>1
    <3>2. CASE v # t
      <4>1. parts'[v] = parts[v] /\ rate'[v] = rate[v] /\ v \notin skewed
        BY <1>1, <1>2, <2>4, <3>2 DEF PriceSettingsTyped
      <4>2. QED
        BY <1>2, <4>1 DEF PartsAgree
    <3>3. QED
      BY <3>1, <3>2
  <2>7. QED
    BY <1>1, <2>5, <2>6, ChangeKeeps
<1>5. QED
  BY <1>3, <1>4

LEMMA SetPercentageKeeps ==
  ASSUME PriceInv, NEW t \in Taxes, NEW percent \in Rates, Prices!SetPercentage(t, percent)
  PROVE  PriceInv'
<1>1. /\ Prices!Change /\ rate' = [rate EXCEPT ![t] = percent]
      /\ skewed' = IF parts[t] # <<>> THEN skewed \cup {t} ELSE skewed
      /\ parts' = parts /\ taxOf' = taxOf
  BY DEF Prices!SetPercentage
<1>2. PriceSettingsTyped /\ PartsAgree /\ percent \in 0 .. 100
  BY PriceConstants DEF PriceInv
<1>3. PriceSettingsTyped'
  BY <1>1, <1>2 DEF PriceSettingsTyped
<1>4. PartsAgree'
  <2> SUFFICES ASSUME NEW v \in Taxes, v \notin skewed', parts'[v] # <<>>
               PROVE  parts'[v][1] + parts'[v][2] = rate'[v]
    BY DEF PartsAgree
  <2>1. v # t /\ v \notin skewed
    BY <1>1
  <2>2. rate'[v] = rate[v] /\ parts'[v] = parts[v]
    BY <1>1, <1>2, <2>1 DEF PriceSettingsTyped
  <2>3. QED
    BY <1>2, <2>1, <2>2 DEF PartsAgree
<1>5. QED
  BY <1>1, <1>3, <1>4, ChangeKeeps

LEMMA AssignTaxKeeps ==
  ASSUME PriceInv, NEW g \in Sellable, NEW t \in Taxes, Prices!AssignTax(g, t)
  PROVE  PriceInv'
<1>1. /\ Prices!Change /\ taxOf' = [taxOf EXCEPT ![g] = t]
      /\ rate' = rate /\ parts' = parts /\ skewed' = skewed
  BY DEF Prices!AssignTax
<1>2. PriceSettingsTyped' /\ PartsAgree'
  BY <1>1 DEF PriceInv, PriceSettingsTyped, PartsAgree
<1>3. QED
  BY <1>1, <1>2, ChangeKeeps

LEMMA SetPriceModeKeeps ==
  ASSUME PriceInv, Prices!SetPriceMode
  PROVE  PriceInv'
<1>1. Prices!Change /\ taxOf' = taxOf /\ rate' = rate /\ parts' = parts /\ skewed' = skewed
  BY DEF Prices!SetPriceMode
<1>2. PriceSettingsTyped' /\ PartsAgree'
  BY <1>1 DEF PriceInv, PriceSettingsTyped, PartsAgree
<1>3. QED
  BY <1>1, <1>2, ChangeKeeps

LEMMA PricesRest ==
  ASSUME PriceInv, UNCHANGED prices
  PROVE  PriceInv'
<1>1. UNCHANGED <<rate, parts, taxOf, inclusive, sold, till, skewed>>
  BY DEF prices
<1>2. \A u \in Tills : Quoted(till[u])'
  <2> SUFFICES ASSUME NEW u \in Tills PROVE Quoted(till[u])'
    OBVIOUS
  <2>1. \A basket : Prices!Priced(basket)' = Prices!Priced(basket)
    BY <1>1, PricedSame
  <2>2. QED
    BY <1>1, <2>1 DEF PriceInv, Quoted, Prices!Totals, Prices!Closed
<1>3. QED
  BY <1>1, <1>2 DEF PriceInv, PriceSettingsTyped, PartsAgree

LEMMA PricesKeep ==
  ASSUME PriceInv, [Prices!PricingNext]_prices
  PROVE  PriceInv'
<1>1. ASSUME NEW r \in Tills, NEW basket \in Baskets, NEW discount \in Discounts,
             Prices!Checkout(r, basket, discount)
      PROVE  PriceInv'
  BY <1>1, CheckoutKeeps
<1>2. ASSUME NEW r \in Tills, Prices!Sell(r) \/ Prices!Abandon(r)
      PROVE  PriceInv'
  BY <1>2, PricedSaleKeeps, PricedAbandonKeeps
<1>3. ASSUME NEW s \in DOMAIN sold,
             NEW quantity \in [DOMAIN sold[s].lines
                                 -> 0 .. Prices!Total(Prices!Pick(sold[s].lines, "quantity"))],
             Prices!CreateRefundInvoice(s, quantity)
      PROVE  PriceInv'
  BY <1>3, CreateRefundInvoiceKeeps
<1>4. ASSUME NEW t \in Taxes,
             \/ \E a, b \in Rates : Prices!ReplaceComponents(t, <<a, b>>)
             \/ Prices!ReplaceComponents(t, <<>>)
      PROVE  PriceInv'
  BY <1>4, ReplaceComponentsKeeps
<1>5. ASSUME NEW t \in Taxes,
             \/ \E percent \in Rates : Prices!SetPercentage(t, percent)
             \/ \E g \in Sellable : Prices!AssignTax(g, t)
      PROVE  PriceInv'
  BY <1>5, SetPercentageKeeps, AssignTaxKeeps
<1>6. CASE Prices!SetPriceMode
  BY <1>6, SetPriceModeKeeps
<1>7. CASE UNCHANGED prices
  BY <1>7, PricesRest
<1>8. QED
  BY <1>1, <1>2, <1>3, <1>4, <1>5, <1>6, <1>7 DEF Prices!PricingNext

LEMMA PricesStart == Prices!PricingInit => PriceInv
<1> SUFFICES ASSUME Prices!PricingInit PROVE PriceInv
  OBVIOUS
<1>1. Rates \subseteq 0 .. 100
  BY PriceConstants
<1>2. PriceSettingsTyped
  BY <1>1 DEF Prices!PricingInit, PriceSettingsTyped
<1>3. PartsAgree
  BY DEF Prices!PricingInit, PartsAgree
<1>4. till = [r \in Tills |-> till[r]] /\ \A r \in Tills : Quoted(till[r])
  BY DEF Prices!PricingInit, Quoted
<1>5. sold \in Seq(SaleRecord) /\ Len(sold) = 0
  BY DEF Prices!PricingInit
<1>6. QED
  BY <1>2, <1>3, <1>4, <1>5 DEF PriceInv

\* The head and the lines of a sale, of its refunds and of its taxes.
LEMMA HonestAddsUp ==
  ASSUME PriceInv, NEW s \in DOMAIN sold
  PROVE  LET u == sold[s]
             n == Len(u.lines)
             charged == {i \in 1 .. n : u.lines[i].net > 0}
         IN  /\ \A k \in DOMAIN u.refunds : Prices!HeadIsLines(u.refunds[k])
             /\ \A i \in 1 .. n : u.lines[i].by \notin skewed =>
                  Prices!Breakdown(u.lines[i]) = u.lines[i].tax * Fine
             /\ ~u.stale =>
                  /\ Prices!HeadIsLines(u)
                  /\ Prices!AllBack(u) => Prices!GivesBack(u)
                  /\ AllowLoss \/ charged = {} \/
                       u.head.subtotal - u.head.discount + n >=
                         Prices!Total([i \in charged |-> u.lines[i].cost]) \div Fine
<1> DEFINE u == sold[s]
           n == Len(u.lines)
           charged == {i \in 1 .. n : u.lines[i].net > 0}
<1>1. Honest(u)
  BY DEF PriceInv
<1> HIDE DEF u
<1>2. u \in SaleRecord
  BY <1>1 DEF Honest
<1>3. /\ u.head \in HeadRecord /\ u.lines \in Seq(LineRecord)
      /\ DOMAIN u.refunds = 1 .. Len(u.refunds)
      /\ \A i \in 1 .. n : u.lines[i] \in LineRecord
  BY <1>2, SaleIs
<1>4. PICK asked : RefundedBy(u, asked)
  BY <1>1 DEF Honest
<1>5. ASSUME NEW k \in DOMAIN u.refunds PROVE Prices!HeadIsLines(u.refunds[k])
  <2>1. RefundedAs(u, u.refunds[k], asked[k])
    BY <1>3, <1>4 DEF RefundedBy
  <2>2. QED
    BY <1>3, <2>1, RefundIs
<1>6. ASSUME NEW i \in 1 .. n, u.lines[i].by \notin skewed
      PROVE  Prices!Breakdown(u.lines[i]) = u.lines[i].tax * Fine
  <2>1. u.lines[i] \in LineRecord
    BY <1>3
  <2>2. QED
    BY <1>6, <2>1, BreakdownIs DEF PriceInv
<1>7. ASSUME ~u.stale
      PROVE  /\ Prices!HeadIsLines(u)
             /\ Prices!AllBack(u) => Prices!GivesBack(u)
             /\ AllowLoss \/ charged = {} \/
                  u.head.subtotal - u.head.discount + n >=
                    Prices!Total([i \in charged |-> u.lines[i].cost]) \div Fine
  <2>1. PICK q, d : SoldAs(u, q, d)
    BY <1>1, <1>7 DEF Honest
  <2>2. Prices!HeadIsLines(u)
    <3> DEFINE df == d * Fine
    <3>1. /\ q \in Seq(LineRecord) /\ d \in Nat /\ u.lines = Prices!Written(q)
          /\ u.head = Prices!Stored(Prices!Totals(q, df))
      BY <2>1 DEF SoldAs
    <3>2. df \in Nat
      BY <3>1, PriceConstants
    <3> HIDE DEF df
    <3>3. QED
      BY <3>1, <3>2, HeadAddsUp
  <2>3. Prices!AllBack(u) => Prices!GivesBack(u)
    BY <1>2, <1>4, <2>1, GivesBackIs
  <2>4. ~AllowLoss => \/ charged = {}
                      \/ u.head.subtotal - u.head.discount + n >=
                           Prices!Total([i \in charged |-> u.lines[i].cost]) \div Fine
    BY <2>1, NoLoss
  <2>5. QED
    BY <2>2, <2>3, <2>4
<1>8. QED
  BY <1>5, <1>6, <1>7 DEF u

\* Whatever the prices, discounts, taxes and combos of a shop, and however settings
\* change between the checkout and the transaction of a sale: refund invoices have the
\* totals of their lines, and so do sales no setting changed under; all refunds of such a
\* sale together give back its total, but for the roundings of its columns; it was not
\* sold at a loss where that is not allowed; and the breakdown of a tax adds up unless its
\* percentage was changed without its components (CreateSaleWithOptions,
\* CreateRefundInvoice, computeSaleTaxBreakdown, enforceNegativeProfitPolicyTx).
THEOREM AmountsAlwaysAddUp == ShopSpec => []AmountsAddUp
<1> DEFINE ShopStep == [ShopNext]_<<part, stock, transport, docs, edit, offers, goods, prices>>
<1>1. ShopInit => PriceInv
  BY PricesStart DEF ShopInit
<1>2. PriceInv /\ ShopStep => PriceInv'
  <2> SUFFICES ASSUME PriceInv, ShopStep PROVE PriceInv'
    OBVIOUS
  <2>1. [Prices!PricingNext]_prices
    BY DEF ShopNext
  <2> QED
    BY <2>1, PricesKeep
<1>3. PriceInv => AmountsAddUp
  <2> SUFFICES ASSUME PriceInv PROVE Prices!AmountsAddUp
    BY DEF AmountsAddUp
  <2> QED
    BY HonestAddsUp DEF Prices!AmountsAddUp
<1> QED
  BY <1>1, <1>2, <1>3, PTL DEF ShopSpec
=============================================================================
