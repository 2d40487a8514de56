------------------------------ MODULE AppProofs ------------------------------
(***************************************************************************)
(* Theorems of what the app relies on while it may be offline or signed    *)
(* out: ClientOutbox, for any number of sales, attempts, losses, network   *)
(* changes, crashes and discards, and Sessions, for any number of logins,  *)
(* of calls of the app and of sessions that the company allows.            *)
(***************************************************************************)
EXTENDS ClientOutbox, Sessions, FiniteSetTheorems, TLAPS

Ops == LoopOps \cup {"insert", "recount", "discard"}

\* A sale that was stored has its fate from the outbox, and from nobody else.
Stored == {"queued", "synced", "rejected"}

\* What the server has of a sale, by how far the till is with it: nothing before the
\* checkout, nothing but the request's own while it is posted, and what was accepted.
Delivery ==
  \A i \in Sales :
    /\ made[i] <= 1
    /\ request[i] = "accepted" => made[i] = 1
    /\ fate[i] = "synced" => made[i] = 1
    /\ fate[i] \in {"new", "declined"} => made[i] = 0 /\ strays[i] = 0 /\ request[i] = "none"
    /\ fate[i] = "posting" => /\ strays[i] = 0
                              /\ request[i] # "accepted" => made[i] = 0

\* The rows are of sales that were stored, and one that is queued has a row.
Table ==
  /\ \A i \in ToSet(rows) : fate[i] \in Stored
  /\ \A i \in Sales : fate[i] = "queued" => Queued(i) \/ i \in discarded

\* The row that processQueue is at: it has attempts left until its failure is marked,
\* and an answer when it is marked or deleted.
AtRow ==
  /\ current # None <=> syncer \in {"send", "mark", "delete"}
  /\ current # None => fate[current] \in Stored
  /\ syncer \in {"mark", "delete"} => fate[current] # "queued"
  /\ syncer \in {"send", "mark"} => attempts[current] < MaxAttempts
  /\ \A i \in Sales : request[i] # "none" =>
       fate[i] = "posting" \/ (syncer = "send" /\ current = i)

\* A queue q of queries, when the fates are f, processQueue awaits s and D is discarded:
\* the query that processQueue awaits, an insert of each sale that is being saved, and
\* deletions of what was discarded.
QueueOK(q, f, s, D) ==
  /\ \A k \in DOMAIN q :
       /\ q[k].op \in LoopOps => q[k].op = s
       /\ q[k].op = "insert" => q[k].sale \in Sales /\ f[q[k].sale] = "saving"
       /\ q[k].op = "discard" => q[k].sale \in D
  /\ s \in LoopOps => \E k \in DOMAIN q : q[k].op \in LoopOps
  /\ \A j, k \in DOMAIN q : q[j].op \in LoopOps /\ q[k].op \in LoopOps => j = k
  /\ \A j, k \in DOMAIN q :
       q[j].op = "insert" /\ q[k].op = "insert" /\ q[j].sale = q[k].sale => j = k

Queries == QueueOK(db, fate, syncer, discarded)

OutboxInv == TypeOK /\ Delivery /\ Table /\ AtRow /\ Queries

----------------------------------------------------------------------------
(* Queues of queries                                                       *)

QueryType == [op : LoopOps \cup {"insert", "recount", "discard"}, sale : Sales \cup {None}]

\* An answered query leaves the queue as it should be, with processQueue's, if it was it,
\* gone.
LEMMA QueueTail ==
  ASSUME NEW q \in Seq(QueryType), q # <<>>, NEW f, NEW s, NEW D, QueueOK(q, f, s, D)
  PROVE  /\ Head(q) = q[1] /\ 1 \in DOMAIN q /\ Head(q) \in QueryType
         /\ Tail(q) \in Seq(QueryType)
         /\ Head(q).op \notin LoopOps => QueueOK(Tail(q), f, s, D)
         /\ Head(q).op \in LoopOps => \A t : t \notin LoopOps => QueueOK(Tail(q), f, t, D)
<1>1. /\ Head(q) = q[1] /\ 1 \in DOMAIN q /\ Head(q) \in QueryType
      /\ Tail(q) \in Seq(QueryType)
      /\ DOMAIN Tail(q) = 1..(Len(q) - 1) /\ DOMAIN q = 1..Len(q) /\ Len(q) \in Nat
      /\ \A k \in DOMAIN Tail(q) : k + 1 \in DOMAIN q /\ Tail(q)[k] = q[k + 1]
  OBVIOUS
<1>2. ASSUME NEW t, \/ Head(q).op \notin LoopOps /\ t = s
                    \/ Head(q).op \in LoopOps /\ t \notin LoopOps
      PROVE  QueueOK(Tail(q), f, t, D)
  <2>1. \A k \in DOMAIN q : k # 1 => k - 1 \in DOMAIN Tail(q) /\ Tail(q)[k - 1] = q[k]
    BY <1>1
  <2>2. \A j, k \in DOMAIN Tail(q) : j + 1 = k + 1 => j = k
    BY <1>1
  <2>3. \A k \in DOMAIN Tail(q) : k + 1 # 1
    BY <1>1
  <2>4. t \in LoopOps => \E k \in DOMAIN Tail(q) : Tail(q)[k].op \in LoopOps
    BY <1>1, <1>2, <2>1 DEF QueueOK
  <2>5. \A k \in DOMAIN Tail(q) :
          /\ Tail(q)[k].op \in LoopOps => Tail(q)[k].op = t
          /\ Tail(q)[k].op = "insert" => Tail(q)[k].sale \in Sales /\ f[Tail(q)[k].sale] = "saving"
          /\ Tail(q)[k].op = "discard" => Tail(q)[k].sale \in D
    BY <1>1, <1>2, <2>3 DEF QueueOK
  <2>6. QED
    BY <1>1, <2>2, <2>4, <2>5 DEF QueueOK
<1>3. QED
  BY <1>1, <1>2

\* A query that is issued is one that may be.
LEMMA QueueAppend ==
  ASSUME NEW q \in Seq(QueryType), NEW f, NEW s, NEW D, QueueOK(q, f, s, D),
         NEW x \in QueryType, NEW g, NEW t, NEW E,
         \A k \in DOMAIN q : q[k].op = "insert" => g[q[k].sale] = "saving",
         D \subseteq E,
         IF x.op \in LoopOps THEN s \notin LoopOps /\ t = x.op ELSE t = s,
         x.op = "insert" => x.sale \in Sales /\ f[x.sale] # "saving" /\ g[x.sale] = "saving",
         x.op = "discard" => x.sale \in E
  PROVE  Append(q, x) \in Seq(QueryType) /\ QueueOK(Append(q, x), g, t, E)
<1> DEFINE r == Append(q, x)
           n == Len(q) + 1
<1>1. /\ r \in Seq(QueryType) /\ DOMAIN r = 1..n /\ DOMAIN q = 1..(n - 1) /\ n \in Nat
      /\ r[n] = x /\ n \in DOMAIN r
      /\ \A k \in DOMAIN r : k # n => k \in DOMAIN q /\ r[k] = q[k]
      /\ \A k \in DOMAIN q : k \in DOMAIN r /\ r[k] = q[k]
  OBVIOUS
<1> HIDE DEF r, n
<1>2. \A k \in DOMAIN r :
        /\ r[k].op \in LoopOps => r[k].op = t
        /\ r[k].op = "insert" => r[k].sale \in Sales /\ g[r[k].sale] = "saving"
        /\ r[k].op = "discard" => r[k].sale \in E
  BY <1>1 DEF QueueOK
<1>3. t \in LoopOps => \E k \in DOMAIN r : r[k].op \in LoopOps
  BY <1>1 DEF QueueOK
<1>4. \A j, k \in DOMAIN r : r[j].op \in LoopOps /\ r[k].op \in LoopOps => j = k
  BY <1>1 DEF QueueOK
<1>5. \A j, k \in DOMAIN r :
        r[j].op = "insert" /\ r[k].op = "insert" /\ r[j].sale = r[k].sale => j = k
  BY <1>1 DEF QueueOK
<1>6. QED
  BY <1>1, <1>2, <1>3, <1>4, <1>5 DEF QueueOK, r

\* processQueue issues its first query, or does nothing.
LEMMA QueueProcessed ==
  ASSUME NEW q \in Seq(QueryType), NEW on \in BOOLEAN, ProcessQueue(on, q),
         QueueOK(q, fate, syncer, discarded)
  PROVE  /\ db' \in Seq(QueryType) /\ QueueOK(db', fate, syncer', discarded)
         /\ syncer' = syncer \/ (syncer = "off" /\ syncer' = "next")
<1>1. CASE on /\ syncer = "off"
  <2>1. syncer' = "next" /\ db' = Append(q, Query("next", None))
    BY <1>1 DEF ProcessQueue
  <2>2. Query("next", None) \in QueryType /\ Query("next", None).op = "next"
    BY DEF Query, QueryType, LoopOps
  <2>3. \A k \in DOMAIN q : q[k].op = "insert" => fate[q[k].sale] = "saving"
    BY DEF QueueOK
  <2>4. QED
    BY <1>1, <2>1, <2>2, <2>3, QueueAppend DEF LoopOps
<1>2. CASE ~(on /\ syncer = "off")
  BY <1>2 DEF ProcessQueue
<1>3. QED
  BY <1>1, <1>2

\* The table without the row of a sale has the others.
LEMMA RowsDeleted ==
  ASSUME rows \in Seq(Sales), NEW i, DeleteRow(i)
  PROVE  /\ rows' \in Seq(Sales)
         /\ ToSet(rows') \subseteq ToSet(rows) /\ ToSet(rows) \subseteq ToSet(rows') \cup {i}
<1>1. CASE UNCHANGED rows
  BY <1>1
<1>2. ASSUME NEW k \in DOMAIN rows, rows[k] = i, rows' = RemoveAt(rows, k)
      PROVE  /\ rows' \in Seq(Sales)
             /\ ToSet(rows') \subseteq ToSet(rows)
             /\ ToSet(rows) \subseteq ToSet(rows') \cup {i}
  <2>1. /\ rows' \in Seq(Sales) /\ DOMAIN rows' = 1..(Len(rows) - 1)
        /\ DOMAIN rows = 1..Len(rows) /\ Len(rows) \in Nat
        /\ \A j \in DOMAIN rows' : rows'[j] = IF j < k THEN rows[j] ELSE rows[j + 1]
    BY <1>2 DEF RemoveAt
  <2>2. \A j \in DOMAIN rows' : \E l \in DOMAIN rows : rows'[j] = rows[l]
    <3> TAKE j \in DOMAIN rows'
    <3>1. CASE j < k
      BY <2>1, <3>1
    <3>2. CASE ~(j < k)
      BY <2>1, <3>2
    <3>3. QED
      BY <3>1, <3>2
  <2>3. \A l \in DOMAIN rows : l # k => \E j \in DOMAIN rows' : rows'[j] = rows[l]
    <3> TAKE l \in DOMAIN rows
    <3>1. CASE l < k
      <4>1. l \in DOMAIN rows' /\ rows'[l] = rows[l]
        BY <2>1, <3>1
      <4>2. QED
        BY <4>1
    <3>2. CASE l > k
      <4>1. l - 1 \in DOMAIN rows' /\ rows'[l - 1] = rows[l]
        BY <2>1, <3>2
      <4>2. QED
        BY <4>1
    <3>3. QED
      BY <2>1, <3>1, <3>2
  <2>4. QED
    BY <1>2, <2>1, <2>2, <2>3 DEF ToSet
<1>3. QED
  BY <1>1, <1>2 DEF DeleteRow

----------------------------------------------------------------------------
(* The actions, in the order of ClientOutbox                               *)

\* The oldest query, and what is left of the others.
LEMMA Oldest ==
  ASSUME OutboxInv, NEW op, Answers(op)
  PROVE  /\ db # <<>> /\ Head(db).op = op /\ Head(db) \in QueryType
         /\ Tail(db) \in Seq(QueryType)
         /\ op \notin LoopOps => QueueOK(Tail(db), fate, syncer, discarded)
         /\ op \in LoopOps => /\ syncer = op
                              /\ \A t : t \notin LoopOps => QueueOK(Tail(db), fate, t, discarded)
         /\ op = "insert" => /\ Head(db).sale \in Sales /\ fate[Head(db).sale] = "saving"
                             /\ \A k \in DOMAIN Tail(db) : Tail(db)[k].op = "insert" =>
                                  Tail(db)[k].sale # Head(db).sale
         /\ op = "discard" => Head(db).sale \in discarded
<1>1. db \in Seq(QueryType) /\ db # <<>> /\ Head(db).op = op
  BY DEF OutboxInv, TypeOK, QueryType, Answers
<1>2. QueueOK(db, fate, syncer, discarded)
  BY DEF OutboxInv, Queries
<1>3. /\ Head(db) = db[1] /\ 1 \in DOMAIN db /\ Head(db) \in QueryType
      /\ Tail(db) \in Seq(QueryType)
      /\ op \notin LoopOps => QueueOK(Tail(db), fate, syncer, discarded)
      /\ op \in LoopOps => \A t : t \notin LoopOps => QueueOK(Tail(db), fate, t, discarded)
  BY <1>1, <1>2, QueueTail
<1>4. \A k \in DOMAIN Tail(db) : k + 1 \in DOMAIN db /\ k + 1 # 1 /\ Tail(db)[k] = db[k + 1]
  BY <1>1
<1>5. QED
  BY <1>1, <1>2, <1>3, <1>4 DEF QueueOK

\* A query follows the answered one.
LEMMA Following ==
  ASSUME OutboxInv, NEW q \in Seq(QueryType), NEW op \in LoopOps, NEW i \in Sales \cup {None},
         NEW t, t \notin LoopOps, NEW g, QueueOK(q, g, t, discarded)
  PROVE  /\ Append(q, Query(op, i)) \in Seq(QueryType)
         /\ QueueOK(Append(q, Query(op, i)), g, op, discarded)
<1>1. Query(op, i) \in QueryType /\ Query(op, i).op = op
  BY DEF Query, QueryType
<1>2. \A k \in DOMAIN q : q[k].op = "insert" => g[q[k].sale] = "saving"
  BY DEF QueueOK
<1>3. QED
  BY <1>1, <1>2, QueueAppend DEF LoopOps

\* The sale begins to be saved.
LEMMA Saving ==
  ASSUME OutboxInv, NEW i \in Sales, fate[i] # "saving",
         fate' = [fate EXCEPT ![i] = "saving"], db' = Append(db, Query("insert", i)),
         UNCHANGED <<syncer, discarded>>
  PROVE  db' \in Seq(QueryType) /\ Queries'
<1>1. Query("insert", i) \in QueryType /\ Query("insert", i).op = "insert"
      /\ Query("insert", i).sale = i
  BY DEF Query, QueryType
<1>2. db \in Seq(QueryType) /\ QueueOK(db, fate, syncer, discarded) /\ fate'[i] = "saving"
  BY DEF OutboxInv, TypeOK, Queries, QueryType
<1>3. \A k \in DOMAIN db : db[k].op = "insert" => fate'[db[k].sale] = "saving"
  BY <1>2 DEF QueueOK, OutboxInv, TypeOK
<1>4. /\ Append(db, Query("insert", i)) \in Seq(QueryType)
      /\ QueueOK(Append(db, Query("insert", i)), fate', syncer, discarded)
  BY <1>1, <1>2, <1>3, QueueAppend DEF LoopOps
<1>5. QED
  BY <1>4 DEF Queries

\* Another fate than "saving" becomes yet another.
LEMMA QueueFate ==
  ASSUME OutboxInv, NEW q, NEW t, QueueOK(q, fate, t, discarded), NEW i \in Sales, NEW g,
         g = [fate EXCEPT ![i] = g[i]],
         \A k \in DOMAIN q : q[k].op = "insert" => q[k].sale # i
  PROVE  QueueOK(q, g, t, discarded)
BY DEF QueueOK, OutboxInv, TypeOK

LEMMA RowsTyped == TypeOK => ToSet(rows) \subseteq Sales
BY DEF TypeOK, ToSet

LEMMA CheckoutStays ==
  ASSUME OutboxConstants, OutboxInv, NEW i \in Sales,
         Checkout(i) \/ PostAnswered(i) \/ PostFails(i)
  PROVE  OutboxInv'
<1>0. /\ fate \in [Sales -> {"new", "posting", "saving", "queued", "synced", "declined",
                             "rejected", "unfinished"}]
      /\ request \in [Sales -> {"none", "sent", "creating", "accepted", "refused"}]
      /\ strays \in [Sales -> Nat] /\ made \in [Sales -> Nat]
  BY DEF OutboxInv, TypeOK
<1>1. CASE Checkout(i) /\ online
  <2>1. /\ fate[i] = "new" /\ fate' = [fate EXCEPT ![i] = "posting"]
        /\ request' = [request EXCEPT ![i] = "sent"]
        /\ UNCHANGED <<db, rows, attempts, syncer, current, online, probing, link, strays, made,
                       losses, flaps, crashes, discarded>>
    BY <1>1 DEF Checkout, bounds
  <2>2. TypeOK' /\ Delivery'
    BY <1>0, <2>1 DEF OutboxInv, TypeOK, Delivery
  <2>3. Table' /\ AtRow'
    BY <1>0, <2>1 DEF OutboxInv, TypeOK, Table, AtRow, Stored, Queued, ToSet
  <2>4. Queries'
    BY <1>0, <2>1 DEF OutboxInv, Queries, QueueOK
  <2>5. QED
    BY <2>2, <2>3, <2>4 DEF OutboxInv
<1>2. CASE Checkout(i) /\ ~online
  <2>1. /\ fate[i] = "new" /\ fate' = [fate EXCEPT ![i] = "saving"]
        /\ db' = Append(db, Query("insert", i))
        /\ UNCHANGED <<rows, attempts, syncer, current, online, probing, link, request, strays,
                       made, losses, flaps, crashes, discarded>>
    BY <1>2 DEF Checkout, bounds
  <2>2. db' \in Seq(QueryType) /\ Queries'
    BY <2>1, Saving
  <2>3. TypeOK' /\ Delivery'
    BY <1>0, <2>1, <2>2 DEF OutboxInv, TypeOK, Delivery, QueryType
  <2>4. Table' /\ AtRow'
    BY <1>0, <2>1 DEF OutboxInv, TypeOK, Table, AtRow, Delivery, Stored, Queued, ToSet
  <2>5. QED
    BY <2>2, <2>3, <2>4 DEF OutboxInv
<1>3. CASE PostAnswered(i)
  <2>1. /\ fate[i] = "posting" /\ request' = [request EXCEPT ![i] = "none"]
        /\ \/ request[i] = "accepted" /\ fate' = [fate EXCEPT ![i] = "synced"]
           \/ request[i] = "refused" /\ fate' = [fate EXCEPT ![i] = "declined"]
        /\ UNCHANGED <<db, rows, attempts, syncer, current, online, probing, link, strays, made,
                       losses, flaps, crashes, discarded>>
    BY <1>3 DEF PostAnswered, Answered, bounds
  <2>2. TypeOK' /\ Delivery'
    BY <1>0, <2>1 DEF OutboxInv, TypeOK, Delivery
  <2>3. fate'[i] \in {"synced", "declined"} /\ \A j \in Sales : j # i => fate'[j] = fate[j]
    BY <1>0, <2>1
  <2>4. Table'
    <3>1. i \notin ToSet(rows)
      BY <2>1 DEF OutboxInv, Table, Stored
    <3>2. ToSet(rows) \subseteq Sales
      BY RowsTyped DEF OutboxInv
    <3>3. QED
      BY <2>1, <2>3, <3>1, <3>2 DEF OutboxInv, Table, Stored, Queued
  <2>5. AtRow'
    BY <1>0, <2>1, <2>3 DEF OutboxInv, TypeOK, AtRow, Stored
  <2>6. Queries'
    BY <1>0, <2>1 DEF OutboxInv, Queries, QueueOK
  <2>7. QED
    BY <2>2, <2>4, <2>5, <2>6 DEF OutboxInv
<1>4. CASE PostFails(i)
  <2>1. /\ fate[i] = "posting" /\ fate' = [fate EXCEPT ![i] = "saving"]
        /\ db' = Append(db, Query("insert", i))
        /\ request' = [request EXCEPT ![i] = "none"]
        /\ strays' = [strays EXCEPT ![i] = @ + IF request[i] \in {"sent", "creating"} THEN 1 ELSE 0]
        /\ losses' \in 0..MaxLosses
        /\ UNCHANGED <<rows, attempts, syncer, current, online, probing, link, made, flaps,
                       crashes, discarded>>
    BY <1>4 DEF PostFails, Abandon, NetworkError, OutboxInv, TypeOK, OutboxConstants
  <2>2. db' \in Seq(QueryType) /\ Queries'
    BY <2>1, Saving
  <2>3. TypeOK' /\ Delivery'
    BY <1>0, <2>1, <2>2 DEF OutboxInv, TypeOK, Delivery, QueryType
  <2>4. Table' /\ AtRow'
    BY <1>0, <2>1 DEF OutboxInv, TypeOK, Table, AtRow, Stored, Queued, ToSet
  <2>5. QED
    BY <2>2, <2>3, <2>4 DEF OutboxInv
<1>5. QED
  BY <1>1, <1>2, <1>3, <1>4

\* What the actions of the outbox read of the state.
LEMMA Typed ==
  ASSUME OutboxInv
  PROVE  /\ fate \in [Sales -> {"new", "posting", "saving", "queued", "synced", "declined",
                                "rejected", "unfinished"}]
         /\ request \in [Sales -> {"none", "sent", "creating", "accepted", "refused"}]
         /\ strays \in [Sales -> Nat] /\ made \in [Sales -> Nat]
         /\ attempts \in [Sales -> 0..MaxAttempts]
         /\ rows \in Seq(Sales) /\ ToSet(rows) \subseteq Sales
         /\ db \in Seq(QueryType) /\ QueueOK(db, fate, syncer, discarded)
         /\ current # None => current \in Sales
         /\ syncer \in LoopOps \cup {"off", "send"} /\ online \in BOOLEAN
BY RowsTyped DEF OutboxInv, TypeOK, Queries, QueryType

LEMMA InsertStays ==
  ASSUME OutboxConstants, OutboxInv, RowInserted \/ Enqueued
  PROVE  OutboxInv'
<1>1. CASE RowInserted
  <2> DEFINE i == Head(db).sale
  <2>1. /\ Answers("insert") /\ rows' = Append(rows, i) /\ fate' = [fate EXCEPT ![i] = "queued"]
        /\ db' = Append(Tail(db), Query("recount", None))
        /\ UNCHANGED <<attempts, syncer, current, online, probing, link, request, strays, made,
                       losses, flaps, crashes, discarded>>
    BY <1>1 DEF RowInserted, remote, bounds
  <2>2. /\ i \in Sales /\ fate[i] = "saving" /\ Tail(db) \in Seq(QueryType)
        /\ QueueOK(Tail(db), fate, syncer, discarded)
        /\ \A k \in DOMAIN Tail(db) : Tail(db)[k].op = "insert" => Tail(db)[k].sale # i
    BY <2>1, Oldest DEF LoopOps
  <2> HIDE DEF i
  <2>3. fate'[i] = "queued" /\ \A j \in Sales : j # i => fate'[j] = fate[j]
    BY <2>1, <2>2, Typed
  <2>4. QueueOK(Tail(db), fate', syncer, discarded)
    BY <2>1, <2>2, <2>3, QueueFate
  <2>5. Query("recount", None) \in QueryType /\ Query("recount", None).op = "recount"
    BY DEF Query, QueryType
  <2>6. \A k \in DOMAIN Tail(db) :
          Tail(db)[k].op = "insert" => fate'[Tail(db)[k].sale] = "saving"
    BY <2>4 DEF QueueOK
  <2>7. db' \in Seq(QueryType) /\ Queries'
    <3>1. /\ Append(Tail(db), Query("recount", None)) \in Seq(QueryType)
          /\ QueueOK(Append(Tail(db), Query("recount", None)), fate', syncer, discarded)
      BY <2>2, <2>4, <2>5, <2>6, QueueAppend DEF LoopOps
    <3>2. QED
      BY <2>1, <3>1 DEF Queries
  <2>8. rows' \in Seq(Sales) /\ ToSet(rows') = ToSet(rows) \cup {i}
    <3>1. /\ rows' \in Seq(Sales) /\ DOMAIN rows' = 1..(Len(rows) + 1)
          /\ DOMAIN rows = 1..Len(rows) /\ Len(rows) \in Nat
          /\ rows'[Len(rows) + 1] = i /\ \A k \in DOMAIN rows : rows'[k] = rows[k]
      BY <2>1, <2>2, Typed
    <3>2. QED
      BY <3>1 DEF ToSet
  <2>9. TypeOK' /\ Delivery'
    BY <2>1, <2>2, <2>3, <2>7, <2>8, Typed DEF OutboxInv, TypeOK, Delivery, QueryType
  <2>10. Table'
    BY <2>1, <2>2, <2>3, <2>8, Typed DEF OutboxInv, Table, Stored, Queued
  <2>11. AtRow'
    BY <2>1, <2>2, <2>3, Typed DEF OutboxInv, AtRow, Stored
  <2>12. QED
    BY <2>7, <2>9, <2>10, <2>11 DEF OutboxInv
<1>2. CASE Enqueued
  <2>1. /\ Answers("recount") /\ ProcessQueue(online, Tail(db))
        /\ UNCHANGED <<fate, rows, attempts, current, online, probing, link, request, strays,
                       made, losses, flaps, crashes, discarded>>
    BY <1>2 DEF Enqueued, remote, bounds
  <2>2. Tail(db) \in Seq(QueryType) /\ QueueOK(Tail(db), fate, syncer, discarded)
    BY <2>1, Oldest DEF LoopOps
  <2>3. /\ db' \in Seq(QueryType) /\ QueueOK(db', fate, syncer', discarded)
        /\ syncer' = syncer \/ (syncer = "off" /\ syncer' = "next")
    BY <2>1, <2>2, QueueProcessed, Typed
  <2>4. TypeOK'
    BY <2>1, <2>3 DEF OutboxInv, TypeOK, QueryType, LoopOps
  <2>5. Delivery' /\ Table' /\ AtRow' /\ Queries'
    BY <2>1, <2>3 DEF OutboxInv, Delivery, Table, AtRow, Queries, Queued
  <2>6. QED
    BY <2>4, <2>5 DEF OutboxInv
<1>3. QED
  BY <1>1, <1>2

LEMMA LoopStays ==
  ASSUME OutboxConstants, OutboxInv,
         NextSent \/ NothingPending \/ FailureMarked \/ RowDeleted \/ LoopDone \/ Discarded
  PROVE  OutboxInv'
<1>1. CASE NextSent
  <2>1. PICK k \in DOMAIN rows :
          /\ rows[k] \in Pending /\ current' = rows[k]
          /\ request' = [request EXCEPT ![rows[k]] = "sent"]
    BY <1>1 DEF NextSent
  <2>2. /\ Answers("next") /\ db' = Tail(db) /\ syncer' = "send"
        /\ UNCHANGED <<fate, rows, attempts, online, probing, link, strays, made,
                       losses, flaps, crashes, discarded>>
    BY <1>1 DEF NextSent, bounds
  <2>3. /\ current' \in Sales /\ attempts[current'] < MaxAttempts /\ fate[current'] \in Stored
        /\ current' # None
    BY <2>1, Typed DEF Pending, OutboxInv, Table, OutboxConstants
  <2>4. db' \in Seq(QueryType) /\ Queries' /\ syncer = "next"
    BY <2>2, Oldest DEF LoopOps, Queries
  <2>5. TypeOK' /\ Delivery'
    BY <2>1, <2>2, <2>3, <2>4, Typed DEF OutboxInv, TypeOK, Delivery, QueryType, Stored
  <2>6. Table'
    BY <2>2 DEF OutboxInv, Table, Queued
  <2>7. AtRow'
    BY <2>1, <2>2, <2>3, <2>4, Typed DEF OutboxInv, AtRow
  <2>8. QED
    BY <2>4, <2>5, <2>6, <2>7 DEF OutboxInv
<1>2. CASE NothingPending
  <2>1. /\ Answers("next") /\ db' = Append(Tail(db), Query("count", None)) /\ syncer' = "count"
        /\ UNCHANGED <<fate, rows, attempts, current, online, probing, link, request, strays,
                       made, losses, flaps, crashes, discarded>>
    BY <1>2 DEF NothingPending, remote, bounds
  <2>2. /\ syncer = "next" /\ Tail(db) \in Seq(QueryType)
        /\ QueueOK(Tail(db), fate, "off", discarded)
    BY <2>1, Oldest DEF LoopOps
  <2>3. db' \in Seq(QueryType) /\ Queries'
    BY <2>1, <2>2, Following DEF LoopOps, Queries
  <2>4. TypeOK' /\ Delivery' /\ Table'
    BY <2>1, <2>3 DEF OutboxInv, TypeOK, Delivery, Table, Queued, QueryType, LoopOps
  <2>5. AtRow'
    BY <2>1, <2>2 DEF OutboxInv, AtRow
  <2>6. QED
    BY <2>3, <2>4, <2>5 DEF OutboxInv
<1>3. CASE FailureMarked
  <2>1. /\ Answers("mark") /\ attempts' = [attempts EXCEPT ![current] = @ + 1]
        /\ db' = Append(Tail(db), Query("delete", current)) /\ syncer' = "delete"
        /\ UNCHANGED <<fate, rows, current, online, probing, link, request, strays,
                       made, losses, flaps, crashes, discarded>>
    BY <1>3 DEF FailureMarked, remote, bounds
  <2>2. /\ syncer = "mark" /\ Tail(db) \in Seq(QueryType)
        /\ QueueOK(Tail(db), fate, "off", discarded)
    BY <2>1, Oldest DEF LoopOps
  <2>3. current \in Sales /\ attempts[current] < MaxAttempts
    BY <2>2, Typed DEF OutboxInv, AtRow
  <2>4. db' \in Seq(QueryType) /\ Queries'
    BY <2>1, <2>2, <2>3, Following DEF LoopOps, Queries
  <2>5. attempts' \in [Sales -> 0..MaxAttempts]
    BY <2>1, <2>3, Typed DEF OutboxConstants
  <2>6. TypeOK' /\ Delivery' /\ Table'
    BY <2>1, <2>4, <2>5 DEF OutboxInv, TypeOK, Delivery, Table, Queued, QueryType, LoopOps
  <2>7. AtRow'
    BY <2>1, <2>2 DEF OutboxInv, AtRow
  <2>8. QED
    BY <2>4, <2>6, <2>7 DEF OutboxInv
<1>4. CASE RowDeleted
  <2> DEFINE again == IF online THEN "next" ELSE "count"
  <2>1. /\ Answers("delete") /\ DeleteRow(current)
        /\ db' = Append(Tail(db), Query(again, None)) /\ syncer' = again /\ current' = None
        /\ UNCHANGED <<fate, attempts, online, probing, link, request, strays,
                       made, losses, flaps, crashes, discarded>>
    BY <1>4 DEF RowDeleted, remote, bounds
  <2>2. /\ syncer = "delete" /\ Tail(db) \in Seq(QueryType)
        /\ QueueOK(Tail(db), fate, "off", discarded)
    BY <2>1, Oldest DEF LoopOps
  <2>3. again \in {"next", "count"}
    OBVIOUS
  <2> HIDE DEF again
  <2>4. db' \in Seq(QueryType) /\ Queries'
    BY <2>1, <2>2, <2>3, Following DEF LoopOps, Queries
  <2>5. /\ rows' \in Seq(Sales) /\ ToSet(rows') \subseteq ToSet(rows)
        /\ ToSet(rows) \subseteq ToSet(rows') \cup {current}
    BY <2>1, RowsDeleted, Typed
  <2>6. TypeOK' /\ Delivery'
    BY <2>1, <2>3, <2>4, <2>5 DEF OutboxInv, TypeOK, Delivery, QueryType, LoopOps
  <2>7. Table'
    BY <2>1, <2>2, <2>5 DEF OutboxInv, Table, AtRow, Queued
  <2>8. AtRow'
    BY <2>1, <2>2, <2>3 DEF OutboxInv, AtRow
  <2>9. QED
    BY <2>4, <2>6, <2>7, <2>8 DEF OutboxInv
<1>5. CASE LoopDone
  <2>1. /\ Answers("count") /\ db' = Tail(db) /\ syncer' = "off"
        /\ UNCHANGED <<fate, rows, attempts, current, online, probing, link, request, strays,
                       made, losses, flaps, crashes, discarded>>
    BY <1>5 DEF LoopDone, remote, bounds
  <2>2. syncer = "count" /\ db' \in Seq(QueryType) /\ Queries'
    BY <2>1, Oldest DEF LoopOps, Queries
  <2>3. TypeOK' /\ Delivery' /\ Table' /\ AtRow'
    BY <2>1, <2>2 DEF OutboxInv, TypeOK, Delivery, Table, AtRow, Queued, QueryType
  <2>4. QED
    BY <2>2, <2>3 DEF OutboxInv
<1>6. CASE Discarded
  <2>1. /\ Answers("discard") /\ DeleteRow(Head(db).sale) /\ db' = Tail(db)
        /\ UNCHANGED <<fate, attempts, syncer, current, online, probing, link, request, strays,
                       made, losses, flaps, crashes, discarded>>
    BY <1>6 DEF Discarded, remote, bounds
  <2>2. Head(db).sale \in discarded /\ db' \in Seq(QueryType) /\ Queries'
    BY <2>1, Oldest DEF LoopOps, Queries
  <2>3. /\ rows' \in Seq(Sales) /\ ToSet(rows') \subseteq ToSet(rows)
        /\ ToSet(rows) \subseteq ToSet(rows') \cup {Head(db).sale}
    BY <2>1, RowsDeleted, Typed
  <2>4. TypeOK' /\ Delivery' /\ AtRow'
    BY <2>1, <2>2, <2>3 DEF OutboxInv, TypeOK, Delivery, AtRow, QueryType
  <2>5. Table'
    BY <2>1, <2>2, <2>3 DEF OutboxInv, Table, Queued
  <2>6. QED
    BY <2>2, <2>4, <2>5 DEF OutboxInv
<1>7. QED
  BY <1>1, <1>2, <1>3, <1>4, <1>5, <1>6

LEMMA SendStays ==
  ASSUME OutboxConstants, OutboxInv, SendAnswered \/ SendFails
  PROVE  OutboxInv'
<1>1. ASSUME NEW next, NEW answer, NEW then,
             \/ next = "delete" /\ answer = "accepted" /\ then = "synced"
             \/ next = "mark" /\ answer = "refused" /\ then = "rejected",
             syncer = "send", Answered(current, answer),
             fate' = [fate EXCEPT ![current] = then],
             syncer' = next, db' = Append(db, Query(next, current)),
             UNCHANGED <<rows, attempts, current, online, probing, link, strays, made, bounds>>
      PROVE  OutboxInv'
  <2>1. \/ next = "delete" /\ answer = "accepted" /\ then = "synced"
        \/ next = "mark" /\ answer = "refused" /\ then = "rejected"
    BY <1>1
  <2>2. /\ request[current] = answer /\ request' = [request EXCEPT ![current] = "none"]
        /\ UNCHANGED <<rows, attempts, current, online, probing, link, strays, made,
                       losses, flaps, crashes, discarded>>
    BY <1>1 DEF Answered, bounds
  <2>3. current \in Sales /\ fate[current] \in Stored /\ attempts[current] < MaxAttempts
    BY <1>1, Typed DEF OutboxInv, AtRow
  <2>4. fate'[current] = then /\ \A j \in Sales : j # current => fate'[j] = fate[j]
    BY <1>1, <2>3, Typed
  <2>5. QueueOK(db, fate, "off", discarded)
    BY <1>1, Typed DEF QueueOK, LoopOps
  <2>6. \A k \in DOMAIN db : db[k].op = "insert" => db[k].sale # current
    BY <2>3, <2>5 DEF QueueOK, Stored
  <2>7. QueueOK(db, fate', "off", discarded)
    BY <1>1, <2>3, <2>4, <2>5, <2>6, QueueFate
  <2>8. db' \in Seq(QueryType) /\ Queries'
    <3>1. next \in LoopOps /\ "off" \notin LoopOps /\ db \in Seq(QueryType)
      BY <2>1, Typed DEF LoopOps
    <3>2. /\ Append(db, Query(next, current)) \in Seq(QueryType)
          /\ QueueOK(Append(db, Query(next, current)), fate', next, discarded)
      BY <2>3, <2>7, <3>1, Following
    <3>3. QED
      BY <1>1, <2>2, <3>2 DEF Queries
  <2>9. TypeOK' /\ Delivery'
    BY <1>1, <2>1, <2>2, <2>3, <2>4, <2>8, Typed
       DEF OutboxInv, TypeOK, Delivery, QueryType, Stored, LoopOps
  <2>10. Table'
    BY <2>1, <2>2, <2>3, <2>4, Typed DEF OutboxInv, Table, Stored, Queued
  <2>11. AtRow'
    BY <1>1, <2>1, <2>2, <2>3, <2>4, Typed DEF OutboxInv, AtRow, Stored
  <2>12. QED
    BY <2>8, <2>9, <2>10, <2>11 DEF OutboxInv
<1>2. CASE SendAnswered
  BY <1>1, <1>2 DEF SendAnswered
<1>3. CASE SendFails
  <2>1. /\ syncer = "send" /\ syncer' = "count" /\ current' = None /\ online' = FALSE
        /\ db' = Append(db, Query("count", None))
        /\ request' = [request EXCEPT ![current] = "none"]
        /\ strays' = [strays EXCEPT ![current] =
             @ + IF request[current] \in {"sent", "creating"} THEN 1 ELSE 0]
        /\ losses' \in 0..MaxLosses
        /\ UNCHANGED <<fate, rows, attempts, probing, link, made, flaps, crashes, discarded>>
    BY <1>3 DEF SendFails, Abandon, NetworkError, OutboxInv, TypeOK, OutboxConstants
  <2>2. current \in Sales /\ fate[current] \in Stored
    BY <2>1, Typed DEF OutboxInv, AtRow
  <2>3. QueueOK(db, fate, "off", discarded)
    BY <2>1, Typed DEF QueueOK, LoopOps
  <2>4. db' \in Seq(QueryType) /\ Queries'
    BY <2>1, <2>3, Following, Typed DEF LoopOps, Queries
  <2>5. TypeOK'
    <3>1. strays' \in [Sales -> Nat]
      BY <2>1, <2>2, Typed
    <3>2. request' \in [Sales -> {"none", "sent", "creating", "accepted", "refused"}]
      BY <2>1, <2>2, Typed
    <3>3. QED
      BY <2>1, <2>4, <3>1, <3>2 DEF OutboxInv, TypeOK, QueryType, LoopOps
  <2>6. Delivery'
    BY <2>1, <2>2, Typed DEF OutboxInv, Delivery, Stored
  <2>7. Table' /\ AtRow'
    BY <2>1, Typed DEF OutboxInv, Table, AtRow, Queued
  <2>8. QED
    BY <2>4, <2>5, <2>6, <2>7 DEF OutboxInv
<1>4. QED
  BY <1>2, <1>3

LEMMA ServerStays ==
  ASSUME OutboxConstants, OutboxInv, NEW i \in Sales,
         LookUp(i) \/ Create(i) \/ Refuse(i) \/ StrayEnds(i)
  PROVE  OutboxInv'
<1>1. /\ UNCHANGED <<fate, rows, attempts, db, syncer, current, online, probing, link,
                     losses, flaps, crashes, discarded>>
      /\ \/ /\ request[i] = "sent"
            /\ request' = [request EXCEPT ![i] = IF made[i] > 0 THEN "accepted" ELSE "creating"]
            /\ UNCHANGED <<strays, made>>
         \/ /\ request[i] = "creating" /\ Insert(i)
            /\ request' = [request EXCEPT ![i] = "accepted"] /\ UNCHANGED strays
         \/ /\ request[i] \in {"sent", "creating"}
            /\ request' = [request EXCEPT ![i] = "refused"] /\ UNCHANGED <<strays, made>>
         \/ /\ strays[i] > 0 /\ strays' = [strays EXCEPT ![i] = @ - 1]
            /\ Insert(i) \/ UNCHANGED made
            /\ UNCHANGED request
  BY DEF LookUp, Create, Refuse, StrayEnds, local, bounds
<1>2. TypeOK'
  <2>1. request' \in [Sales -> {"none", "sent", "creating", "accepted", "refused"}]
    BY <1>1, Typed
  <2>2. strays' \in [Sales -> Nat]
    <3>1. \/ strays' = strays
          \/ strays[i] > 0 /\ strays' = [strays EXCEPT ![i] = strays[i] - 1]
      BY <1>1
    <3>2. strays[i] > 0 => strays[i] - 1 \in Nat
      BY Typed
    <3>3. QED
      BY <3>1, <3>2, Typed
  <2>3. made' \in [Sales -> Nat]
    BY <1>1, Typed DEF Insert
  <2>4. QED
    BY <1>1, <2>1, <2>2, <2>3 DEF OutboxInv, TypeOK
<1>3. Delivery'
  BY <1>1, Typed DEF OutboxInv, Delivery, Insert
<1>4. Table' /\ AtRow' /\ Queries'
  BY <1>1, Typed DEF OutboxInv, Table, AtRow, Queries, Queued
<1>5. QED
  BY <1>2, <1>3, <1>4 DEF OutboxInv

LEMMA WorldStays ==
  ASSUME OutboxConstants, OutboxInv,
         \/ ProbeStarts \/ ProbeSucceeds \/ ProbeFails
         \/ \E l \in {"none", "lan", "up"} : LinkChanges(l)
         \/ Retry
  PROVE  OutboxInv'
<1>0. /\ probing \in BOOLEAN /\ online \in BOOLEAN /\ link \in {"none", "lan", "up"}
      /\ losses \in 0..MaxLosses /\ flaps \in 0..MaxFlaps
      /\ MaxLosses \in Nat /\ MaxFlaps \in Nat
  BY DEF OutboxInv, TypeOK, OutboxConstants
<1>1. /\ UNCHANGED <<fate, rows, attempts, current, request, strays, made, crashes, discarded>>
      /\ probing' \in BOOLEAN /\ online' \in BOOLEAN /\ link' \in {"none", "lan", "up"}
      /\ losses' \in 0..MaxLosses /\ flaps' \in 0..MaxFlaps
  <2>1. CASE ProbeStarts
    BY <1>0, <2>1 DEF ProbeStarts, remote, bounds
  <2>2. CASE ProbeSucceeds
    BY <1>0, <2>2 DEF ProbeSucceeds, remote, bounds
  <2>3. CASE ProbeFails
    <3>1. losses' = losses \/ (losses < MaxLosses /\ losses' = losses + 1)
      BY <2>3 DEF ProbeFails, NetworkError
    <3>2. losses' \in 0..MaxLosses
      BY <1>0, <3>1
    <3>3. QED
      BY <1>0, <2>3, <3>2 DEF ProbeFails, remote
  <2>4. ASSUME NEW l \in {"none", "lan", "up"}, LinkChanges(l)
        PROVE  /\ UNCHANGED <<fate, rows, attempts, current, probing, request, strays, made,
                              losses, crashes, discarded>>
               /\ online' \in BOOLEAN /\ link' \in {"none", "lan", "up"} /\ flaps' \in 0..MaxFlaps
    BY <1>0, <2>4 DEF LinkChanges, remote
  <2>5. CASE Retry
    BY <1>0, <2>5 DEF Retry, remote, bounds
  <2>6. QED
    BY <1>0, <2>1, <2>2, <2>3, <2>4, <2>5
<1>2. UNCHANGED <<db, syncer>> \/ \E on \in BOOLEAN : ProcessQueue(on, db)
  BY Typed DEF ProbeStarts, ProbeSucceeds, ProbeFails, LinkChanges, Retry
<1>3. /\ db' \in Seq(QueryType) /\ QueueOK(db', fate, syncer', discarded)
      /\ syncer' = syncer \/ (syncer = "off" /\ syncer' = "next")
  BY <1>2, QueueProcessed, Typed
<1>4. TypeOK'
  BY <1>1, <1>3 DEF OutboxInv, TypeOK, QueryType, LoopOps
<1>5. Delivery' /\ Table' /\ AtRow' /\ Queries'
  BY <1>1, <1>3 DEF OutboxInv, Delivery, Table, AtRow, Queries, Queued
<1>6. QED
  BY <1>4, <1>5 DEF OutboxInv

LEMMA DiscardStays == ASSUME OutboxInv, NEW i \in Sales, Discard(i) PROVE OutboxInv'
<1>1. /\ discarded' = discarded \cup {i} /\ db' = Append(db, Query("discard", i))
      /\ UNCHANGED <<fate, rows, attempts, syncer, current, online, probing, link, request,
                     strays, made, losses, flaps, crashes>>
  BY DEF Discard, remote
<1>2. /\ Query("discard", i) \in QueryType /\ Query("discard", i).op = "discard"
      /\ Query("discard", i).sale = i
  BY DEF Query, QueryType
<1>3. \A k \in DOMAIN db : db[k].op = "insert" => fate[db[k].sale] = "saving"
  BY Typed DEF QueueOK
<1>4. /\ Append(db, Query("discard", i)) \in Seq(QueryType)
      /\ QueueOK(Append(db, Query("discard", i)), fate, syncer, discarded \cup {i})
  BY <1>2, <1>3, Typed, QueueAppend DEF LoopOps
<1>5. TypeOK' /\ Queries'
  BY <1>1, <1>4 DEF OutboxInv, TypeOK, Queries, QueryType
<1>6. Delivery' /\ Table' /\ AtRow'
  BY <1>1 DEF OutboxInv, Delivery, Table, AtRow, Queued
<1>7. QED
  BY <1>5, <1>6 DEF OutboxInv

LEMMA CrashStays == ASSUME OutboxConstants, OutboxInv, Crash PROVE OutboxInv'
<1>1. /\ crashes < MaxCrashes /\ crashes' = crashes + 1
      /\ db' = <<>> /\ syncer' = "off" /\ current' = None /\ online' = FALSE /\ probing' = FALSE
      /\ fate' = [i \in Sales |->
           IF fate[i] \in {"posting", "saving"} THEN "unfinished" ELSE fate[i]]
      /\ strays' = [i \in Sales |->
           strays[i] + IF request[i] \in {"sent", "creating"} THEN 1 ELSE 0]
      /\ request' = [i \in Sales |-> "none"]
      /\ UNCHANGED <<rows, attempts, link, made, losses, flaps, discarded>>
  BY DEF Crash
<1>2. TypeOK'
  <2>1. strays' \in [Sales -> Nat]
    BY <1>1, Typed
  <2>2. fate' \in [Sales -> {"new", "posting", "saving", "queued", "synced", "declined",
                             "rejected", "unfinished"}]
    BY <1>1, Typed
  <2>3. crashes' \in 0..MaxCrashes
    BY <1>1 DEF OutboxInv, TypeOK, OutboxConstants
  <2>4. db' \in Seq(QueryType)
    BY <1>1
  <2>5. request' \in [Sales -> {"none", "sent", "creating", "accepted", "refused"}]
    BY <1>1
  <2>6. QED
    BY <1>1, <2>1, <2>2, <2>3, <2>4, <2>5 DEF OutboxInv, TypeOK, QueryType
<1>3. Delivery'
  BY <1>1, Typed DEF OutboxInv, Delivery
<1>4. Table'
  BY <1>1, Typed DEF OutboxInv, Table, Stored, Queued
<1>5. AtRow' /\ Queries'
  BY <1>1 DEF AtRow, Queries, QueueOK, LoopOps
<1>6. QED
  BY <1>2, <1>3, <1>4, <1>5 DEF OutboxInv

LEMMA OutboxSound == Spec => []OutboxInv
<1>1. Init => OutboxInv
  <2> SUFFICES ASSUME Init PROVE OutboxInv
    OBVIOUS
  <2>1. TypeOK
    <3>1. 0 \in 0..MaxAttempts /\ 0 \in 0..MaxLosses /\ 0 \in 0..MaxFlaps /\ 0 \in 0..MaxCrashes
      BY OutboxConstants DEF OutboxConstants
    <3>2. attempts \in [Sales -> 0..MaxAttempts]
      BY <3>1 DEF Init
    <3>3. /\ strays \in [Sales -> Nat] /\ made \in [Sales -> Nat]
          /\ rows \in Seq(Sales)
      BY DEF Init
    <3>4. db \in Seq(QueryType)
      BY DEF Init
    <3>5. QED
      BY <3>1, <3>2, <3>3, <3>4 DEF Init, TypeOK, QueryType
  <2>2. Delivery /\ AtRow
    BY DEF Init, Delivery, AtRow
  <2>3. ToSet(rows) = {}
    BY DEF Init, ToSet
  <2>4. Table /\ Queries
    BY <2>3 DEF Init, Table, Queries, QueueOK, LoopOps
  <2>5. QED
    BY <2>1, <2>2, <2>4 DEF OutboxInv
<1>2. OutboxInv /\ [Next]_vars => OutboxInv'
  <2> SUFFICES ASSUME OutboxInv, [Next]_vars PROVE OutboxInv'
    OBVIOUS
  <2>1. CASE Till
    BY <2>1, OutboxConstants, CheckoutStays, InsertStays, LoopStays, SendStays, WorldStays
       DEF Till, DbAnswers
  <2>2. CASE Server
    BY <2>2, OutboxConstants, ServerStays DEF Server
  <2>3. CASE World
    BY <2>3, OutboxConstants, WorldStays, DiscardStays, CrashStays DEF World
  <2>4. CASE UNCHANGED vars
    BY <2>4 DEF vars, local, remote, bounds, OutboxInv, TypeOK, Delivery, Table, AtRow, Queries,
                Queued
  <2>5. QED
    BY <2>1, <2>2, <2>3, <2>4 DEF Next
<1>3. QED
  BY <1>1, <1>2, PTL DEF Spec

\* The state stays well-typed: attempts within their limit, and queries of sales only.
THEOREM OutboxTyped == Spec => []TypeOK
BY OutboxSound, PTL DEF OutboxInv

\* For any number of sales, lost requests, crashes and discards, the server records a sale
\* once, what a till takes for synced it has, and what it refused at checkout it has not
\* and never will (Checkout, LookUp, Create, SendAnswered).
THEOREM TillsAreHonest == Spec => []Honest
<1>1. OutboxInv => Honest
  BY DEF OutboxInv, Delivery, Honest
<1>2. QED
  BY <1>1, OutboxSound, PTL

\* A queued sale keeps its row until the server has answered, and processQueue runs one
\* loop at a time, however many callbacks call it (RowInserted, RowDeleted, ProcessQueue).
THEOREM QueueIsKept == Spec => []Kept
<1>1. OutboxInv => Kept
  <2> SUFFICES ASSUME OutboxInv PROVE Kept
    OBVIOUS
  <2> DEFINE Loops == {k \in DOMAIN db : db[k].op \in LoopOps}
  <2>1. Cardinality(Loops) = IF syncer \in {"off", "send"} THEN 0 ELSE 1
    <3>1. CASE syncer \in {"off", "send"}
      <4>1. Loops = {}
        BY <3>1, Typed DEF QueueOK, LoopOps
      <4>2. QED
        BY <3>1, <4>1, FS_EmptySet
    <3>2. CASE syncer \notin {"off", "send"}
      <4>1. PICK k \in DOMAIN db : db[k].op \in LoopOps
        BY <3>2, Typed DEF QueueOK
      <4>2. Loops = {k}
        BY <4>1, Typed DEF QueueOK
      <4>3. QED
        BY <3>2, <4>2, FS_Singleton
    <3>3. QED
      BY <3>1, <3>2
  <2>2. OneLoop
    BY <2>1 DEF OneLoop, OutboxInv, AtRow
  <2>3. QED
    BY <2>2 DEF Kept, OutboxInv, Table
<1>2. QED
  BY <1>1, OutboxSound, PTL

-----------------------------------------------------------------------------
(* The sessions of a user.                                                 *)

LoginStates ==
  [step : {"new", "insert", "answer", "done"}]
    \cup [step : {"revoke"}, these : SUBSET Logins]

SessionsTyped ==
  /\ session \in [Logins -> {"none", "active", "revoked"}]
  /\ login \in [Logins -> LoginStates]
  /\ crowded \in BOOLEAN
  /\ IsFiniteSet(Active)

\* While no two logins overlapped: there is room for the session of the login that is
\* under way, once it has revoked those it found.
Room ==
  MaxSessions > 0 /\ ~crowded =>
    /\ Cardinality(Active) <= MaxSessions
    /\ \A k, l \in Logins : Entering(k) /\ Entering(l) => k = l
    /\ \A l \in Logins :
         /\ login[l].step = "revoke" => Cardinality(Active \ login[l].these) < MaxSessions
         /\ login[l].step = "insert" => Cardinality(Active) < MaxSessions

\* Revoking as many as are in excess leaves room for one more.
LEMMA ExcessMakesRoom ==
  ASSUME MaxSessions \in Nat \ {0}, NEW A, IsFiniteSet(A), NEW B \in SUBSET A,
         Cardinality(B) = Excess(Cardinality(A))
  PROVE  Cardinality(A \ B) < MaxSessions
<1>1. IsFiniteSet(B)
  BY FS_Subset
<1>2. A \cap B = B
  OBVIOUS
<1>3. Cardinality(A \ B) = Cardinality(A) - Cardinality(B)
  BY <1>1, <1>2, FS_Difference
<1>4. Cardinality(A) \in Nat
  BY FS_CardinalityType
<1>5. QED
  BY <1>3, <1>4 DEF Excess

\* A step that only takes sessions away, and moves no login into the count, keeps room.
LEMMA FewerActive ==
  ASSUME SessionConstants, SessionsTyped, Room, UNCHANGED crowded, Active' \subseteq Active,
         \A l \in Logins :
           login'[l] = login[l] \/ login'[l] \in [step : {"answer", "done"}]
  PROVE  Room'
<1>1. ASSUME NEW S
      PROVE  /\ Cardinality(Active \ S) \in Nat /\ Cardinality(Active' \ S) \in Nat
             /\ Cardinality(Active' \ S) <= Cardinality(Active \ S)
  <2>1. IsFiniteSet(Active \ S)
    BY FS_Subset DEF SessionsTyped
  <2>2. Active' \ S \subseteq Active \ S
    OBVIOUS
  <2>3. IsFiniteSet(Active' \ S) /\ Cardinality(Active' \ S) <= Cardinality(Active \ S)
    BY <2>1, <2>2, FS_Subset
  <2>4. QED
    BY <2>1, <2>3, FS_CardinalityType
<1>9. /\ Cardinality(Active) \in Nat /\ Cardinality(Active') \in Nat
      /\ Cardinality(Active') <= Cardinality(Active)
  <2>1. Active \ {} = Active /\ Active' \ {} = Active'
    OBVIOUS
  <2>2. QED
    BY <1>1, <2>1
<1>2. \A l \in Logins : Entering(l)' => Entering(l) /\ login'[l] = login[l]
  BY DEF Entering
<1>3. SUFFICES ASSUME MaxSessions > 0, ~crowded
               PROVE  /\ Cardinality(Active') <= MaxSessions
                      /\ \A k, l \in Logins : Entering(k)' /\ Entering(l)' => k = l
                      /\ \A l \in Logins :
                           /\ login'[l].step = "revoke" =>
                                Cardinality(Active' \ login'[l].these) < MaxSessions
                           /\ login'[l].step = "insert" => Cardinality(Active') < MaxSessions
  BY DEF Room
<1>4. MaxSessions \in Nat
  BY DEF SessionConstants
<1>5. Cardinality(Active') <= MaxSessions
  <2>1. Cardinality(Active) <= MaxSessions
    BY <1>3 DEF Room
  <2>2. QED
    BY <1>4, <1>9, <2>1
<1>6. ASSUME NEW l \in Logins, login'[l].step = "revoke"
      PROVE  Cardinality(Active' \ login'[l].these) < MaxSessions
  <2>1. login'[l] = login[l] /\ login[l].these \in SUBSET Logins
    BY <1>2, <1>6 DEF Entering, SessionsTyped, LoginStates
  <2>2. Cardinality(Active \ login[l].these) < MaxSessions
    BY <1>3, <1>6, <2>1 DEF Room
  <2>3. /\ Cardinality(Active \ login[l].these) \in Nat
        /\ Cardinality(Active' \ login[l].these) \in Nat
        /\ Cardinality(Active' \ login[l].these) <= Cardinality(Active \ login[l].these)
    BY <1>1
  <2>4. QED
    BY <1>4, <2>1, <2>2, <2>3
<1>7. ASSUME NEW l \in Logins, login'[l].step = "insert"
      PROVE  Cardinality(Active') < MaxSessions
  <2>1. Cardinality(Active) < MaxSessions
    BY <1>2, <1>3, <1>7 DEF Entering, Room
  <2>2. QED
    BY <1>4, <1>9, <2>1
<1>8. QED
  BY <1>2, <1>3, <1>5, <1>6, <1>7 DEF Room

LoginStep(l) ==
  LoginLook(l) \/ LoginRevoke(l) \/ LoginInsert(l) \/ LoginFails(l) \/ StoreTokens(l)

\* Logout, the page of device sessions and the idle timeout revoke a session; nothing
\* else but a login touches one.
LEMMA OthersRevoke ==
  ASSUME SessionsTyped, [SessionsNext]_sessionVars, \A l \in Logins : ~LoginStep(l)
  PROVE  /\ UNCHANGED <<login, crowded>>
         /\ session' \in [Logins -> {"none", "active", "revoked"}]
         /\ Active' \subseteq Active
<1>1. UNCHANGED <<login, crowded>>
      /\ \E l : session' = [session EXCEPT ![l] = "revoked"] \/ session' = session
  BY DEF LoginStep, SessionsNext, sessionVars, server, tokens, RevokeSession, Logout, LockAccount, Expire,
         BeginCall, Send, Served, Rejected, FoundIdle, CallFails, Refreshed, RefreshRefused,
         RefreshFails
<1>2. /\ session' \in [Logins -> {"none", "active", "revoked"}]
      /\ \A k \in Logins : session'[k] = "active" => session[k] = "active"
  BY <1>1 DEF SessionsTyped
<1>3. QED
  BY <1>1, <1>2 DEF Active

\* Every step leaves the sessions and the logins well-typed, and finitely many active.
LEMMA SessionsTypedStays ==
  ASSUME SessionsTyped, [SessionsNext]_sessionVars
  PROVE  SessionsTyped'
<1> USE DEF server, tokens
<1>1. ASSUME session' \in [Logins -> {"none", "active", "revoked"}],
             login' \in [Logins -> LoginStates], crowded' \in BOOLEAN,
             NEW l, Active' \subseteq Active \cup {l}
      PROVE  SessionsTyped'
  <2>1. IsFiniteSet(Active \cup {l})
    BY FS_AddElement DEF SessionsTyped
  <2>2. IsFiniteSet(Active')
    BY <1>1, <2>1, FS_Subset
  <2>3. QED
    BY <1>1, <2>2 DEF SessionsTyped
<1>2. ASSUME NEW l \in Logins, LoginLook(l) PROVE SessionsTyped'
  <2>1. PICK gone \in SUBSET Active : login' = [login EXCEPT ![l] =
            IF gone # {} THEN [step |-> "revoke", these |-> gone] ELSE [step |-> "insert"]]
    BY <1>2 DEF LoginLook
  <2>2. gone \in SUBSET Logins
    BY DEF Active
  <2>3. /\ [step |-> "revoke", these |-> gone] \in LoginStates
        /\ [step |-> "insert"] \in LoginStates
    BY <2>2 DEF LoginStates
  <2>4. login' \in [Logins -> LoginStates]
    BY <2>1, <2>3 DEF SessionsTyped
  <2>5. crowded' \in BOOLEAN
    BY <1>2 DEF LoginLook
  <2>6. UNCHANGED session
    BY <1>2 DEF LoginLook
  <2>7. Active' = Active
    BY <2>6 DEF Active
  <2>8. QED
    BY <2>4, <2>5, <2>6, <2>7 DEF SessionsTyped
<1>3. ASSUME NEW l \in Logins, LoginRevoke(l) PROVE SessionsTyped'
  <2>1. [step |-> "insert"] \in LoginStates
    BY DEF LoginStates
  <2>2. /\ session' \in [Logins -> {"none", "active", "revoked"}]
        /\ \A k \in Logins : session'[k] = "active" => session[k] = "active"
    BY <1>3 DEF LoginRevoke, SessionsTyped
  <2>3. Active' \subseteq Active
    BY <2>2 DEF Active
  <2>4. QED
    BY <1>1, <1>3, <2>1, <2>2, <2>3 DEF LoginRevoke, SessionsTyped
<1>4. ASSUME NEW l \in Logins, LoginInsert(l) PROVE SessionsTyped'
  <2>1. [step |-> "answer"] \in LoginStates /\ [step |-> "done"] \in LoginStates
    BY DEF LoginStates
  <2>2. /\ session' \in [Logins -> {"none", "active", "revoked"}]
        /\ \A k \in Logins : session'[k] = "active" => session[k] = "active" \/ k = l
    BY <1>4 DEF LoginInsert, SessionsTyped
  <2>3. Active' \subseteq Active \cup {l}
    BY <2>2 DEF Active
  <2>4. login' \in [Logins -> LoginStates] /\ crowded' \in BOOLEAN
    BY <1>4, <2>1 DEF LoginInsert, SessionsTyped
  <2>5. QED
    BY <1>1, <2>2, <2>3, <2>4
<1>5. ASSUME NEW l \in Logins, LoginFails(l) \/ StoreTokens(l) PROVE SessionsTyped'
  <2>1. [step |-> "done"] \in LoginStates
    BY DEF LoginStates
  <2>2. UNCHANGED <<session, crowded>> /\ login' \in [Logins -> LoginStates]
    BY <1>5, <2>1 DEF LoginFails, StoreTokens, SessionsTyped
  <2>3. Active' = Active
    BY <2>2 DEF Active
  <2>4. QED
    BY <2>2, <2>3 DEF SessionsTyped
<1>6. ASSUME [SessionsNext]_sessionVars, \A l \in Logins : ~LoginStep(l) PROVE SessionsTyped'
  BY <1>1, <1>6, OthersRevoke DEF SessionsTyped
<1>7. QED
  BY <1>2, <1>3, <1>4, <1>5, <1>6 DEF LoginStep

\* Every step keeps room for the login under way, or logins have overlapped.
LEMMA RoomStays ==
  ASSUME SessionConstants, SessionsTyped, SessionsTyped', Room, [SessionsNext]_sessionVars
  PROVE  Room'
<1> USE DEF server, tokens
<1>0. MaxSessions \in Nat
  BY DEF SessionConstants
<1>1. ASSUME NEW l \in Logins, LoginLook(l) PROVE Room'
  <2> SUFFICES ASSUME MaxSessions > 0, ~crowded' PROVE Room'
    BY DEF Room
  <2>1. ~crowded /\ UNCHANGED session /\ \A k \in Logins : ~Entering(k)
    BY <1>1 DEF LoginLook, SessionsTyped
  <2>2. Active' = Active
    BY <2>1 DEF Active
  <2>3. PICK gone \in SUBSET Active :
          /\ Cardinality(gone) = Excess(Cardinality(Active))
          /\ login' = [login EXCEPT ![l] =
               IF gone # {} THEN [step |-> "revoke", these |-> gone] ELSE [step |-> "insert"]]
    BY <1>1 DEF LoginLook
  <2>4. Cardinality(Active \ gone) < MaxSessions
    BY <1>0, <2>3, ExcessMakesRoom DEF SessionsTyped
  <2>5. /\ \A k \in Logins : k # l => login'[k] = login[k]
        /\ login'[l] = IF gone # {} THEN [step |-> "revoke", these |-> gone]
                                    ELSE [step |-> "insert"]
    BY <2>3 DEF SessionsTyped
  <2>6. \A k \in Logins : Entering(k)' => k = l
    BY <2>1, <2>5 DEF Entering
  <2>7. Cardinality(Active) <= MaxSessions
    BY <2>1 DEF Room
  <2>8. gone = {} => Cardinality(Active) < MaxSessions
    <3>1. gone = {} => Active \ gone = Active
      OBVIOUS
    <3>2. QED
      BY <2>4, <3>1
  <2>9. ASSUME NEW k \in Logins
        PROVE  /\ login'[k].step = "revoke" => Cardinality(Active \ login'[k].these) < MaxSessions
               /\ login'[k].step = "insert" => Cardinality(Active) < MaxSessions
    <3>1. CASE k # l
      BY <2>6, <3>1 DEF Entering
    <3>2. CASE k = l
      BY <2>4, <2>5, <2>8, <3>2
    <3>3. QED
      BY <3>1, <3>2
  <2>10. QED
    BY <2>2, <2>6, <2>7, <2>9 DEF Room
<1>2. ASSUME NEW l \in Logins, LoginRevoke(l) PROVE Room'
  <2> SUFFICES ASSUME MaxSessions > 0, ~crowded' PROVE Room'
    BY DEF Room
  <2>1. ~crowded /\ login[l].step = "revoke" /\ login' = [login EXCEPT ![l] = [step |-> "insert"]]
    BY <1>2 DEF LoginRevoke
  <2>2. Active' = Active \ login[l].these
    BY <1>2 DEF LoginRevoke, Active, SessionsTyped
  <2>3. Cardinality(Active') < MaxSessions
    BY <2>1, <2>2 DEF Room
  <2>4. \A k \in Logins : Entering(k)' => k = l
    BY <2>1 DEF Entering, Room, SessionsTyped
  <2>5. login'[l].step = "insert"
    BY <2>1 DEF SessionsTyped
  <2>6. Cardinality(Active') \in Nat
    BY FS_CardinalityType DEF SessionsTyped
  <2>7. QED
    BY <1>0, <2>3, <2>4, <2>5, <2>6 DEF Room, Entering
<1>3. ASSUME NEW l \in Logins, LoginInsert(l) PROVE Room'
  <2> SUFFICES ASSUME MaxSessions > 0, ~crowded' PROVE Room'
    BY DEF Room
  <2>1. /\ ~crowded /\ login[l].step = "insert"
        /\ login' = [login EXCEPT ![l] = [step |-> IF l \in Mine THEN "answer" ELSE "done"]]
        /\ session' = [session EXCEPT ![l] = "active"]
    BY <1>3 DEF LoginInsert
  <2>2. Active' = Active \cup {l}
    BY <2>1 DEF Active, SessionsTyped
  <2>3. Cardinality(Active) < MaxSessions /\ IsFiniteSet(Active) /\ Cardinality(Active) \in Nat
    BY <2>1, FS_CardinalityType DEF Room, SessionsTyped
  <2>4. Cardinality(Active') <= MaxSessions
    <3>1. /\ IsFiniteSet(Active \cup {l})
          /\ Cardinality(Active \cup {l}) =
               IF l \in Active THEN Cardinality(Active) ELSE Cardinality(Active) + 1
      BY <2>3, FS_AddElement, Zenon
    <3>2. Cardinality(Active \cup {l}) \in Nat
      BY <3>1, FS_CardinalityType
    <3>3. QED
      BY <1>0, <2>2, <2>3, <3>1, <3>2
  <2>5. \A k \in Logins : ~Entering(k)'
    BY <2>1 DEF Entering, Room, SessionsTyped
  <2>6. QED
    BY <2>4, <2>5 DEF Room, Entering
<1>4. ASSUME NEW l \in Logins, LoginFails(l) \/ StoreTokens(l) PROVE Room'
  <2>1. UNCHANGED <<session, crowded>> /\ login' = [login EXCEPT ![l] = [step |-> "done"]]
    BY <1>4 DEF LoginFails, StoreTokens
  <2>2. Active' = Active
    BY <2>1 DEF Active
  <2>3. \A k \in Logins : login'[k] = login[k] \/ login'[k] \in [step : {"answer", "done"}]
    BY <2>1 DEF SessionsTyped
  <2>4. QED
    BY <2>1, <2>2, <2>3, FewerActive
<1>5. ASSUME \A l \in Logins : ~LoginStep(l) PROVE Room'
  BY <1>5, OthersRevoke, FewerActive
<1>6. QED
  BY <1>1, <1>2, <1>3, <1>4, <1>5 DEF LoginStep

\* While no two logins of the user overlapped, he never has more sessions than the
\* company allows, whichever of them end meanwhile and however often the app signs in
\* again (LoginLook, LoginRevoke, LoginInsert).
THEOREM SessionsLimited == SessionsSpec => []SessionLimit
<1>1. SessionsInit => SessionsTyped /\ Room
  <2> SUFFICES ASSUME SessionsInit PROVE SessionsTyped /\ Room
    OBVIOUS
  <2>1. Active = {} /\ \A l \in Logins : login[l] = [step |-> "new"]
    BY DEF SessionsInit, Active
  <2>2. IsFiniteSet(Active) /\ Cardinality(Active) = 0
    BY <2>1, FS_EmptySet
  <2>3. [step |-> "new"] \in LoginStates
    BY DEF LoginStates
  <2>4. SessionsTyped
    BY <2>2, <2>3 DEF SessionsInit, SessionsTyped
  <2>5. QED
    BY <2>1, <2>2, <2>4, SessionConstants DEF Room, Entering
<1>2. SessionsTyped /\ Room /\ [SessionsNext]_sessionVars => SessionsTyped' /\ Room'
  BY SessionsTypedStays, RoomStays, SessionConstants
<1>3. Room => SessionLimit
  BY DEF Room, SessionLimit
<1>4. QED
  BY <1>1, <1>2, <1>3, PTL DEF SessionsSpec
=============================================================================
