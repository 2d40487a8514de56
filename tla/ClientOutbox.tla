---------------------------- MODULE ClientOutbox ----------------------------
(***************************************************************************)
(* Offline-first delivery of a till's sales: the checkout                  *)
(* (flutter_app/lib/features/pos/data/pos_repository.dart) posts a sale or *)
(* queues it, the outbox (flutter_app/lib/core/outbox/) sends the queue    *)
(* while the server is reachable, and the server accepts each idempotency  *)
(* key once (sales_service.go).  Collections and expenses are queued and   *)
(* accepted the same way.                                                  *)
(*                                                                         *)
(* The app runs callbacks one at a time; what interleaves are the answers  *)
(* it awaits.  Its SQLite queries are answered in the order they were      *)
(* issued, so the pending ones are a sequence, and a query and the code up *)
(* to the next await are one step.                                         *)
(*                                                                         *)
(* Simplifications:                                                        *)
(*   - a sale is its idempotency key, and it carries a reserved number;    *)
(*   - the connectivity plugin reports at once that the network is gone;   *)
(*   - a probe that ends in anything but an answer or a network error      *)
(*     (it changes nothing) is left out, and so is a failing SQLite;       *)
(*   - the row's status is left out: "queued" and "failed" rows are sent,  *)
(*     counted and listed alike;                                           *)
(*   - the server reports no error after it has committed (a connection to *)
(*     the database that is lost during COMMIT would make it do so);       *)
(*   - a request the till has given up on looks its key up and inserts in  *)
(*     one step: it answers nobody.                                        *)
(***************************************************************************)
EXTENDS Naturals, Sequences, FiniteSets, SequencesExt

CONSTANTS
  Sales,
  MaxAttempts,  \* nextPending's maxAttempts, 5 in the app
  MaxLosses,    \* bound: requests and probes lost while the server is up
  MaxFlaps,     \* bound: changes of the network
  MaxCrashes,   \* bound: times the app is killed
  MaxDiscards,  \* bound: items an operator discards
  None

ASSUME OutboxConstants ==
  /\ MaxAttempts \in Nat \ {0}
  /\ MaxLosses \in Nat /\ MaxFlaps \in Nat /\ MaxCrashes \in Nat /\ MaxDiscards \in Nat
  /\ None \notin Sales

VARIABLES
  fate,      \* what the till knows of each sale
  rows,      \* the outbox table, in (created_at, id) order; it survives a crash
  attempts,
  db,        \* SQLite queries under way, oldest first
  syncer,    \* what processQueue awaits; "off" when isSyncing is false
  current,   \* the row processQueue is at
  online,    \* state.isOnline
  probing,
  link,      \* the network: no connectivity, no server, or server reachable
  request,   \* the request of each sale that the till awaits, if any
  strays,    \* requests of each sale that run on though nobody awaits them
  made,      \* sales the server has recorded under each key
  losses, flaps, crashes, discarded

local  == <<fate, rows, attempts, db, syncer, current, online, probing>>
remote == <<request, strays, made>>
bounds == <<losses, flaps, crashes, discarded>>
vars == <<local, link, remote, bounds>>

Query(op, i) == [op |-> op, sale |-> i]

Init ==
  /\ fate = [i \in Sales |-> "new"]
  /\ rows = <<>>
  /\ attempts = [i \in Sales |-> 0]
  /\ db = <<>>
  /\ syncer = "off" /\ current = None
  /\ online = FALSE /\ probing = FALSE /\ link = "none"
  /\ request = [i \in Sales |-> "none"]
  /\ strays = [i \in Sales |-> 0]
  /\ made = [i \in Sales |-> 0]
  /\ losses = 0 /\ flaps = 0 /\ crashes = 0 /\ discarded = {}

Queued(i) == i \in ToSet(rows)

----------------------------------------------------------------------------
(* The till's side of a request                                            *)

\* A network error: the server is out of reach, or this exchange got lost.
NetworkError ==
  \/ link # "up" /\ UNCHANGED losses
  \/ link = "up" /\ losses < MaxLosses /\ losses' = losses + 1

\* The request may have reached the server all the same.
Abandon(i) ==
  /\ strays' = [strays EXCEPT ![i] = @ + IF request[i] \in {"sent", "creating"} THEN 1 ELSE 0]
  /\ request' = [request EXCEPT ![i] = "none"]

Answered(i, answer) ==
  /\ link = "up"
  /\ request[i] = answer
  /\ request' = [request EXCEPT ![i] = "none"]

\* processQueue, called with isOnline as given and q the queries under way.
ProcessQueue(isOnline, q) ==
  IF isOnline /\ syncer = "off"
    THEN syncer' = "next" /\ db' = Append(q, Query("next", None))
    ELSE UNCHANGED syncer /\ db' = q

----------------------------------------------------------------------------
(* Checkout                                                                *)

\* Online the sale is posted, offline it is queued.
Checkout(i) ==
  /\ fate[i] = "new"
  /\ \/ /\ online
        /\ fate' = [fate EXCEPT ![i] = "posting"]
        /\ request' = [request EXCEPT ![i] = "sent"]
        /\ UNCHANGED db
     \/ /\ ~online
        /\ fate' = [fate EXCEPT ![i] = "saving"]
        /\ db' = Append(db, Query("insert", i))
        /\ UNCHANGED request
  /\ UNCHANGED <<rows, attempts, syncer, current, online, probing, link, strays, made, bounds>>

\* The answer comes, and the cashier sees the receipt or the error.
PostAnswered(i) ==
  /\ fate[i] = "posting"
  /\ \/ Answered(i, "accepted") /\ fate' = [fate EXCEPT ![i] = "synced"]
     \/ Answered(i, "refused") /\ fate' = [fate EXCEPT ![i] = "declined"]
  /\ UNCHANGED <<rows, attempts, db, syncer, current, online, probing, link, strays, made, bounds>>

\* Or a network error: the sale is queued, under the same key.
PostFails(i) ==
  /\ fate[i] = "posting"
  /\ NetworkError
  /\ Abandon(i)
  /\ fate' = [fate EXCEPT ![i] = "saving"]
  /\ db' = Append(db, Query("insert", i))
  /\ UNCHANGED <<rows, attempts, syncer, current, online, probing, link, made, flaps, crashes, discarded>>

----------------------------------------------------------------------------
(* The outbox: SQLite answers its oldest query                             *)

Answers(op) == db # <<>> /\ Head(db).op = op

\* enqueue: insert the row, ...
RowInserted ==
  LET i == Head(db).sale IN
  /\ Answers("insert")
  /\ rows' = Append(rows, i)
  /\ fate' = [fate EXCEPT ![i] = "queued"]
  /\ db' = Append(Tail(db), Query("recount", None))
  /\ UNCHANGED <<attempts, syncer, current, online, probing, link, remote, bounds>>

\* ... count the rows, and process the queue if online.
Enqueued ==
  /\ Answers("recount")
  /\ ProcessQueue(online, Tail(db))
  /\ UNCHANGED <<fate, rows, attempts, current, online, probing, link, remote, bounds>>

\* Fault: no limit on the attempts.
Fault_Pending == ToSet(rows)

Pending == {i \in ToSet(rows) : attempts[i] < MaxAttempts}

\* processQueue: send the oldest row ...
NextSent ==
  /\ Answers("next")
  /\ \E k \in DOMAIN rows :
       /\ rows[k] \in Pending /\ \A j \in 1..(k - 1) : rows[j] \notin Pending
       /\ current' = rows[k]
       /\ request' = [request EXCEPT ![rows[k]] = "sent"]
  /\ db' = Tail(db)
  /\ syncer' = "send"
  /\ UNCHANGED <<fate, rows, attempts, online, probing, link, strays, made, bounds>>

\* ... or, when there is none, leave the loop.
NothingPending ==
  /\ Answers("next")
  /\ Pending = {}
  /\ db' = Append(Tail(db), Query("count", None))
  /\ syncer' = "count"
  /\ UNCHANGED <<fate, rows, attempts, current, online, probing, link, remote, bounds>>

\* markFailed; _processItem returns true all the same.
FailureMarked ==
  /\ Answers("mark")
  /\ attempts' = [attempts EXCEPT ![current] = @ + 1]
  /\ db' = Append(Tail(db), Query("delete", current))
  /\ syncer' = "delete"
  /\ UNCHANGED <<fate, rows, current, online, probing, link, remote, bounds>>

DeleteRow(i) ==
  \/ \E k \in DOMAIN rows : rows[k] = i /\ rows' = RemoveAt(rows, k)
  \/ ~Queued(i) /\ UNCHANGED rows

RowDeleted ==
  LET again == IF online THEN "next" ELSE "count" IN
  /\ Answers("delete")
  /\ DeleteRow(current)
  /\ db' = Append(Tail(db), Query(again, None))
  /\ syncer' = again
  /\ current' = None
  /\ UNCHANGED <<fate, attempts, online, probing, link, remote, bounds>>

\* Fault: no finally block, isSyncing stays true.
Fault_LoopDone ==
  /\ Answers("count")
  /\ db' = Tail(db)
  /\ UNCHANGED <<fate, rows, attempts, syncer, current, online, probing, link, remote, bounds>>

\* The finally block: isSyncing becomes false.
LoopDone ==
  /\ Answers("count")
  /\ db' = Tail(db)
  /\ syncer' = "off"
  /\ UNCHANGED <<fate, rows, attempts, current, online, probing, link, remote, bounds>>

\* discardItem.
Discarded ==
  /\ Answers("discard")
  /\ DeleteRow(Head(db).sale)
  /\ db' = Tail(db)
  /\ UNCHANGED <<fate, attempts, syncer, current, online, probing, link, remote, bounds>>

DbAnswers ==
  \/ RowInserted \/ Enqueued \/ NextSent \/ NothingPending
  \/ FailureMarked \/ RowDeleted \/ LoopDone \/ Discarded

----------------------------------------------------------------------------
(* The outbox: the server answers, or does not                             *)

\* _processItem: a 2xx answer deletes the row, any other one marks it failed.
SendAnswered ==
  LET ends(next) ==
        syncer' = next /\ db' = Append(db, Query(next, current))
  IN
  /\ syncer = "send"
  /\ \/ /\ Answered(current, "accepted")
        /\ fate' = [fate EXCEPT ![current] = "synced"]
        /\ ends("delete")
     \/ /\ Answered(current, "refused")
        /\ fate' = [fate EXCEPT ![current] = "rejected"]
        /\ ends("mark")
  /\ UNCHANGED <<rows, attempts, current, online, probing, link, strays, made, bounds>>

\* Fault: the row is deleted after a network error too.
Fault_SendFails ==
  /\ syncer = "send"
  /\ NetworkError
  /\ Abandon(current)
  /\ online' = FALSE
  /\ syncer' = "delete"
  /\ db' = Append(db, Query("delete", current))
  /\ UNCHANGED <<fate, rows, attempts, current, probing, link, made, flaps, crashes, discarded>>

\* A network error keeps the row, goes offline and leaves the loop.
SendFails ==
  /\ syncer = "send"
  /\ NetworkError
  /\ Abandon(current)
  /\ online' = FALSE
  /\ syncer' = "count"
  /\ current' = None
  /\ db' = Append(db, Query("count", None))
  /\ UNCHANGED <<fate, rows, attempts, probing, link, made, flaps, crashes, discarded>>

----------------------------------------------------------------------------
(* The server                                                              *)

\* The key is looked up before the transaction starts ...
LookUp(i) ==
  /\ link = "up"
  /\ request[i] = "sent"
  /\ request' = [request EXCEPT ![i] = IF made[i] > 0 THEN "accepted" ELSE "creating"]
  /\ UNCHANGED <<local, link, strays, made, bounds>>

\* Fault: no unique index on (location_id, idempotency_key).
Fault_Insert(i) == made' = [made EXCEPT ![i] = @ + 1]

\* ... in which the index lets the first insert pass; the others get its sale.
Insert(i) == made' = [made EXCEPT ![i] = IF @ = 0 THEN 1 ELSE @]

\* Fault: an error after the commit is reported as a failed checkout.
Fault_Create(i) ==
  /\ request[i] = "creating"
  /\ Insert(i)
  /\ \E answer \in {"accepted", "refused"} : request' = [request EXCEPT ![i] = answer]
  /\ UNCHANGED <<local, link, strays, bounds>>

Create(i) ==
  /\ request[i] = "creating"
  /\ Insert(i)
  /\ request' = [request EXCEPT ![i] = "accepted"]
  /\ UNCHANGED <<local, link, strays, bounds>>

\* Out of stock, over the credit limit, session expired, server error.
Refuse(i) ==
  /\ \/ request[i] = "sent" /\ link = "up"
     \/ request[i] = "creating"
  /\ request' = [request EXCEPT ![i] = "refused"]
  /\ UNCHANGED <<local, link, strays, made, bounds>>

\* A request that nobody awaits commits, or comes to nothing.
StrayEnds(i) ==
  /\ strays[i] > 0
  /\ strays' = [strays EXCEPT ![i] = @ - 1]
  /\ Insert(i) \/ UNCHANGED made
  /\ UNCHANGED <<local, link, request, bounds>>

----------------------------------------------------------------------------
(* The network, the probe, the operator and crashes                        *)

\* _onConnectivity sets isOnline to false when the network is gone.
LinkChanges(l) ==
  /\ flaps < MaxFlaps
  /\ link # l
  /\ link' = l
  /\ flaps' = flaps + 1
  /\ online' = (online /\ l # "none")
  /\ UNCHANGED <<fate, rows, attempts, db, syncer, current, probing, remote, losses, crashes, discarded>>

\* The timer runs while there is connectivity.
ProbeStarts ==
  /\ link # "none"
  /\ ~probing
  /\ probing' = TRUE
  /\ UNCHANGED <<fate, rows, attempts, db, syncer, current, online, link, remote, bounds>>

\* Back online: process the queue, unless isSyncing.
ProbeSucceeds ==
  /\ probing
  /\ link = "up"
  /\ probing' = FALSE
  /\ online' = TRUE
  /\ ProcessQueue(~online, db)
  /\ UNCHANGED <<fate, rows, attempts, current, link, remote, bounds>>

ProbeFails ==
  /\ probing
  /\ NetworkError
  /\ probing' = FALSE
  /\ online' = FALSE
  /\ UNCHANGED <<fate, rows, attempts, db, syncer, current, link, remote, flaps, crashes, discarded>>

\* "Retry now" of the sync health page.
Retry ==
  /\ online /\ syncer = "off"
  /\ ProcessQueue(online, db)
  /\ UNCHANGED <<fate, rows, attempts, current, online, probing, link, remote, bounds>>

\* "Discard" of an item listed there, which may be under way to the server.
Discard(i) ==
  /\ Queued(i) /\ i \notin discarded
  /\ Cardinality(discarded) < MaxDiscards
  /\ discarded' = discarded \cup {i}
  /\ db' = Append(db, Query("discard", i))
  /\ UNCHANGED <<fate, rows, attempts, syncer, current, online, probing, link, remote,
                 losses, flaps, crashes>>

\* The app is killed and started again: only the table survives.  A sale that
\* was neither answered nor stored is unfinished: its cart is gone.
Crash ==
  /\ crashes < MaxCrashes
  /\ crashes' = crashes + 1
  /\ db' = <<>>
  /\ syncer' = "off" /\ current' = None
  /\ online' = FALSE /\ probing' = FALSE
  /\ fate' = [i \in Sales |->
       IF fate[i] \in {"posting", "saving"} THEN "unfinished" ELSE fate[i]]
  /\ strays' = [i \in Sales |->
       strays[i] + IF request[i] \in {"sent", "creating"} THEN 1 ELSE 0]
  /\ request' = [i \in Sales |-> "none"]
  /\ UNCHANGED <<rows, attempts, link, made, losses, flaps, discarded>>
----------------------------------------------------------------------------

Till ==
  \/ \E i \in Sales : Checkout(i) \/ PostAnswered(i) \/ PostFails(i)
  \/ DbAnswers \/ SendAnswered \/ SendFails
  \/ ProbeStarts \/ ProbeSucceeds \/ ProbeFails

Server == \E i \in Sales : LookUp(i) \/ Create(i) \/ Refuse(i) \/ StrayEnds(i)

World ==
  \/ \E l \in {"none", "lan", "up"} : LinkChanges(l)
  \/ Retry \/ (\E i \in Sales : Discard(i)) \/ Crash

Next == Till \/ Server \/ World

Spec == Init /\ [][Next]_vars

\* The app's event loop and timers run, the server works, and a request that
\* cannot be answered fails in the end.  Nobody has to check out, retry or
\* crash, and no request has to get lost while the server is up.
FairSpec ==
  /\ Spec
  /\ WF_vars(DbAnswers)
  /\ WF_vars(SendAnswered) /\ WF_vars(link # "up" /\ SendFails)
  /\ WF_vars(ProbeStarts) /\ WF_vars(ProbeSucceeds)
  /\ WF_vars(link # "up" /\ ProbeFails)
  /\ \A i \in Sales :
       /\ WF_vars(PostAnswered(i)) /\ WF_vars(link # "up" /\ PostFails(i))
       /\ WF_vars(LookUp(i)) /\ WF_vars(Create(i))

\* An operator presses "Retry now" as long as the till is online and idle.
OperatorSpec == FairSpec /\ WF_vars(Retry)

----------------------------------------------------------------------------
(* Properties                                                              *)

LoopOps == {"next", "mark", "delete", "count"}

TypeOK ==
  /\ fate \in [Sales -> {"new", "posting", "saving", "queued", "synced", "declined",
                         "rejected", "unfinished"}]
  /\ rows \in Seq(Sales)
  /\ attempts \in [Sales -> 0..MaxAttempts]
  /\ db \in Seq([op : LoopOps \cup {"insert", "recount", "discard"},
                 sale : Sales \cup {None}])
  /\ syncer \in LoopOps \cup {"off", "send"}
  /\ current \in Sales \cup {None}
  /\ online \in BOOLEAN /\ probing \in BOOLEAN
  /\ link \in {"none", "lan", "up"}
  /\ request \in [Sales -> {"none", "sent", "creating", "accepted", "refused"}]
  /\ strays \in [Sales -> Nat]
  /\ made \in [Sales -> Nat]
  /\ losses \in 0..MaxLosses /\ flaps \in 0..MaxFlaps /\ crashes \in 0..MaxCrashes
  /\ discarded \subseteq Sales

\* MODULE_UAT_MATRIX.md:25, "syncs once online without duplicate posting": the
\* server records a sale once, however often a till sends it that never learnt
\* of the first answer or crashed before it deleted the row.  The till takes a
\* sale for synced only if the server has it, and a cashier who is shown an
\* error at checkout, and rings the sale up again, is not charging the customer
\* twice: the server has not recorded it, and never will.
Honest ==
  \A i \in Sales :
    /\ made[i] <= 1
    /\ fate[i] = "synced" => made[i] = 1
    /\ fate[i] = "declined" => made[i] = 0 /\ strays[i] = 0

\* isSyncing admits one loop at a time, however many callbacks start one: it
\* awaits one thing, and works on a row exactly while it sends or removes it.
OneLoop ==
  /\ Cardinality({k \in DOMAIN db : db[k].op \in LoopOps}) =
       IF syncer \in {"off", "send"} THEN 0 ELSE 1
  /\ current # None <=> syncer \in {"send", "mark", "delete"}
  /\ \A i \in Sales : request[i] # "none" =>
       fate[i] = "posting" \/ (syncer = "send" /\ current = i)

\* A queued sale stays in the table until the server has answered, through lost
\* answers, connectivity changes and crashes of the app, and one loop at a time works
\* on the table, however many callbacks call processQueue.
Kept ==
  /\ \A i \in Sales : fate[i] = "queued" => Queued(i) \/ i \in discarded
  /\ OneLoop

\* OPERATOR_SOPS.md:29, "At connectivity recovery, confirm the outbox queue clears",
\* of the items that have attempts left: one that a crash left behind marked failed
\* waits for a discard.
QueueDrains == <>[](link = "up") => []<>(Pending = {})

\* The sync health page is to "view/retry/discard queued items"
\* (module_wise_feature_list.md:52): a queued sale that the server has not
\* recorded is there to be retried unless the operator has discarded it.
NothingLost ==
  \A i \in Sales :
    fate[i] \in {"queued", "rejected"} => Queued(i) \/ made[i] > 0 \/ i \in discarded
=============================================================================
