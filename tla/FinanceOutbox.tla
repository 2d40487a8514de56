--------------------------- MODULE FinanceOutbox ---------------------------
(***************************************************************************)
(* The backend finance-integrity outbox                                    *)
(* (go_backend_rmt/internal/services/finance_integrity_service.go).        *)
(*                                                                         *)
(* A business document (sale, purchase, collection, ...) is written in one *)
(* transaction together with one outbox row per secondary effect it needs. *)
(* After the commit, the same request walks those rows; an operator may    *)
(* replay the backlog or repair missing ledger postings; a repeated client *)
(* request (same idempotency key) walks the rows again.  Every walk is a   *)
(* worker.  The database runs at READ COMMITTED and takes no row lock on   *)
(* the outbox, so each statement of a worker is one step here.             *)
(*                                                                         *)
(* Simplifications:                                                        *)
(*   - amounts, accounts and payloads are left out; a posting is a count;  *)
(*   - LIMIT of the replay and repair queries exceeds the number of rows;  *)
(*   - outbox_id orders the rows of one document (their enqueue order);    *)
(*     across documents, serial ids of concurrent transactions give no     *)
(*     order to rely on, and a worker may take them in any order;          *)
(*   - all documents with a coupon carry the same code;                    *)
(*   - other validation errors of a handler (points short, coupon expired, *)
(*     a deleted document) are the nondeterministic HandlerError;          *)
(*   - a row that a walk fails to load is one it has not selected;         *)
(*   - no document is edited, voided or deleted (SaleEdit has the edits).  *)
(*                                                                         *)
(* Operators named Fault_... are used by no action: each is a wrong form   *)
(* of the definition after it, and some property must refute it.           *)
(***************************************************************************)
EXTENDS Naturals, FiniteSets

CONSTANTS
  Docs,          \* committed business documents of one company and location
  HeldDocs,      \* the subset finalized from a held sale
  KindsOf,       \* KindsOf[d]: the secondary effects document d needs
  Workers,       \* concurrent requests that walk the outbox
  Lines,         \* ledger lines of a document (RecordSale writes up to six)
  CouponLimit,   \* usage_limit_per_coupon; 0 is no limit
  MaxFaults,     \* bound: crashes and failed bookkeeping statements
  MaxErrors,     \* bound: handler errors
  MaxSessions,   \* bound: cash register sessions
  NoDoc, NoEntry

Kinds == {"ledger", "cash", "award", "redeem", "coupon", "raffle"}

ASSUME ConstantsOK ==
  /\ HeldDocs \subseteq Docs
  /\ KindsOf \in [Docs -> SUBSET Kinds]
  /\ \A d \in Docs : "ledger" \in KindsOf[d]
  /\ Lines \in Nat \ {0} /\ CouponLimit \in Nat
  /\ MaxFaults \in Nat /\ MaxErrors \in Nat /\ MaxSessions \in Nat
  /\ NoDoc \notin Docs
  /\ NoEntry \notin Docs \X Kinds

\* One row of finance_integrity_outbox: UNIQUE (event_type, aggregate).
Entries == Docs \X Kinds
Doc(e) == e[1]
Kind(e) == e[2]
EntriesOf(d) == {d} \X Kinds

Statuses == {"ABSENT", "PENDING", "PROCESSING", "FAILED", "COMPLETED"}
Retryable == {"PENDING", "FAILED"}

\* A ledger posting is several autocommitted lines; every other effect is one.
LinesOf(e) == IF Kind(e) = "ledger" THEN Lines ELSE 1
Sessions == 1..MaxSessions

\* The order in which CreateSaleWithOptions enqueues (hence outbox_id order).
EnqueueRank == [k \in Kinds |->
  CASE k = "ledger" -> 1 [] k = "cash" -> 2 [] k = "award" -> 3
    [] k = "redeem" -> 4 [] k = "coupon" -> 5 [] OTHER -> 6]

VARIABLES
  committed,  \* documents whose primary transaction has committed
  status,     \* status[e] of the outbox row, "ABSENT" when there is none
  due,        \* due[e]: next_attempt_at <= now
  posted,     \* posted[e][i]: how often line i of effect e was written
  waived,     \* history: effects a handler found not to apply
  redeemer,   \* redeemed_sale_id of the coupon code, NoDoc at first
  redeemed,   \* its redeem_count
  register,   \* number of the latest cash register session (0: none yet)
  isOpen,     \* that session is OPEN
  drawer,     \* drawer[s][d]: events recorded in session s for document d
  pc,         \* where each worker is
  target,     \* the aggregate a worker scans, NoDoc for a replay
  todo,       \* row ids a worker has read and not yet processed
  cur,        \* the entry a worker is processing
  line,       \* the line of that entry the worker is at
  faults, errors

outbox  == <<committed, status, due>>
coupon  == <<redeemer, redeemed>>
effects == <<posted, waived, coupon, register, isOpen, drawer>>
workers == <<pc, target, todo, cur, line>>
bounds  == <<faults, errors>>
vars == <<committed, status, due, posted, waived, redeemer, redeemed, register,
          isOpen, drawer, pc, target, todo, cur, line, faults, errors>>

Steps == {"idle", "enqueue", "scan", "next", "mark", "check", "apply",
          "complete", "fail"}

Init ==
  /\ committed = {}
  /\ status = [e \in Entries |-> "ABSENT"]
  /\ due = [e \in Entries |-> FALSE]
  /\ posted = [e \in Entries |-> [i \in 1..Lines |-> 0]]
  /\ waived = {}
  /\ redeemer = NoDoc /\ redeemed = 0
  /\ register = 0
  /\ isOpen = FALSE
  /\ drawer = [s \in Sessions |-> [d \in Docs |-> 0]]
  /\ pc = [w \in Workers |-> "idle"]
  /\ target = [w \in Workers |-> NoDoc]
  /\ todo = [w \in Workers |-> {}]
  /\ cur = [w \in Workers |-> NoEntry]
  /\ line = [w \in Workers |-> 1]
  /\ faults = 0
  /\ errors = 0

----------------------------------------------------------------------------
(* Transactions that write documents and rows                              *)

\* EnqueueTx for a set of rows: insert, or on conflict make the row due again
\* and PENDING unless it is COMPLETED.
EnqueueTx(rows) ==
  /\ status' = [e \in Entries |->
       IF e \in rows /\ status[e] # "COMPLETED" THEN "PENDING" ELSE status[e]]
  /\ due' = [e \in Entries |-> e \in rows \/ due[e]]

\* The document's transaction commits, rows included, and the request goes on
\* to ProcessAggregate.
CommitDocument(w, d) ==
  /\ pc[w] = "idle"
  /\ d \notin committed \cup HeldDocs
  /\ committed' = committed \cup {d}
  /\ EnqueueTx({d} \X KindsOf[d])
  /\ pc' = [pc EXCEPT ![w] = "scan"]
  /\ target' = [target EXCEPT ![w] = d]
  /\ UNCHANGED <<effects, todo, cur, line, bounds>>

\* finalizeHeldSale completes the sale and enqueues nothing.
FinalizeHeldSale(d) ==
  /\ d \in HeldDocs \ committed
  /\ committed' = committed \cup {d}
  /\ UNCHANGED <<status, due, effects, workers, bounds>>

\* A repeated request finds its document by idempotency key and walks it again.
RepeatRequest(w, d) ==
  /\ pc[w] = "idle"
  /\ d \in committed \ HeldDocs
  /\ pc' = [pc EXCEPT ![w] = "scan"]
  /\ target' = [target EXCEPT ![w] = d]
  /\ UNCHANGED <<outbox, effects, todo, cur, line, bounds>>

----------------------------------------------------------------------------
(* Operator requests                                                       *)

\* Replay without ids (the Replay Outbox button).
Replay(w) ==
  /\ pc[w] = "idle"
  /\ pc' = [pc EXCEPT ![w] = "scan"]
  /\ UNCHANGED <<outbox, effects, target, todo, cur, line, bounds>>

\* Replay with explicit outbox ids (the API only): any row, whatever its status.
ReplayIds(w, e) ==
  /\ pc[w] = "idle"
  /\ status[e] # "ABSENT"
  /\ todo' = [todo EXCEPT ![w] = {e}]
  /\ pc' = [pc EXCEPT ![w] = "next"]
  /\ UNCHANGED <<outbox, effects, target, cur, line, bounds>>

\* Documents with not a single ledger line.
MissingLedger ==
  {e \in committed \X {"ledger"} : \A i \in 1..Lines : posted[e][i] = 0}

\* RepairMissingLedger first reads the documents that have no ledger line ...
RepairScan(w) ==
  /\ pc[w] = "idle"
  /\ MissingLedger # {}
  /\ todo' = [todo EXCEPT ![w] = MissingLedger]
  /\ pc' = [pc EXCEPT ![w] = "enqueue"]
  /\ UNCHANGED <<outbox, effects, target, cur, line, bounds>>

\* ... then enqueues their ledger rows in one transaction and replays.
RepairEnqueue(w) ==
  /\ pc[w] = "enqueue"
  /\ EnqueueTx(todo[w])
  /\ todo' = [todo EXCEPT ![w] = {}]
  /\ pc' = [pc EXCEPT ![w] = "scan"]
  /\ UNCHANGED <<committed, effects, target, cur, line, bounds>>

----------------------------------------------------------------------------
(* A worker walks the rows                                                 *)

\* Fault: the replay query takes PENDING rows only.
Fault_ScanPendingOnly(w) ==
  {e \in Entries :
     /\ status[e] = "PENDING"
     /\ IF target[w] = NoDoc THEN due[e] ELSE Doc(e) = target[w]}

\* The rows ProcessAggregate (a target) or Replay (no target) selects.
Selected(w) ==
  {e \in Entries :
     /\ status[e] \in Retryable
     /\ IF target[w] = NoDoc THEN due[e] ELSE Doc(e) = target[w]}

Scan(w) ==
  /\ pc[w] = "scan"
  /\ todo' = [todo EXCEPT ![w] = Selected(w)]
  /\ target' = [target EXCEPT ![w] = NoDoc]
  /\ pc' = [pc EXCEPT ![w] = "next"]
  /\ UNCHANGED <<outbox, effects, cur, line, bounds>>

\* e comes first, in outbox_id order, among the ids of its document.
IsNext(w, e) ==
  /\ e \in todo[w]
  /\ \A f \in todo[w] :
       Doc(f) = Doc(e) => EnqueueRank[Kind(e)] <= EnqueueRank[Kind(f)]

\* processEntry loads the row; a COMPLETED row is left alone.
SkipCompleted(w, e) ==
  /\ pc[w] = "next"
  /\ IsNext(w, e)
  /\ status[e] = "COMPLETED"
  /\ todo' = [todo EXCEPT ![w] = @ \ {e}]
  /\ UNCHANGED <<outbox, effects, pc, target, cur, line, bounds>>

\* Fault: processEntry does not leave a COMPLETED row alone.
Fault_LoadAnyEntry(w, e) ==
  /\ pc[w] = "next"
  /\ IsNext(w, e)
  /\ todo' = [todo EXCEPT ![w] = @ \ {e}]
  /\ cur' = [cur EXCEPT ![w] = e]
  /\ pc' = [pc EXCEPT ![w] = "mark"]
  /\ UNCHANGED <<outbox, effects, target, line, bounds>>

LoadEntry(w, e) ==
  /\ pc[w] = "next"
  /\ IsNext(w, e)
  /\ status[e] # "COMPLETED"
  /\ todo' = [todo EXCEPT ![w] = @ \ {e}]
  /\ cur' = [cur EXCEPT ![w] = e]
  /\ pc' = [pc EXCEPT ![w] = "mark"]
  /\ UNCHANGED <<outbox, effects, target, line, bounds>>

EndRequest(w) ==
  /\ pc[w] = "next"
  /\ todo[w] = {}
  /\ pc' = [pc EXCEPT ![w] = "idle"]
  /\ UNCHANGED <<outbox, effects, target, todo, cur, line, bounds>>

\* Fault: the row is marked done before its handler runs.
Fault_MarkDoneFirst(w) ==
  /\ pc[w] = "mark"
  /\ status' = [status EXCEPT ![cur[w]] = "COMPLETED"]
  /\ line' = [line EXCEPT ![w] = 1]
  /\ pc' = [pc EXCEPT ![w] = "check"]
  /\ UNCHANGED <<committed, due, effects, target, todo, cur, bounds>>

\* UPDATE ... SET status = 'PROCESSING', whatever the row says by now.
MarkProcessing(w) ==
  /\ pc[w] = "mark"
  /\ status' = [status EXCEPT ![cur[w]] = "PROCESSING"]
  /\ line' = [line EXCEPT ![w] = 1]
  /\ pc' = [pc EXCEPT ![w] = "check"]
  /\ UNCHANGED <<committed, due, effects, target, todo, cur, bounds>>

----------------------------------------------------------------------------
(* Handlers                                                                *)

\* Fault: one line too many.
Fault_AdvancePastEnd(w) ==
  IF line[w] <= LinesOf(cur[w])
    THEN /\ line' = [line EXCEPT ![w] = @ + 1]
         /\ pc' = [pc EXCEPT ![w] = "check"]
    ELSE /\ pc' = [pc EXCEPT ![w] = "complete"]
         /\ UNCHANGED line

\* On to the next line of the entry, or to the final status update.
Advance(w) ==
  IF line[w] < LinesOf(cur[w])
    THEN /\ line' = [line EXCEPT ![w] = @ + 1]
         /\ pc' = [pc EXCEPT ![w] = "check"]
    ELSE /\ pc' = [pc EXCEPT ![w] = "complete"]
         /\ UNCHANGED line

\* Fault: the handler writes without looking for an earlier posting.
Fault_NoLook(w) ==
  /\ pc[w] = "check"
  /\ Kind(cur[w]) # "cash"
  /\ pc' = [pc EXCEPT ![w] = "apply"]
  /\ UNCHANGED <<outbox, effects, target, todo, cur, line, bounds>>

\* What the handler looks for is there: a ledger line, award, redemption or
\* raffle coupon of this document, or a coupon code last redeemed by it.
Seen(w) ==
  IF Kind(cur[w]) = "coupon"
    THEN redeemer = Doc(cur[w])
    ELSE posted[cur[w]][line[w]] > 0

\* Fault: the limit is compared too late by one.
Fault_UsedUp == CouponLimit > 0 /\ redeemed > CouponLimit

UsedUp == CouponLimit > 0 /\ redeemed >= CouponLimit

\* Every handler looks for an earlier posting before it writes one.  The look
\* is a statement (or the snapshot of one) before the write, under no lock.
CheckPosted(w) ==
  /\ pc[w] = "check"
  /\ Kind(cur[w]) # "cash"
  /\ Kind(cur[w]) = "coupon" => Seen(w) \/ ~UsedUp
  /\ IF Seen(w)
       THEN Advance(w)
       ELSE pc' = [pc EXCEPT ![w] = "apply"] /\ UNCHANGED line
  /\ UNCHANGED <<outbox, effects, target, todo, cur, bounds>>

\* ValidateCouponCode: "coupon code already used".
CouponRefused(w) ==
  /\ pc[w] = "check"
  /\ Kind(cur[w]) = "coupon"
  /\ ~Seen(w) /\ UsedUp
  /\ pc' = [pc EXCEPT ![w] = "fail"]
  /\ UNCHANGED <<outbox, effects, target, todo, cur, line, bounds>>

\* The limit of a coupon is not looked at again when its row is locked.
Redeem(w) ==
  IF Kind(cur[w]) = "coupon"
    THEN redeemer' = Doc(cur[w]) /\ redeemed' = redeemed + 1
    ELSE UNCHANGED coupon

Apply(w) ==
  /\ pc[w] = "apply"
  /\ posted' = [posted EXCEPT ![cur[w]][line[w]] = @ + 1]
  /\ Redeem(w)
  /\ Advance(w)
  /\ UNCHANGED <<outbox, waived, register, isOpen, drawer, target, todo, cur,
                 bounds>>

\* AwardPoints for a customer not enrolled, raffle issue with no definition.
NothingToDo(w) ==
  /\ pc[w] = "check"
  /\ Kind(cur[w]) \in {"award", "raffle"}
  /\ waived' = waived \cup {cur[w]}
  /\ pc' = [pc EXCEPT ![w] = "complete"]
  /\ UNCHANGED <<outbox, posted, coupon, register, isOpen, drawer, target, todo,
                 cur, line, bounds>>

\* Fault: the request id of a cash event is not looked up.
Fault_CashNoLook(w) ==
  /\ pc[w] = "check"
  /\ Kind(cur[w]) = "cash"
  /\ IF isOpen
       THEN drawer' = [drawer EXCEPT ![register][Doc(cur[w])] = @ + 1]
       ELSE UNCHANGED drawer
  /\ pc' = [pc EXCEPT ![w] = "complete"]
  /\ UNCHANGED <<outbox, posted, waived, coupon, register, isOpen, target, todo,
                 cur, line, bounds>>

\* RecordCashTransactionTx: one transaction that locks the OPEN register row,
\* skips when that register has the event already, and does nothing, with
\* success, when no register is open.
PostCash(w) ==
  /\ pc[w] = "check"
  /\ Kind(cur[w]) = "cash"
  /\ IF isOpen /\ drawer[register][Doc(cur[w])] = 0
       THEN drawer' = [drawer EXCEPT ![register][Doc(cur[w])] = @ + 1]
       ELSE UNCHANGED drawer
  /\ pc' = [pc EXCEPT ![w] = "complete"]
  /\ UNCHANGED <<outbox, posted, waived, coupon, register, isOpen, target, todo,
                 cur, line, bounds>>

HandlerError(w) ==
  /\ pc[w] \in {"check", "apply"}
  /\ errors < MaxErrors
  /\ errors' = errors + 1
  /\ pc' = [pc EXCEPT ![w] = "fail"]
  /\ UNCHANGED <<outbox, effects, target, todo, cur, line, faults>>

----------------------------------------------------------------------------
(* The final status update, unconditional like the first one               *)

NextEntry(w) ==
  /\ pc' = [pc EXCEPT ![w] = "next"]
  /\ cur' = [cur EXCEPT ![w] = NoEntry]
  /\ line' = [line EXCEPT ![w] = 1]

MarkCompleted(w) ==
  /\ pc[w] = "complete"
  /\ status' = [status EXCEPT ![cur[w]] = "COMPLETED"]
  /\ due' = [due EXCEPT ![cur[w]] = TRUE]
  /\ NextEntry(w)
  /\ UNCHANGED <<committed, effects, target, todo, bounds>>

\* Fault: the error of a handler is swallowed and the row closed.
Fault_SwallowError(w) ==
  /\ pc[w] = "fail"
  /\ status' = [status EXCEPT ![cur[w]] = "COMPLETED"]
  /\ due' = [due EXCEPT ![cur[w]] = TRUE]
  /\ NextEntry(w)
  /\ UNCHANGED <<committed, effects, target, todo, bounds>>

MarkFailed(w) ==
  /\ pc[w] = "fail"
  /\ status' = [status EXCEPT ![cur[w]] = "FAILED"]
  /\ due' = [due EXCEPT ![cur[w]] = FALSE]
  /\ NextEntry(w)
  /\ UNCHANGED <<committed, effects, target, todo, bounds>>

----------------------------------------------------------------------------
(* Faults and the environment                                              *)

\* A status update fails (connection lost): processEntry returns the error and
\* the walk goes on with the next id; the row keeps the status it had.
StatusUpdateError(w) ==
  /\ pc[w] \in {"mark", "complete", "fail"}
  /\ faults < MaxFaults
  /\ faults' = faults + 1
  /\ NextEntry(w)
  /\ UNCHANGED <<outbox, effects, target, todo, errors>>

\* The query or the transaction of a scan or a repair fails: the request ends.
QueryError(w) ==
  /\ pc[w] \in {"scan", "enqueue"}
  /\ faults < MaxFaults
  /\ faults' = faults + 1
  /\ pc' = [pc EXCEPT ![w] = "idle"]
  /\ target' = [target EXCEPT ![w] = NoDoc]
  /\ todo' = [todo EXCEPT ![w] = {}]
  /\ UNCHANGED <<outbox, effects, cur, line, errors>>

\* The server process dies: every walk is lost, the database stays.
Crash ==
  /\ faults < MaxFaults
  /\ faults' = faults + 1
  /\ pc' = [w \in Workers |-> "idle"]
  /\ target' = [w \in Workers |-> NoDoc]
  /\ todo' = [w \in Workers |-> {}]
  /\ cur' = [w \in Workers |-> NoEntry]
  /\ line' = [w \in Workers |-> 1]
  /\ UNCHANGED <<outbox, effects, errors>>

\* Five minutes after a failed attempt.
BecomeDue(e) ==
  /\ status[e] # "ABSENT"
  /\ ~due[e]
  /\ due' = [due EXCEPT ![e] = TRUE]
  /\ UNCHANGED <<committed, status, effects, workers, bounds>>

\* One register per location and date, and at most one of them OPEN.
OpenCashRegister ==
  /\ ~isOpen
  /\ register < MaxSessions
  /\ register' = register + 1
  /\ isOpen' = TRUE
  /\ UNCHANGED <<outbox, posted, waived, coupon, drawer, workers, bounds>>

CloseCashRegister ==
  /\ isOpen
  /\ isOpen' = FALSE
  /\ UNCHANGED <<outbox, posted, waived, coupon, register, drawer, workers, bounds>>

----------------------------------------------------------------------------

WorkerStep(w) ==
  \/ RepairEnqueue(w)
  \/ Scan(w)
  \/ \E e \in Entries : SkipCompleted(w, e) \/ LoadEntry(w, e)
  \/ EndRequest(w)
  \/ MarkProcessing(w)
  \/ CheckPosted(w)
  \/ CouponRefused(w)
  \/ Apply(w)
  \/ NothingToDo(w)
  \/ PostCash(w)
  \/ MarkCompleted(w)
  \/ MarkFailed(w)

Request(w) ==
  \/ \E d \in Docs : CommitDocument(w, d) \/ RepeatRequest(w, d)
  \/ Replay(w)
  \/ \E e \in Entries : ReplayIds(w, e)
  \/ RepairScan(w)

Fault ==
  \/ \E w \in Workers : HandlerError(w) \/ StatusUpdateError(w) \/ QueryError(w)
  \/ Crash

Environment ==
  \/ \E d \in Docs : FinalizeHeldSale(d)
  \/ \E e \in Entries : BecomeDue(e)
  \/ OpenCashRegister
  \/ CloseCashRegister

Next == (\E w \in Workers : WorkerStep(w) \/ Request(w)) \/ Fault \/ Environment

Spec == Init /\ [][Next]_vars

\* A running request goes on; an operator keeps pressing Replay Outbox, and a
\* failed row becomes due again.
Fairness ==
  /\ \A w \in Workers : WF_vars(WorkerStep(w))
  /\ \A w \in Workers : SF_vars(Replay(w))
  /\ \A e \in Entries : WF_vars(BecomeDue(e))

FairSpec == Spec /\ Fairness

----------------------------------------------------------------------------
(* Properties                                                              *)

\* Cash is the exception: an effect that may be settled without a posting.
Guaranteed == Docs \X (Kinds \ {"cash"})

Performed(e) == \A i \in 1..LinesOf(e) : posted[e][i] > 0
Discharged(e) == e \in waived \/ Performed(e)

\* Effects that some document needs, or that have a row.
Owed(e) ==
  \/ Doc(e) \in committed \ HeldDocs /\ Kind(e) \in KindsOf[Doc(e)]
  \/ status[e] # "ABSENT"

TypeOK ==
  /\ committed \subseteq Docs
  /\ status \in [Entries -> Statuses]
  /\ due \in [Entries -> BOOLEAN]
  /\ posted \in [Entries -> [1..Lines -> Nat]]
  /\ waived \subseteq Entries
  /\ redeemer \in Docs \cup {NoDoc}
  /\ redeemed \in Nat
  /\ register \in 0..MaxSessions
  /\ isOpen \in BOOLEAN
  /\ isOpen => register \in Sessions
  /\ drawer \in [Sessions -> [Docs -> Nat]]
  /\ pc \in [Workers -> Steps]
  /\ target \in [Workers -> Docs \cup {NoDoc}]
  /\ todo \in [Workers -> SUBSET Entries]
  /\ cur \in [Workers -> Entries \cup {NoEntry}]
  /\ \A w \in Workers :
       /\ pc[w] \in {"mark", "check", "apply", "complete", "fail"} =>
            cur[w] \in Entries
       /\ pc[w] \in {"check", "apply", "complete", "fail"} =>
            line[w] \in 1..LinesOf(cur[w])
  /\ line \in [Workers -> 1..Lines]
  /\ faults \in 0..MaxFaults
  /\ errors \in 0..MaxErrors

\* docs/FINANCIAL_INTEGRITY_HARDENING.md:12, "required secondary finance side
\* effects are never silently dropped": through crashes, failed statements and
\* any interleaving of walks, an owed effect (cash aside) has been discharged
\* or still has a row that is not COMPLETED.
NeverDropped ==
  \A e \in Guaranteed :
    Owed(e) => Discharged(e) \/ status[e] \in {"PENDING", "PROCESSING", "FAILED"}

\* Lines 92-93 of the same document: replay writes no ledger line, award,
\* redemption, coupon or raffle issue a second time.
AtMostOnce == \A e \in Guaranteed : \A i \in 1..Lines : posted[e][i] <= 1

\* A coupon code is redeemed no more often than its series allows, though the
\* sales that carry it were all priced while it was still available.
CouponLimitKept == CouponLimit > 0 => redeemed <= CouponLimit

\* With concurrent walks, the look-then-write handlers can duplicate an effect,
\* but only once per walk that looked before the first write: no later walk
\* repeats a posting it can see.  (A coupon code shows its last sale only.)
DuplicatesBounded ==
  \A e \in Guaranteed : \A i \in 1..Lines : Kind(e) # "coupon" =>
    posted[e][i] + Cardinality({w \in Workers :
        pc[w] = "apply" /\ cur[w] = e /\ line[w] = i}) <= Cardinality(Workers)

\* RecordCashTransactionTx is idempotent within one register session, whatever
\* walks overlap: the request id is looked up under the register's row lock.
SessionCashOnce == \A s \in Sessions, d \in Docs : drawer[s][d] <= 1

\* The operator's procedure works when nothing crashes and bookkeeping statements
\* do not fail: every row an operator can replay is eventually COMPLETED, handler
\* errors and overlapping walks included.
ReplayCompletes ==
  [](faults = 0) =>
    \A e \in Entries : status[e] \in Retryable ~> status[e] = "COMPLETED"

\* With one walk at a time the outbox keeps the promise, crashes included.
Promise == INSTANCE PostingPromise WITH
  Effects <- Guaranteed,
  debt <- [e \in Guaranteed |->
             CASE status[e] = "ABSENT" -> "none"
               [] status[e] = "COMPLETED" -> "settled"
               [] OTHER -> "owed"],
  times <- [e \in Guaranteed |-> posted[e][LinesOf(e)]],
  excused <- waived

KeepsPromise == Promise!Spec

----------------------------------------------------------------------------
(* What the documents and comments of the repository say, and runs refute  *)

\* FINANCIAL_INTEGRITY_HARDENING.md:57, "if the immediate replay fails, the
\* outbox row remains visible and replayable": when nothing is running, the
\* row of an effect still owed is one the Replay Outbox button selects.
OwedIsReplayable ==
  (\A w \in Workers : pc[w] = "idle") =>
    \A e \in Guaranteed : Owed(e) => Discharged(e) \/ status[e] \in Retryable

\* FINANCIAL_INTEGRITY_HARDENING.md:12 and 42, for the cash register event of
\* a document: a COMPLETED row has its event in some session.
CashNeverDropped ==
  \A d \in Docs : status[<<d, "cash">>] = "COMPLETED" =>
    \E s \in Sessions : drawer[s][d] > 0

\* cash_register_service.go:723, "If requestID+reasonCode was already recorded,
\* it is idempotent": one event per document over all sessions.
CashAtMostOnce ==
  \A d \in Docs : Cardinality({s \in Sessions : drawer[s][d] > 0}) <= 1

\* FINANCIAL_INTEGRITY_HARDENING.md:13 and 35, "any delayed side effect is
\* queued in the backend finance-integrity outbox": a committed document has a
\* row for each effect it needs.
EveryEffectQueued ==
  \A d \in committed : \A k \in KindsOf[d] : status[<<d, k>>] # "ABSENT"
=============================================================================
