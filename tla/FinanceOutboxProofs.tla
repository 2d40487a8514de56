------------------------ MODULE FinanceOutboxProofs ------------------------
(***************************************************************************)
(* Theorems of FinanceOutbox, for any set of documents, any number of      *)
(* workers and ledger lines, and any bound on faults.                      *)
(***************************************************************************)
EXTENDS FinanceOutbox, FiniteSetTheorems, TLAPS

\* A row's parts, and how many lines its effect has.
LEMMA EntryFacts ==
  ASSUME NEW e \in Entries
  PROVE  Doc(e) \in Docs /\ Kind(e) \in Kinds /\ LinesOf(e) \in 1..Lines
BY ConstantsOK DEF Entries, Doc, Kind, LinesOf

\* EnqueueTx writes well-typed rows.
LEMMA EnqueueTyped ==
  ASSUME TypeOK, NEW rows, EnqueueTx(rows)
  PROVE  status' \in [Entries -> Statuses] /\ due' \in [Entries -> BOOLEAN]
BY DEF TypeOK, EnqueueTx, Statuses

\* The entry and line a busy worker points at (a conjunct of TypeOK).
Processes(w) ==
  /\ pc[w] \in {"mark", "check", "apply", "complete", "fail"} => cur[w] \in Entries
  /\ pc[w] \in {"check", "apply", "complete", "fail"} => line[w] \in 1..LinesOf(cur[w])

\* What moving to the next line does to a worker that processes an entry.
LEMMA AdvanceTyped ==
  ASSUME TypeOK, NEW w \in Workers, pc[w] \in {"check", "apply"}, Advance(w),
         UNCHANGED cur
  PROVE  /\ pc' \in [Workers -> Steps]
         /\ line' \in [Workers -> 1..Lines]
         /\ \A v \in Workers : Processes(v)'
<1>1. cur[w] \in Entries /\ line[w] \in 1..LinesOf(cur[w])
  BY DEF TypeOK
<1>2. LinesOf(cur[w]) \in 1..Lines
  BY <1>1, EntryFacts
<1>3. CASE line[w] < LinesOf(cur[w])
  <2>1. /\ line' = [line EXCEPT ![w] = line[w] + 1]
        /\ pc' = [pc EXCEPT ![w] = "check"]
    BY <1>3 DEF Advance
  <2>2. line[w] + 1 \in 1..LinesOf(cur[w]) /\ line[w] + 1 \in 1..Lines
    BY <1>1, <1>2, <1>3, ConstantsOK
  <2>3. QED
    BY <1>1, <2>1, <2>2 DEF TypeOK, Processes, Steps
<1>4. CASE ~(line[w] < LinesOf(cur[w]))
  <2>1. line' = line /\ pc' = [pc EXCEPT ![w] = "complete"]
    BY <1>4 DEF Advance
  <2>2. QED
    BY <1>1, <2>1 DEF TypeOK, Processes, Steps
<1>5. QED
  BY <1>3, <1>4

\* Type correctness: every value a walk reads or leaves is one the table or
\* the worker may hold.
THEOREM TypeCorrect == Spec => []TypeOK
<1>1. Init => TypeOK
  <2> SUFFICES ASSUME Init PROVE TypeOK
    OBVIOUS
  <2>1. line \in [Workers -> 1..Lines] /\ 0 \in 0..MaxSessions
        /\ 0 \in 0..MaxFaults /\ 0 \in 0..MaxErrors
    BY ConstantsOK DEF Init
  <2>2. \A w \in Workers : pc[w] = "idle"
    BY DEF Init
  <2>3. QED
    BY <2>1, <2>2 DEF Init, TypeOK, Statuses, Steps
<1>2. TypeOK /\ [Next]_vars => TypeOK'
  <2> SUFFICES ASSUME TypeOK, [Next]_vars PROVE TypeOK'
    OBVIOUS
  <2> USE ConstantsOK
  <2>1. ASSUME NEW w \in Workers, NEW d \in Docs, CommitDocument(w, d)
        PROVE  TypeOK'
    <3>1. status' \in [Entries -> Statuses] /\ due' \in [Entries -> BOOLEAN]
      BY <2>1, EnqueueTyped DEF CommitDocument
    <3>2. QED
      BY <2>1, <3>1 DEF CommitDocument, TypeOK, coupon, effects, bounds, Steps
  <2>2. ASSUME NEW w \in Workers, NEW d \in Docs, RepeatRequest(w, d)
        PROVE  TypeOK'
    BY <2>2 DEF RepeatRequest, TypeOK, outbox, coupon, effects, bounds, Steps
  <2>3. ASSUME NEW w \in Workers, Replay(w) PROVE TypeOK'
    BY <2>3 DEF Replay, TypeOK, outbox, coupon, effects, bounds, Steps
  <2>4. ASSUME NEW w \in Workers, NEW e \in Entries, ReplayIds(w, e)
        PROVE  TypeOK'
    BY <2>4 DEF ReplayIds, TypeOK, outbox, coupon, effects, bounds, Steps
  <2>5. ASSUME NEW w \in Workers, RepairScan(w) PROVE TypeOK'
    <3>1. MissingLedger \in SUBSET Entries
      BY DEF MissingLedger, TypeOK, Entries, Kinds
    <3>2. QED
      BY <2>5, <3>1 DEF RepairScan, TypeOK, outbox, coupon, effects, bounds, Steps
  <2>6. ASSUME NEW w \in Workers, RepairEnqueue(w) PROVE TypeOK'
    <3>1. status' \in [Entries -> Statuses] /\ due' \in [Entries -> BOOLEAN]
      BY <2>6, EnqueueTyped DEF RepairEnqueue
    <3>2. QED
      BY <2>6, <3>1 DEF RepairEnqueue, TypeOK, coupon, effects, bounds, Steps
  <2>7. ASSUME NEW w \in Workers, Scan(w) PROVE TypeOK'
    BY <2>7 DEF Scan, Selected, TypeOK, outbox, coupon, effects, bounds, Steps
  <2>8. ASSUME NEW w \in Workers, NEW e \in Entries,
               SkipCompleted(w, e) \/ LoadEntry(w, e)
        PROVE  TypeOK'
    <3>1. CASE SkipCompleted(w, e)
      <4>1. todo' \in [Workers -> SUBSET Entries]
        BY <3>1 DEF SkipCompleted, TypeOK
      <4>2. QED
        BY <3>1, <4>1 DEF SkipCompleted, TypeOK, outbox, coupon, effects, bounds
    <3>2. CASE LoadEntry(w, e)
      <4>1. todo' \in [Workers -> SUBSET Entries]
        BY <3>2 DEF LoadEntry, TypeOK
      <4>2. cur' \in [Workers -> Entries \cup {NoEntry}]
        BY <3>2 DEF LoadEntry, TypeOK
      <4>3. ASSUME NEW v \in Workers PROVE Processes(v)'
        BY <3>2 DEF LoadEntry, TypeOK, Processes
      <4>4. QED
        BY <3>2, <4>1, <4>2, <4>3 DEF LoadEntry, TypeOK, Processes, outbox, coupon, effects, bounds, Steps
    <3>3. QED
      BY <2>8, <3>1, <3>2
  <2>20. ASSUME NEW w \in Workers, EndRequest(w) PROVE TypeOK'
    BY <2>20 DEF EndRequest, TypeOK, outbox, coupon, effects, bounds, Steps
  <2>9. ASSUME NEW w \in Workers, MarkProcessing(w) PROVE TypeOK'
    <3>1. cur[w] \in Entries /\ LinesOf(cur[w]) \in 1..Lines
      BY <2>9, EntryFacts DEF MarkProcessing, TypeOK
    <3>2. QED
      BY <2>9, <3>1 DEF MarkProcessing, TypeOK, coupon, effects, bounds, Steps, Statuses
  <2>10. ASSUME NEW w \in Workers, CheckPosted(w) PROVE TypeOK'
    <3>1. CASE Advance(w)
      <4>1. /\ pc' \in [Workers -> Steps]
            /\ line' \in [Workers -> 1..Lines]
            /\ \A v \in Workers : Processes(v)'
        BY <2>10, <3>1, AdvanceTyped DEF CheckPosted
      <4>2. QED
        BY <2>10, <4>1 DEF CheckPosted, TypeOK, Processes, outbox, coupon, effects, bounds
    <3>2. CASE pc' = [pc EXCEPT ![w] = "apply"] /\ UNCHANGED line
      BY <2>10, <3>2 DEF CheckPosted, TypeOK, outbox, coupon, effects, bounds, Steps
    <3>3. QED
      BY <2>10, <3>1, <3>2 DEF CheckPosted
  <2>11. ASSUME NEW w \in Workers, Apply(w) PROVE TypeOK'
    <3>1. /\ pc' \in [Workers -> Steps]
          /\ line' \in [Workers -> 1..Lines]
          /\ \A v \in Workers : Processes(v)'
      BY <2>11, AdvanceTyped DEF Apply
    <3>2. posted' \in [Entries -> [1..Lines -> Nat]]
      BY <2>11 DEF Apply, TypeOK
    <3>3. redeemer' \in Docs \cup {NoDoc} /\ redeemed' \in Nat
      <4>1. Doc(cur[w]) \in Docs
        BY <2>11, EntryFacts DEF Apply, TypeOK
      <4>2. QED
        BY <2>11, <4>1 DEF Apply, Redeem, coupon, TypeOK
    <3>4. QED
      BY <2>11, <3>1, <3>2, <3>3 DEF Apply, TypeOK, Processes, outbox, bounds
  <2>21. ASSUME NEW w \in Workers, CouponRefused(w) PROVE TypeOK'
    BY <2>21 DEF CouponRefused, TypeOK, outbox, coupon, effects, bounds, Steps
  <2>12. ASSUME NEW w \in Workers, NothingToDo(w) PROVE TypeOK'
    BY <2>12 DEF NothingToDo, TypeOK, outbox, coupon, bounds, Steps
  <2>13. ASSUME NEW w \in Workers, PostCash(w) PROVE TypeOK'
    <3>1. Doc(cur[w]) \in Docs
      BY <2>13, EntryFacts DEF PostCash, TypeOK
    <3>2. drawer' \in [Sessions -> [Docs -> Nat]]
      <4>1. CASE isOpen /\ drawer[register][Doc(cur[w])] = 0
        <5>1. drawer' = [drawer EXCEPT ![register][Doc(cur[w])] =
                           drawer[register][Doc(cur[w])] + 1]
          BY <2>13, <4>1 DEF PostCash
        <5>2. QED
          BY <3>1, <4>1, <5>1 DEF TypeOK
      <4>2. CASE ~(isOpen /\ drawer[register][Doc(cur[w])] = 0)
        BY <2>13, <4>2 DEF PostCash, TypeOK
      <4>3. QED
        BY <4>1, <4>2
    <3>3. QED
      BY <2>13, <3>2 DEF PostCash, TypeOK, outbox, coupon, bounds, Steps
  <2>14. ASSUME NEW w \in Workers,
                MarkCompleted(w) \/ MarkFailed(w) \/ StatusUpdateError(w)
         PROVE  TypeOK'
    <3>1. CASE MarkCompleted(w)
      BY <3>1, SMTT(30) DEF MarkCompleted, NextEntry, TypeOK, coupon, effects, bounds, Steps, Statuses
    <3>2. CASE MarkFailed(w)
      BY <3>2 DEF MarkFailed, NextEntry, TypeOK, coupon, effects, bounds, Steps, Statuses
    <3>3. CASE StatusUpdateError(w)
      BY <3>3 DEF StatusUpdateError, NextEntry, TypeOK, outbox, coupon, effects, Steps
    <3>4. QED
      BY <2>14, <3>1, <3>2, <3>3
  <2>15. ASSUME NEW w \in Workers, HandlerError(w) \/ QueryError(w) PROVE TypeOK'
    <3>1. CASE HandlerError(w)
      BY <3>1 DEF HandlerError, TypeOK, outbox, coupon, effects, Steps
    <3>2. CASE QueryError(w)
      BY <3>2 DEF QueryError, TypeOK, outbox, coupon, effects, Steps
    <3>3. QED
      BY <2>15, <3>1, <3>2
  <2>16. ASSUME Crash PROVE TypeOK'
    BY <2>16 DEF Crash, TypeOK, outbox, coupon, effects, Steps
  <2>17. ASSUME Environment PROVE TypeOK'
    <3>1. ASSUME NEW d \in Docs, FinalizeHeldSale(d) PROVE TypeOK'
      BY <3>1 DEF FinalizeHeldSale, TypeOK, coupon, effects, workers, bounds
    <3>2. ASSUME NEW e \in Entries, BecomeDue(e) PROVE TypeOK'
      BY <3>2 DEF BecomeDue, TypeOK, coupon, effects, workers, bounds
    <3>3. CASE OpenCashRegister
      BY <3>3 DEF OpenCashRegister, TypeOK, outbox, coupon, workers, bounds, Sessions
    <3>4. CASE CloseCashRegister
      BY <3>4 DEF CloseCashRegister, TypeOK, outbox, coupon, workers, bounds
    <3>5. QED
      BY <2>17, <3>1, <3>2, <3>3, <3>4 DEF Environment
  <2>18. CASE UNCHANGED vars
    BY <2>18 DEF vars, TypeOK
  <2>19. QED
    BY <2>1, <2>2, <2>3, <2>4, <2>5, <2>6, <2>7, <2>8, <2>9, <2>10, <2>11, <2>12,
       <2>13, <2>14, <2>15, <2>16, <2>17, <2>18, <2>20, <2>21
       DEF Next, WorkerStep, Request, Fault
<1>3. QED
  BY <1>1, <1>2, PTL DEF Spec

----------------------------------------------------------------------------
(* No guaranteed effect is dropped                                         *)

\* A COMPLETED row's effect is discharged.
SettledSound ==
  \A e \in Guaranteed : status[e] = "COMPLETED" => Discharged(e)

\* A walk about to write COMPLETED knows its effect is discharged, and a walk at
\* line i has seen or written every line before i.
WalkSound ==
  \A w \in Workers : cur[w] \in Guaranteed =>
    /\ pc[w] = "complete" => Discharged(cur[w])
    /\ pc[w] \in {"check", "apply"} =>
         \A i \in 1..Lines : i < line[w] => posted[cur[w]][i] > 0

\* A document committed the ordinary way has its rows.
Queued ==
  \A d \in committed \ HeldDocs : \A k \in KindsOf[d] : status[<<d, k>>] # "ABSENT"

\* The sale a coupon code names has redeemed it.
CouponSound == redeemer # NoDoc => posted[<<redeemer, "coupon">>][1] > 0

DropInv == TypeOK /\ SettledSound /\ WalkSound /\ Queued /\ CouponSound

\* Postings are never removed: what was discharged stays discharged.
LEMMA PostedGrows ==
  ASSUME TypeOK, [Next]_vars
  PROVE  /\ \A e \in Entries, i \in 1..Lines : posted[e][i] > 0 => posted'[e][i] > 0
         /\ waived \subseteq waived'
<1> USE DEF outbox, coupon, effects, workers, bounds
<1>1. ASSUME NEW w \in Workers, Apply(w)
      PROVE  /\ \A e \in Entries, i \in 1..Lines : posted[e][i] > 0 => posted'[e][i] > 0
             /\ waived \subseteq waived'
  BY <1>1 DEF Apply, TypeOK
<1>2. ASSUME NEW w \in Workers, WorkerStep(w), ~Apply(w)
      PROVE  posted' = posted /\ waived \subseteq waived'
  BY <1>2 DEF WorkerStep, RepairEnqueue, Scan, SkipCompleted, LoadEntry, EndRequest,
              MarkProcessing, CheckPosted, CouponRefused, NothingToDo, PostCash, MarkCompleted, MarkFailed
<1>3. ASSUME NEW w \in Workers, Request(w)
      PROVE  posted' = posted /\ waived' = waived
  BY <1>3 DEF Request, CommitDocument, RepeatRequest, Replay, ReplayIds, RepairScan
<1>4. CASE Fault
  BY <1>4 DEF Fault, HandlerError, StatusUpdateError, QueryError, Crash
<1>5. CASE Environment
  BY <1>5 DEF Environment, FinalizeHeldSale, BecomeDue, OpenCashRegister, CloseCashRegister
<1>6. CASE UNCHANGED vars
  BY <1>6 DEF vars
<1>7. QED
  BY <1>1, <1>2, <1>3, <1>4, <1>5, <1>6 DEF Next

\* Hence a discharged effect stays discharged.
LEMMA DischargedStays ==
  ASSUME TypeOK, [Next]_vars, NEW e \in Entries, Discharged(e)
  PROVE  Discharged(e)'
<1>1. LinesOf(e) \in 1..Lines
  BY EntryFacts
<1>2. 1..LinesOf(e) \subseteq 1..Lines
  BY <1>1, ConstantsOK
<1>3. CASE e \in waived
  BY <1>3, PostedGrows DEF Discharged
<1>4. CASE Performed(e)
  BY <1>2, <1>4, PostedGrows DEF Discharged, Performed
<1>5. QED
  BY <1>3, <1>4 DEF Discharged

\* How a walk leaves a line it has seen or written.
LEMMA AdvanceSound ==
  ASSUME DropInv, TypeOK', [Next]_vars, NEW w \in Workers, cur[w] \in Guaranteed,
         pc[w] \in {"check", "apply"}, Advance(w), UNCHANGED cur,
         posted'[cur[w]][line[w]] > 0
  PROVE  /\ pc'[w] = "complete" => Discharged(cur[w])'
         /\ pc'[w] \in {"check", "apply"} =>
              \A i \in 1..Lines : i < line'[w] => posted'[cur[w]][i] > 0
<1>1. cur[w] \in Entries /\ line[w] \in 1..LinesOf(cur[w])
  BY DEF DropInv, TypeOK
<1>2. LinesOf(cur[w]) \in 1..Lines
  BY <1>1, EntryFacts
<1>3. \A i \in 1..Lines : i < line[w] => posted'[cur[w]][i] > 0
  BY <1>1, PostedGrows DEF DropInv, WalkSound
<1>4. \A i \in 1..Lines : i <= line[w] => posted'[cur[w]][i] > 0
  BY <1>1, <1>2, <1>3, ConstantsOK
<1>5. CASE line[w] < LinesOf(cur[w])
  <2>1. line'[w] = line[w] + 1 /\ pc'[w] = "check"
    BY <1>5 DEF Advance, DropInv, TypeOK
  <2>2. QED
    BY <1>1, <1>2, <1>4, <2>1, ConstantsOK
<1>6. CASE ~(line[w] < LinesOf(cur[w]))
  <2>1. line[w] = LinesOf(cur[w]) /\ pc'[w] = "complete"
    BY <1>1, <1>2, <1>6, ConstantsOK DEF Advance, DropInv, TypeOK
  <2>2. \A i \in 1..LinesOf(cur[w]) : posted'[cur[w]][i] > 0
    BY <1>2, <1>4, <2>1, ConstantsOK
  <2>3. QED
    BY <2>1, <2>2 DEF Discharged, Performed
<1>7. QED
  BY <1>5, <1>6

\* Only a worker at its final update makes a row COMPLETED.
LEMMA CompletedBy ==
  ASSUME TypeOK, [Next]_vars, NEW e \in Entries, status'[e] = "COMPLETED"
  PROVE  status[e] = "COMPLETED"
         \/ \E w \in Workers : pc[w] = "complete" /\ cur[w] = e
<1> USE DEF outbox, coupon, effects, workers, bounds
<1>1. ASSUME NEW w \in Workers, WorkerStep(w)
      PROVE  status[e] = "COMPLETED" \/ (pc[w] = "complete" /\ cur[w] = e)
  <2>1. CASE RepairEnqueue(w)
    BY <2>1 DEF RepairEnqueue, EnqueueTx
  <2>2. CASE MarkProcessing(w) \/ MarkFailed(w)
    BY <2>2 DEF MarkProcessing, MarkFailed, TypeOK
  <2>3. CASE MarkCompleted(w)
    BY <2>3 DEF MarkCompleted, TypeOK
  <2>4. CASE UNCHANGED status
    BY <2>4
  <2>5. QED
    BY <1>1, <2>1, <2>2, <2>3, <2>4
       DEF WorkerStep, Scan, SkipCompleted, LoadEntry, EndRequest, CheckPosted, CouponRefused, Apply,
           NothingToDo, PostCash
<1>2. ASSUME NEW w \in Workers, Request(w)
      PROVE  status[e] = "COMPLETED"
  BY <1>2 DEF Request, CommitDocument, EnqueueTx, RepeatRequest, Replay, ReplayIds, RepairScan
<1>3. CASE Fault
  BY <1>3 DEF Fault, HandlerError, StatusUpdateError, QueryError, Crash
<1>4. CASE Environment
  BY <1>4 DEF Environment, FinalizeHeldSale, BecomeDue, OpenCashRegister, CloseCashRegister
<1>5. CASE UNCHANGED vars
  BY <1>5 DEF vars
<1>6. QED
  BY <1>1, <1>2, <1>3, <1>4, <1>5 DEF Next

\* A row, once written, is never deleted.
LEMMA RowsStay ==
  ASSUME TypeOK, [Next]_vars, NEW e \in Entries, status[e] # "ABSENT"
  PROVE  status'[e] # "ABSENT"
<1> USE DEF outbox, coupon, effects, workers, bounds
<1>1. ASSUME NEW w \in Workers, WorkerStep(w) PROVE status'[e] # "ABSENT"
  <2>1. CASE RepairEnqueue(w)
    BY <2>1 DEF RepairEnqueue, EnqueueTx
  <2>2. CASE MarkProcessing(w) \/ MarkFailed(w) \/ MarkCompleted(w)
    BY <2>2 DEF MarkProcessing, MarkFailed, MarkCompleted, TypeOK
  <2>3. CASE UNCHANGED status
    BY <2>3
  <2>4. QED
    BY <1>1, <2>1, <2>2, <2>3
       DEF WorkerStep, Scan, SkipCompleted, LoadEntry, EndRequest, CheckPosted, CouponRefused, Apply,
           NothingToDo, PostCash
<1>2. ASSUME NEW w \in Workers, Request(w) PROVE status'[e] # "ABSENT"
  BY <1>2 DEF Request, CommitDocument, EnqueueTx, RepeatRequest, Replay, ReplayIds, RepairScan
<1>3. CASE Fault
  BY <1>3 DEF Fault, HandlerError, StatusUpdateError, QueryError, Crash
<1>4. CASE Environment
  BY <1>4 DEF Environment, FinalizeHeldSale, BecomeDue, OpenCashRegister, CloseCashRegister
<1>5. CASE UNCHANGED vars
  BY <1>5 DEF vars
<1>6. QED
  BY <1>1, <1>2, <1>3, <1>4, <1>5 DEF Next

\* A document that joins the committed ones outside HeldDocs brings its rows.
LEMMA QueuedStays ==
  ASSUME DropInv, [Next]_vars
  PROVE  Queued'
<1> USE DEF outbox, coupon, effects, workers, bounds
<1>1. ASSUME NEW d \in committed' \ HeldDocs, NEW k \in KindsOf[d]
      PROVE  status'[<<d, k>>] # "ABSENT"
  <2>1. CASE d \in committed
    <3>1. d \in Docs /\ k \in Kinds
      BY <2>1, ConstantsOK DEF DropInv, TypeOK
    <3>2. <<d, k>> \in Entries /\ status[<<d, k>>] # "ABSENT"
      BY <1>1, <2>1, <3>1 DEF DropInv, Queued, Entries
    <3>3. QED
      BY <3>2, RowsStay DEF DropInv
  <2>2. CASE d \notin committed
    <3>1. ASSUME NEW w \in Workers, NEW c \in Docs, CommitDocument(w, c)
          PROVE  status'[<<d, k>>] # "ABSENT"
      <4>1. d = c /\ k \in Kinds
        BY <1>1, <2>2, <3>1, ConstantsOK DEF CommitDocument
      <4>2. <<d, k>> \in Entries /\ <<d, k>> \in {c} \X KindsOf[c]
        BY <4>1 DEF Entries
      <4>3. QED
        BY <3>1, <4>2 DEF CommitDocument, EnqueueTx
    <3>2. ASSUME committed' = committed \/ \E c \in HeldDocs : committed' = committed \cup {c}
          PROVE  FALSE
      BY <1>1, <2>2, <3>2
    <3>3. ASSUME NEW w \in Workers, WorkerStep(w) PROVE committed' = committed
      BY <3>3 DEF WorkerStep, RepairEnqueue, Scan, SkipCompleted, LoadEntry, EndRequest,
                  MarkProcessing, CheckPosted, CouponRefused, Apply, NothingToDo, PostCash,
                  MarkCompleted, MarkFailed
    <3>4. ASSUME NEW w \in Workers, Request(w)
          PROVE  committed' = committed \/ \E c \in Docs : CommitDocument(w, c)
      BY <3>4 DEF Request, RepeatRequest, Replay, ReplayIds, RepairScan
    <3>5. ASSUME Fault PROVE committed' = committed
      BY <3>5 DEF Fault, HandlerError, StatusUpdateError, QueryError, Crash
    <3>6. ASSUME Environment
          PROVE  committed' = committed \/ \E c \in HeldDocs : committed' = committed \cup {c}
      BY <3>6 DEF Environment, FinalizeHeldSale, BecomeDue, OpenCashRegister, CloseCashRegister
    <3>7. QED
      BY <3>1, <3>2, <3>3, <3>4, <3>5, <3>6 DEF Next, vars
  <2>3. QED
    BY <2>1, <2>2
<1>2. QED
  BY <1>1 DEF Queued

\* What WalkSound says of one worker.
WalkSoundOf(w) ==
  cur[w] \in Guaranteed =>
    /\ pc[w] = "complete" => Discharged(cur[w])
    /\ pc[w] \in {"check", "apply"} =>
         \A i \in 1..Lines : i < line[w] => posted[cur[w]][i] > 0

\* A worker whose own state a step leaves alone stays sound.
LEMMA BystanderSound ==
  ASSUME DropInv, [Next]_vars, NEW v \in Workers,
         cur'[v] = cur[v], pc'[v] = pc[v], line'[v] = line[v]
  PROVE  WalkSoundOf(v)'
<1>1. WalkSoundOf(v)
  BY DEF DropInv, WalkSound, WalkSoundOf
<1>2. SUFFICES ASSUME cur[v] \in Guaranteed PROVE WalkSoundOf(v)'
  BY DEF WalkSoundOf, Guaranteed
<1>3. cur[v] \in Entries
  BY <1>2 DEF Guaranteed, Entries
<1>4. Discharged(cur[v]) => Discharged(cur[v])'
  BY <1>3, DischargedStays DEF DropInv
<1>5. \A i \in 1..Lines : posted[cur[v]][i] > 0 => posted'[cur[v]][i] > 0
  BY <1>3, PostedGrows DEF DropInv
<1>6. QED
  BY <1>1, <1>2, <1>4, <1>5 DEF WalkSoundOf, Discharged, Performed

\* What a walk looks for and sees has been posted.
LEMMA SeenIsThere ==
  ASSUME TypeOK, CouponSound, NEW w \in Workers, pc[w] = "check", Seen(w)
  PROVE  posted[cur[w]][line[w]] > 0
<1>1. cur[w] \in Entries /\ line[w] \in 1..LinesOf(cur[w])
  BY DEF TypeOK
<1>2. CASE Kind(cur[w]) = "coupon"
  <2>1. cur[w] = <<redeemer, "coupon">> /\ redeemer # NoDoc
    BY <1>1, <1>2, ConstantsOK DEF Seen, Entries, Doc, Kind
  <2>2. line[w] = 1
    BY <1>1, <1>2 DEF LinesOf
  <2>3. QED
    BY <2>1, <2>2 DEF CouponSound
<1>3. CASE Kind(cur[w]) # "coupon"
  BY <1>3 DEF Seen
<1>4. QED
  BY <1>2, <1>3

\* A write is there after the step that makes it.
LEMMA ApplyPosts ==
  ASSUME TypeOK, NEW w \in Workers, Apply(w)
  PROVE  posted'[cur[w]][line[w]] > 0
<1> DEFINE e == cur[w]
           i == line[w]
<1>1. e \in Entries /\ i \in 1..Lines
  BY DEF Apply, TypeOK
<1>2. posted \in [Entries -> [1..Lines -> Nat]]
  BY DEF TypeOK
<1>3. posted' = [posted EXCEPT ![e][i] = posted[e][i] + 1]
  BY DEF Apply
<1>4. QED
  <2> HIDE DEF e, i
  <2>1. posted'[e][i] = posted[e][i] + 1 /\ posted[e][i] \in Nat
    BY <1>1, <1>2, <1>3
  <2>2. posted'[e][i] > 0
    BY <2>1
  <2>3. QED
    BY <2>2 DEF e, i

\* Redeeming a code names the sale whose redemption is posted in the same step.
LEMMA CouponSoundStays ==
  ASSUME TypeOK, CouponSound, [Next]_vars
  PROVE  CouponSound'
<1> USE DEF outbox, coupon, effects, workers, bounds
<1>1. ASSUME NEW w \in Workers, Apply(w), Kind(cur[w]) = "coupon" PROVE CouponSound'
  <2>1. /\ cur[w] \in Entries /\ line[w] \in 1..LinesOf(cur[w])
        /\ 1 \in 1..Lines
    BY <1>1, ConstantsOK DEF Apply, TypeOK
  <2>2. cur[w] = <<redeemer', "coupon">> /\ line[w] = 1
    BY <1>1, <2>1 DEF Apply, Redeem, LinesOf, Entries, Doc, Kind
  <2>3. posted'[cur[w]][line[w]] > 0
    BY <1>1, ApplyPosts
  <2>4. QED
    BY <2>2, <2>3 DEF CouponSound
<1>2. ASSUME UNCHANGED coupon PROVE CouponSound'
  <2>1. SUFFICES ASSUME redeemer # NoDoc PROVE posted'[<<redeemer, "coupon">>][1] > 0
    BY <1>2 DEF CouponSound
  <2>2. <<redeemer, "coupon">> \in Entries /\ 1 \in 1..Lines
    BY <2>1, ConstantsOK DEF TypeOK, Entries, Kinds
  <2>3. QED
    BY <2>1, <2>2, PostedGrows DEF CouponSound
<1>3. ASSUME NEW w \in Workers, WorkerStep(w)
      PROVE  UNCHANGED coupon \/ (Apply(w) /\ Kind(cur[w]) = "coupon")
  BY <1>3 DEF WorkerStep, RepairEnqueue, Scan, SkipCompleted, LoadEntry, EndRequest,
              MarkProcessing, CheckPosted, CouponRefused, Apply, Redeem, NothingToDo,
              PostCash, MarkCompleted, MarkFailed
<1>4. ASSUME NEW w \in Workers, Request(w) PROVE UNCHANGED coupon
  BY <1>4 DEF Request, CommitDocument, RepeatRequest, Replay, ReplayIds, RepairScan
<1>5. ASSUME Fault \/ Environment \/ UNCHANGED vars PROVE UNCHANGED coupon
  BY <1>5 DEF Fault, HandlerError, StatusUpdateError, QueryError, Crash, Environment,
              FinalizeHeldSale, BecomeDue, OpenCashRegister, CloseCashRegister, vars
<1>6. QED
  BY <1>1, <1>2, <1>3, <1>4, <1>5 DEF Next

\* The worker that takes a step stays sound.
LEMMA ActorSound ==
  ASSUME DropInv, TypeOK', NEW w \in Workers, WorkerStep(w)
  PROVE  WalkSoundOf(w)'
<1> USE DEF outbox, coupon, effects, workers, bounds
<1>0. [Next]_vars /\ TypeOK
  BY DEF Next, DropInv
<1>1. CASE RepairEnqueue(w) \/ Scan(w) \/ EndRequest(w) \/ MarkCompleted(w) \/ MarkFailed(w)
           \/ CouponRefused(w) \/ (\E e \in Entries : LoadEntry(w, e))
  <2>1. pc'[w] \in {"scan", "next", "idle", "mark", "fail"}
    BY <1>0, <1>1 DEF RepairEnqueue, Scan, EndRequest, MarkCompleted, MarkFailed, NextEntry,
                 LoadEntry, CouponRefused, TypeOK
  <2>2. QED
    BY <2>1 DEF WalkSoundOf
<1>2. CASE \E e \in Entries : SkipCompleted(w, e)
  BY <1>0, <1>2, BystanderSound DEF SkipCompleted
<1>3. CASE MarkProcessing(w)
  <2>1. pc'[w] = "check" /\ line'[w] = 1
    BY <1>0, <1>3 DEF MarkProcessing, TypeOK
  <2>2. \A i \in 1..Lines : ~(i < 1)
    BY ConstantsOK
  <2>3. QED
    BY <2>1, <2>2 DEF WalkSoundOf
<1>4. CASE CheckPosted(w)
  <2>1. CASE Seen(w)
    <3>1. Advance(w) /\ UNCHANGED <<cur, posted>> /\ pc[w] = "check"
      BY <1>4, <2>1 DEF CheckPosted
    <3>2. SUFFICES ASSUME cur[w] \in Guaranteed PROVE WalkSoundOf(w)'
      BY <3>1 DEF WalkSoundOf
    <3>3. posted'[cur[w]][line[w]] > 0
      BY <1>0, <2>1, <3>1, SeenIsThere DEF DropInv
    <3>4. /\ pc'[w] = "complete" => Discharged(cur[w])'
          /\ pc'[w] \in {"check", "apply"} =>
               \A i \in 1..Lines : i < line'[w] => posted'[cur[w]][i] > 0
      BY <1>0, <3>1, <3>2, <3>3, AdvanceSound
    <3>5. QED
      BY <3>1, <3>4 DEF WalkSoundOf, Discharged, Performed
  <2>2. CASE ~Seen(w)
    <3>1. /\ pc' = [pc EXCEPT ![w] = "apply"]
          /\ UNCHANGED <<line, cur, posted>> /\ pc[w] = "check"
      BY <1>4, <2>2 DEF CheckPosted
    <3>2. pc'[w] = "apply"
      BY <1>0, <3>1 DEF TypeOK
    <3>3. QED
      BY <3>1, <3>2 DEF DropInv, WalkSound, WalkSoundOf
  <2>3. QED
    BY <2>1, <2>2
<1>5. CASE Apply(w)
  <2>1. Advance(w) /\ UNCHANGED cur /\ pc[w] = "apply"
    BY <1>5 DEF Apply
  <2>2. SUFFICES ASSUME cur[w] \in Guaranteed PROVE WalkSoundOf(w)'
    BY <2>1 DEF WalkSoundOf
  <2>3. posted'[cur[w]][line[w]] > 0
    BY <1>0, <1>5, ApplyPosts
  <2>4. /\ pc'[w] = "complete" => Discharged(cur[w])'
        /\ pc'[w] \in {"check", "apply"} =>
             \A i \in 1..Lines : i < line'[w] => posted'[cur[w]][i] > 0
    BY <1>0, <2>1, <2>2, <2>3, AdvanceSound
  <2>5. QED
    BY <2>1, <2>4 DEF WalkSoundOf, Discharged, Performed
<1>6. CASE NothingToDo(w)
  <2>1. cur'[w] \in waived' /\ pc'[w] = "complete"
    BY <1>0, <1>6 DEF NothingToDo, TypeOK
  <2>2. QED
    BY <2>1 DEF WalkSoundOf, Discharged
<1>7. CASE PostCash(w)
  <2>1. cur'[w] \notin Guaranteed
    BY <1>7 DEF PostCash, Guaranteed, Kind
  <2>2. QED
    BY <2>1 DEF WalkSoundOf
<1>8. QED
  BY <1>1, <1>2, <1>3, <1>4, <1>5, <1>6, <1>7 DEF WorkerStep

\* Every step keeps every worker sound.
LEMMA WalkSoundStays ==
  ASSUME DropInv, TypeOK', [Next]_vars
  PROVE  WalkSound'
<1> USE DEF outbox, coupon, effects, workers, bounds
<1>0. TypeOK
  BY DEF DropInv
<1>1. SUFFICES ASSUME NEW v \in Workers PROVE WalkSoundOf(v)'
  BY DEF WalkSound, WalkSoundOf
<1>2. ASSUME NEW w \in Workers, WorkerStep(w) PROVE WalkSoundOf(v)'
  <2>1. CASE v = w
    BY <1>2, <2>1, ActorSound
  <2>2. CASE v # w
    <3>1. cur'[v] = cur[v] /\ pc'[v] = pc[v] /\ line'[v] = line[v]
      BY <1>0, <1>2, <2>2
         DEF WorkerStep, RepairEnqueue, Scan, SkipCompleted, LoadEntry, EndRequest,
             MarkProcessing, CheckPosted, CouponRefused, Apply, Advance, NothingToDo, PostCash,
             MarkCompleted, MarkFailed, NextEntry, TypeOK
    <3>2. QED
      BY <3>1, BystanderSound
  <2>3. QED
    BY <2>1, <2>2
<1>3. ASSUME NEW w \in Workers,
             Request(w) \/ HandlerError(w) \/ StatusUpdateError(w) \/ QueryError(w)
      PROVE  WalkSoundOf(v)'
  <2>1. CASE v = w
    <3>1. pc'[v] \in {"scan", "next", "enqueue", "fail", "idle"}
      BY <1>0, <1>3, <2>1
         DEF Request, CommitDocument, RepeatRequest, Replay, ReplayIds, RepairScan,
             HandlerError, StatusUpdateError, NextEntry, QueryError, TypeOK
    <3>2. QED
      BY <3>1 DEF WalkSoundOf
  <2>2. CASE v # w
    <3>1. cur'[v] = cur[v] /\ pc'[v] = pc[v] /\ line'[v] = line[v]
      BY <1>0, <1>3, <2>2
         DEF Request, CommitDocument, RepeatRequest, Replay, ReplayIds, RepairScan,
             HandlerError, StatusUpdateError, NextEntry, QueryError, TypeOK
    <3>2. QED
      BY <3>1, BystanderSound
  <2>3. QED
    BY <2>1, <2>2
<1>4. CASE Crash
  <2>1. pc'[v] = "idle"
    BY <1>4 DEF Crash
  <2>2. QED
    BY <2>1 DEF WalkSoundOf
<1>5. CASE Environment \/ UNCHANGED vars
  <2>1. cur'[v] = cur[v] /\ pc'[v] = pc[v] /\ line'[v] = line[v]
    BY <1>5 DEF Environment, FinalizeHeldSale, BecomeDue, OpenCashRegister,
                CloseCashRegister, vars
  <2>2. QED
    BY <2>1, BystanderSound
<1>6. QED
  BY <1>2, <1>3, <1>4, <1>5 DEF Next, Fault

\* A COMPLETED row's effect is discharged after a step as before it.
LEMMA SettledStays ==
  ASSUME DropInv, [Next]_vars
  PROVE  SettledSound'
<1>1. SUFFICES ASSUME NEW e \in Guaranteed, status'[e] = "COMPLETED" PROVE Discharged(e)'
  BY DEF SettledSound, Discharged, Performed
<1>2. e \in Entries
  BY DEF Guaranteed, Entries
<1>3. Discharged(e)
  BY <1>1, <1>2, CompletedBy DEF DropInv, SettledSound, WalkSound
<1>4. QED
  BY <1>2, <1>3, DischargedStays DEF DropInv

LEMMA DropSound == Spec => []DropInv
<1>1. Init => SettledSound /\ WalkSound /\ Queued /\ CouponSound
  BY DEF Init, SettledSound, WalkSound, Queued, CouponSound, Guaranteed, Entries
<1>2. DropInv /\ TypeOK' /\ [Next]_vars =>
        (SettledSound /\ WalkSound /\ Queued /\ CouponSound)'
  BY SettledStays, WalkSoundStays, QueuedStays, CouponSoundStays DEF DropInv
<1>3. QED
  BY <1>1, <1>2, TypeCorrect, PTL DEF Spec, DropInv

\* NeverDropped holds for any number of documents, overlapping walks, crashes
\* and failing statements: an owed effect, cash aside, is discharged or its row
\* is not COMPLETED.
THEOREM EffectsNeverDropped == Spec => []NeverDropped
<1>1. DropInv => NeverDropped
  <2> SUFFICES ASSUME DropInv, NEW e \in Guaranteed, Owed(e)
               PROVE  Discharged(e) \/ status[e] \in {"PENDING", "PROCESSING", "FAILED"}
    BY DEF NeverDropped
  <2>1. e \in Entries /\ e = <<Doc(e), Kind(e)>>
    BY DEF Guaranteed, Entries, Doc, Kind
  <2>2. status[e] # "ABSENT"
    BY <2>1 DEF DropInv, Queued, Owed
  <2>3. status[e] = "COMPLETED" => Discharged(e)
    BY DEF DropInv, SettledSound
  <2>4. QED
    BY <2>1, <2>2, <2>3 DEF DropInv, TypeOK, Statuses
<1>2. QED
  BY <1>1, DropSound, PTL

----------------------------------------------------------------------------
(* At most once                                                            *)

\* The register row's lock makes a cash event idempotent within its session,
\* however many walks overlap.
THEOREM CashOncePerSession == Spec => []SessionCashOnce
<1>1. Init => SessionCashOnce
  BY DEF Init, SessionCashOnce
<1>2. TypeOK /\ SessionCashOnce /\ [Next]_vars => SessionCashOnce'
  <2> SUFFICES ASSUME TypeOK, SessionCashOnce, [Next]_vars PROVE SessionCashOnce'
    OBVIOUS
  <2>1. ASSUME NEW w \in Workers, PostCash(w) PROVE SessionCashOnce'
    <3>1. Doc(cur[w]) \in Docs
      BY <2>1, EntryFacts DEF PostCash, TypeOK
    <3>2. CASE isOpen /\ drawer[register][Doc(cur[w])] = 0
      <4>1. drawer' = [drawer EXCEPT ![register][Doc(cur[w])] =
                         drawer[register][Doc(cur[w])] + 1]
        BY <2>1, <3>2 DEF PostCash
      <4>2. QED
        BY <3>1, <3>2, <4>1 DEF TypeOK, SessionCashOnce
    <3>3. CASE ~(isOpen /\ drawer[register][Doc(cur[w])] = 0)
      BY <2>1, <3>3 DEF PostCash, SessionCashOnce
    <3>4. QED
      BY <3>2, <3>3
  <2>2. CASE UNCHANGED drawer
    BY <2>2 DEF SessionCashOnce
  <2>3. QED
    BY <2>1, <2>2
       DEF Next, WorkerStep, Request, Fault, Environment, coupon, effects, vars,
           RepairEnqueue, Scan, SkipCompleted, LoadEntry, EndRequest, MarkProcessing,
           CheckPosted, CouponRefused, Apply, NothingToDo, MarkCompleted, MarkFailed,
           CommitDocument, RepeatRequest, Replay, ReplayIds, RepairScan,
           HandlerError, StatusUpdateError, QueryError, Crash,
           FinalizeHeldSale, BecomeDue, OpenCashRegister, CloseCashRegister
<1>3. QED
  BY <1>1, <1>2, TypeCorrect, PTL DEF Spec

\* With one walk at a time and coupon codes of one use, nothing is posted twice,
\* and a worker about to post a line knows that the line is not there.
OnceInv ==
  /\ AtMostOnce
  /\ \A w \in Workers :
       pc[w] = "apply" /\ cur[w] \in Guaranteed =>
         /\ posted[cur[w]][line[w]] = 0
         /\ Kind(cur[w]) = "coupon" => redeemed = 0
  /\ \A d \in Docs, i \in 1..Lines :
       posted[<<d, "coupon">>][i] > 0 => redeemer = d /\ redeemed > 0

\* A single worker keeps OnceInv: between its look and its write nobody posts.
LEMMA OnceStays ==
  ASSUME \A v, w \in Workers : v = w, CouponLimit = 1, TypeOK, OnceInv, [Next]_vars
  PROVE  OnceInv'
<1> USE DEF outbox, coupon, effects, workers, bounds
<1>0. \A e \in Guaranteed : e \in Entries
  BY DEF Guaranteed, Entries
<1>1. ASSUME NEW w \in Workers, Apply(w) PROVE OnceInv'
  <2>1. pc[w] = "apply" /\ cur[w] \in Entries /\ line[w] \in 1..LinesOf(cur[w])
    BY <1>1 DEF Apply, TypeOK
  <2>2. AtMostOnce'
    BY <1>0, <1>1, <2>1 DEF Apply, TypeOK, OnceInv, AtMostOnce
  <2>3. pc'[w] \in {"check", "complete"}
    BY <1>1 DEF Apply, Advance, TypeOK
  <2>4. \A v \in Workers : pc'[v] # "apply"
    BY <2>3
  <2>5. ASSUME NEW d \in Docs, NEW i \in 1..Lines, posted'[<<d, "coupon">>][i] > 0
        PROVE  redeemer' = d /\ redeemed' > 0
    <3>1. <<d, "coupon">> \in Entries
      BY DEF Entries, Kinds
    <3>2. CASE cur[w] = <<d, "coupon">>
      <4>1. redeemer' = d /\ redeemed' = redeemed + 1
        BY <1>1, <3>2 DEF Apply, Redeem, Doc, Kind
      <4>2. QED
        BY <4>1 DEF TypeOK
    <3>3. CASE cur[w] # <<d, "coupon">>
      <4>1. posted'[<<d, "coupon">>] = posted[<<d, "coupon">>]
        BY <1>1, <3>1, <3>3 DEF Apply, TypeOK
      <4>2. redeemer = d /\ redeemed > 0
        BY <2>5, <4>1 DEF OnceInv
      <4>3. Kind(cur[w]) # "coupon"
        <5>1. cur[w] \in Guaranteed \/ Kind(cur[w]) = "cash"
          BY <2>1 DEF Guaranteed, Entries, Kind
        <5>2. QED
          BY <2>1, <4>2, <5>1 DEF OnceInv
      <4>4. QED
        BY <1>1, <4>2, <4>3 DEF Apply, Redeem
    <3>4. QED
      BY <3>2, <3>3
  <2>6. QED
    BY <2>2, <2>4, <2>5 DEF OnceInv
<1>2. ASSUME NEW w \in Workers, CheckPosted(w) PROVE OnceInv'
  <2>1. CASE Seen(w)
    <3>1. pc'[w] \in {"check", "complete"}
      BY <1>2, <2>1 DEF CheckPosted, Advance, TypeOK
    <3>2. \A v \in Workers : pc'[v] # "apply"
      BY <3>1
    <3>3. QED
      BY <1>2, <3>2 DEF CheckPosted, OnceInv, AtMostOnce
  <2>2. CASE ~Seen(w)
    <3>1. cur[w] \in Entries /\ line[w] \in 1..Lines
      BY <1>2 DEF CheckPosted, TypeOK
    <3>2. posted[cur[w]][line[w]] \in Nat
      <4>1. posted[cur[w]] \in [1..Lines -> Nat]
        BY <3>1 DEF TypeOK
      <4>2. QED
        BY <3>1, <4>1
    <3>3. Kind(cur[w]) = "coupon" => redeemed = 0
      BY <1>2, <2>2 DEF CheckPosted, UsedUp, TypeOK
    <3>4. posted[cur[w]][line[w]] = 0
      <4>1. CASE Kind(cur[w]) = "coupon"
        <5>1. Doc(cur[w]) \in Docs /\ cur[w] = <<Doc(cur[w]), "coupon">>
          BY <3>1, <4>1 DEF Entries, Doc, Kind
        <5>2. PICK d \in Docs : cur[w] = <<d, "coupon">>
          BY <5>1
        <5>3. ~(redeemed > 0)
          BY <3>3, <4>1
        <5>4. ~(posted[<<d, "coupon">>][line[w]] > 0)
          BY <3>1, <5>3 DEF OnceInv
        <5>5. QED
          BY <3>2, <5>2, <5>4
      <4>2. CASE Kind(cur[w]) # "coupon"
        BY <2>2, <3>2, <4>2 DEF Seen
      <4>3. QED
        BY <4>1, <4>2
    <3>5. UNCHANGED <<posted, coupon, cur, line>>
      BY <1>2, <2>2 DEF CheckPosted
    <3>6. \A v \in Workers : posted'[cur'[v]][line'[v]] = 0
                            /\ (Kind(cur'[v]) = "coupon" => redeemed' = 0)
      BY <3>3, <3>4, <3>5
    <3>7. QED
      BY <3>5, <3>6 DEF OnceInv, AtMostOnce, Kind
  <2>3. QED
    BY <2>1, <2>2
<1>3. ASSUME UNCHANGED <<posted, coupon>>, \A w \in Workers : pc'[w] # "apply"
      PROVE  OnceInv'
  BY <1>3 DEF OnceInv, AtMostOnce
<1>4. ASSUME NEW w \in Workers, WorkerStep(w), ~CheckPosted(w), ~Apply(w)
      PROVE  OnceInv'
  <2>1. UNCHANGED <<posted, coupon>> /\ (pc'[w] # "apply")
    <3>1. UNCHANGED <<posted, coupon>>
      BY <1>4 DEF WorkerStep, RepairEnqueue, Scan, SkipCompleted, LoadEntry, EndRequest,
                  MarkProcessing, CouponRefused, NothingToDo, PostCash, MarkCompleted, MarkFailed
    <3>2. ASSUME NEW e \in Entries, SkipCompleted(w, e) PROVE pc'[w] = "next"
      BY <3>2 DEF SkipCompleted
    <3>3. pc'[w] # "apply"
      BY <1>4, <3>2
         DEF WorkerStep, RepairEnqueue, Scan, LoadEntry, EndRequest, MarkProcessing, CouponRefused,
             NothingToDo, PostCash, MarkCompleted, MarkFailed, NextEntry, TypeOK
    <3>4. QED
      BY <3>1, <3>3
  <2>2. QED
    BY <1>3, <2>1
<1>5. ASSUME NEW w \in Workers,
             Request(w) \/ HandlerError(w) \/ StatusUpdateError(w) \/ QueryError(w)
      PROVE  OnceInv'
  <2>1. UNCHANGED <<posted, coupon>> /\ (pc'[w] # "apply")
    BY <1>5 DEF Request, CommitDocument, RepeatRequest, Replay, ReplayIds, RepairScan,
                HandlerError, StatusUpdateError, NextEntry, QueryError, TypeOK
  <2>2. QED
    BY <1>3, <2>1
<1>6. CASE Crash
  BY <1>3, <1>6 DEF Crash
<1>7. CASE Environment \/ UNCHANGED vars
  BY <1>7 DEF Environment, FinalizeHeldSale, BecomeDue, OpenCashRegister, CloseCashRegister,
              vars, OnceInv, AtMostOnce
<1>8. QED
  BY <1>1, <1>2, <1>4, <1>5, <1>6, <1>7 DEF Next, Fault

LEMMA OnceSound ==
  ASSUME \A v, w \in Workers : v = w, CouponLimit = 1
  PROVE  Spec => []OnceInv
<1>1. Init => OnceInv
  BY ConstantsOK DEF Init, OnceInv, AtMostOnce, Guaranteed, Entries, Kinds
<1>2. TypeOK /\ OnceInv /\ [Next]_vars => OnceInv'
  BY OnceStays
<1>3. QED
  BY <1>1, <1>2, TypeCorrect, PTL DEF Spec

\* AtMostOnce under the assumptions the handlers make: no two walks overlap, and
\* a coupon code is used by one sale (the default of usage_limit_per_coupon).
THEOREM SerialAtMostOnce ==
  ASSUME \A v, w \in Workers : v = w, CouponLimit = 1
  PROVE  Spec => []AtMostOnce
<1>1. OnceInv => AtMostOnce
  BY DEF OnceInv
<1>2. QED
  BY <1>1, OnceSound, PTL

\* A worker about to redeem a limited code has one redemption left.
LimitInv ==
  CouponLimit > 0 =>
    /\ redeemed <= CouponLimit
    /\ \A w \in Workers :
         pc[w] = "apply" /\ Kind(cur[w]) = "coupon" => redeemed < CouponLimit

\* The limit of a coupon code is kept while walks do not overlap, for any number
\* of sales and any limit.
THEOREM SerialCouponLimit ==
  ASSUME \A v, w \in Workers : v = w
  PROVE  Spec => []CouponLimitKept
<1>1. Init => LimitInv
  BY ConstantsOK DEF Init, LimitInv
<1>2. TypeOK /\ LimitInv /\ [Next]_vars => LimitInv'
  <2> SUFFICES ASSUME TypeOK, LimitInv, [Next]_vars, CouponLimit > 0
               PROVE  /\ redeemed' <= CouponLimit
                      /\ \A w \in Workers :
                           pc'[w] = "apply" /\ Kind(cur'[w]) = "coupon" =>
                             redeemed' < CouponLimit
    BY DEF LimitInv, Kind
  <2> USE DEF outbox, coupon, effects, workers, bounds
  <2>1. redeemed \in Nat /\ redeemed <= CouponLimit /\ CouponLimit \in Nat
    BY ConstantsOK DEF TypeOK, LimitInv
  <2>2. ASSUME NEW w \in Workers, Apply(w)
        PROVE  redeemed' <= CouponLimit /\ \A v \in Workers : pc'[v] # "apply"
    <3>1. pc'[w] \in {"check", "complete"}
      BY <2>2 DEF Apply, Advance, TypeOK
    <3>2. CASE Kind(cur[w]) = "coupon"
      <4>1. redeemed < CouponLimit /\ redeemed' = redeemed + 1
        BY <2>2, <3>2 DEF Apply, Redeem, LimitInv
      <4>2. QED
        BY <2>1, <3>1, <4>1
    <3>3. CASE Kind(cur[w]) # "coupon"
      BY <2>1, <2>2, <3>1, <3>3 DEF Apply, Redeem
    <3>4. QED
      BY <3>2, <3>3
  <2>3. ASSUME NEW w \in Workers, CheckPosted(w)
        PROVE  UNCHANGED <<redeemed, cur>>
               /\ (pc'[w] = "apply" /\ Kind(cur[w]) = "coupon" => redeemed < CouponLimit)
    <3>1. pc[w] = "check" /\ UNCHANGED <<redeemed, cur>>
      BY <2>3 DEF CheckPosted
    <3>2. CASE Seen(w)
      <4>1. pc'[w] \in {"check", "complete"}
        BY <2>3, <3>2 DEF CheckPosted, Advance, TypeOK
      <4>2. QED
        BY <3>1, <4>1
    <3>3. CASE ~Seen(w)
      BY <2>1, <2>3, <3>1, <3>3 DEF CheckPosted, UsedUp
    <3>4. QED
      BY <3>2, <3>3
  <2>4. ASSUME UNCHANGED redeemed, \A w \in Workers : pc'[w] # "apply"
        PROVE  /\ redeemed' <= CouponLimit
               /\ \A w \in Workers : pc'[w] # "apply"
    BY <2>1, <2>4
  <2>5. ASSUME NEW w \in Workers, WorkerStep(w), ~CheckPosted(w), ~Apply(w)
        PROVE  UNCHANGED redeemed /\ pc'[w] # "apply"
    <3>1. ASSUME NEW e \in Entries, SkipCompleted(w, e) PROVE pc'[w] = "next"
      BY <3>1 DEF SkipCompleted
    <3>2. QED
      BY <2>5, <3>1
         DEF WorkerStep, RepairEnqueue, Scan, SkipCompleted, LoadEntry, EndRequest,
             MarkProcessing, CouponRefused, NothingToDo, PostCash, MarkCompleted,
             MarkFailed, NextEntry, TypeOK
  <2>6. ASSUME NEW w \in Workers,
               Request(w) \/ HandlerError(w) \/ StatusUpdateError(w) \/ QueryError(w)
        PROVE  UNCHANGED redeemed /\ pc'[w] # "apply"
    BY <2>6 DEF Request, CommitDocument, RepeatRequest, Replay, ReplayIds, RepairScan,
                HandlerError, StatusUpdateError, NextEntry, QueryError, TypeOK
  <2>7. CASE Crash
    BY <2>4, <2>7 DEF Crash
  <2>8. CASE Environment \/ UNCHANGED vars
    BY <2>1, <2>8 DEF Environment, FinalizeHeldSale, BecomeDue, OpenCashRegister,
                      CloseCashRegister, vars, LimitInv, Kind
  <2>9. QED
    BY <2>1, <2>2, <2>3, <2>4, <2>5, <2>6, <2>7, <2>8 DEF Next, Fault, Kind
<1>3. LimitInv => CouponLimitKept
  BY DEF LimitInv, CouponLimitKept
<1>4. QED
  BY <1>1, <1>2, <1>3, TypeCorrect, PTL DEF Spec

----------------------------------------------------------------------------
(* How often at most                                                       *)

\* The walks that have looked for a line and are about to write it.
Applying(e, i) == {w \in Workers : pc[w] = "apply" /\ cur[w] = e /\ line[w] = i}

\* Who has looked and did not see the line counts against it until it is written.
BoundInv ==
  \A e \in Guaranteed : \A i \in 1..Lines : Kind(e) # "coupon" =>
    posted[e][i] + Cardinality(Applying(e, i)) <= Cardinality(Workers)

\* A line that is not posted in a step is bounded after it if nobody begins to apply it.
LEMMA BoundKept ==
  ASSUME IsFiniteSet(Workers), NEW n \in Nat, NEW A \in SUBSET Workers, NEW B \in SUBSET A,
         n + Cardinality(A) <= Cardinality(Workers)
  PROVE  n + Cardinality(B) <= Cardinality(Workers)
<1>1. IsFiniteSet(A)
  BY FS_Subset
<1>2. IsFiniteSet(B) /\ Cardinality(B) <= Cardinality(A)
  BY <1>1, FS_Subset
<1>3. /\ Cardinality(A) \in Nat /\ Cardinality(B) \in Nat /\ Cardinality(Workers) \in Nat
  BY <1>1, <1>2, FS_CardinalityType
<1>4. QED
  BY <1>2, <1>3

LEMMA BoundStays ==
  ASSUME IsFiniteSet(Workers), TypeOK, BoundInv, [Next]_vars
  PROVE  BoundInv'
<1> USE DEF outbox, coupon, effects, workers, bounds
<1> SUFFICES ASSUME NEW e \in Guaranteed, NEW i \in 1..Lines, Kind(e) # "coupon"
             PROVE  posted'[e][i] + Cardinality(Applying(e, i)') <= Cardinality(Workers)
  BY DEF BoundInv, Kind
<1>1. e \in Entries /\ posted[e][i] \in Nat
  BY DEF Guaranteed, Entries, TypeOK
<1>2. posted[e][i] + Cardinality(Applying(e, i)) <= Cardinality(Workers)
  BY DEF BoundInv
<1>3. ASSUME posted'[e][i] = posted[e][i], Applying(e, i)' \subseteq Applying(e, i)
      PROVE  posted'[e][i] + Cardinality(Applying(e, i)') <= Cardinality(Workers)
  <2>1. Applying(e, i) \in SUBSET Workers
    BY DEF Applying
  <2>2. QED
    BY <1>1, <1>2, <1>3, <2>1, BoundKept
<1>4. ASSUME NEW w \in Workers, CheckPosted(w)
      PROVE  posted'[e][i] + Cardinality(Applying(e, i)') <= Cardinality(Workers)
  <2>1. CASE Seen(w) \/ cur[w] # e \/ line[w] # i
    <3>1. Applying(e, i)' \subseteq Applying(e, i)
      BY <1>4, <2>1 DEF CheckPosted, Advance, Applying, TypeOK
    <3>2. QED
      BY <1>3, <1>4, <3>1 DEF CheckPosted
  <2>2. CASE ~Seen(w) /\ cur[w] = e /\ line[w] = i
    <3>1. posted'[e][i] = 0
      BY <1>1, <1>4, <2>2 DEF CheckPosted, Seen
    <3>2. Cardinality(Applying(e, i)') <= Cardinality(Workers)
      BY FS_Subset DEF Applying
    <3>3. Cardinality(Applying(e, i)') \in Nat /\ Cardinality(Workers) \in Nat
      BY FS_Subset, FS_CardinalityType DEF Applying
    <3>4. QED
      BY <3>1, <3>2, <3>3
  <2>3. QED
    BY <2>1, <2>2
<1>5. ASSUME NEW w \in Workers, Apply(w)
      PROVE  posted'[e][i] + Cardinality(Applying(e, i)') <= Cardinality(Workers)
  <2>1. pc'[w] # "apply" /\ \A v \in Workers : v # w => pc'[v] = pc[v] /\ line'[v] = line[v]
    BY <1>5 DEF Apply, Advance, TypeOK
  <2>2. cur[w] \in Entries /\ line[w] \in 1..Lines /\ cur' = cur
    BY <1>5 DEF Apply, TypeOK
  <2>3. Applying(e, i)' = Applying(e, i) \ {w}
    BY <2>1, <2>2 DEF Applying
  <2>4. CASE cur[w] = e /\ line[w] = i
    <3>1. posted'[e][i] = posted[e][i] + 1
      BY <1>1, <1>5, <2>2, <2>4 DEF Apply, TypeOK
    <3>2. w \in Applying(e, i) /\ IsFiniteSet(Applying(e, i))
      BY <1>5, <2>4, FS_Subset DEF Applying, Apply
    <3>3. Cardinality(Applying(e, i) \ {w}) = Cardinality(Applying(e, i)) - 1
      BY <3>2, FS_RemoveElement
    <3>4. Cardinality(Applying(e, i)) \in Nat /\ Cardinality(Workers) \in Nat
      BY <3>2, FS_CardinalityType
    <3>5. QED
      BY <1>1, <1>2, <2>3, <3>1, <3>3, <3>4
  <2>5. CASE cur[w] # e \/ line[w] # i
    <3>1. posted'[e][i] = posted[e][i]
      BY <1>1, <1>5, <2>2, <2>5 DEF Apply, TypeOK
    <3>2. QED
      BY <1>3, <2>3, <3>1
  <2>6. QED
    BY <2>4, <2>5
<1>6. ASSUME NEW w \in Workers, WorkerStep(w), ~CheckPosted(w), ~Apply(w)
      PROVE  UNCHANGED posted /\ Applying(e, i)' \subseteq Applying(e, i)
  <2>1. UNCHANGED posted
    BY <1>6 DEF WorkerStep, RepairEnqueue, Scan, SkipCompleted, LoadEntry, EndRequest,
                MarkProcessing, CouponRefused, NothingToDo, PostCash, MarkCompleted, MarkFailed
  <2>2. ASSUME NEW f \in Entries, SkipCompleted(w, f) PROVE UNCHANGED <<pc, cur, line>>
    BY <2>2 DEF SkipCompleted
  <2>3. \/ UNCHANGED <<pc, cur, line>>
        \/ /\ pc'[w] # "apply"
           /\ \A v \in Workers : v # w => pc'[v] = pc[v] /\ cur'[v] = cur[v] /\ line'[v] = line[v]
    BY <1>6, <2>2
       DEF WorkerStep, RepairEnqueue, Scan, LoadEntry, EndRequest, MarkProcessing, CouponRefused,
           NothingToDo, PostCash, MarkCompleted, MarkFailed, NextEntry, TypeOK
  <2>4. QED
    BY <2>1, <2>3 DEF Applying
<1>7. ASSUME NEW w \in Workers,
             Request(w) \/ HandlerError(w) \/ StatusUpdateError(w) \/ QueryError(w)
      PROVE  UNCHANGED posted /\ Applying(e, i)' \subseteq Applying(e, i)
  <2>1. /\ UNCHANGED posted /\ pc'[w] # "apply"
        /\ \A v \in Workers : v # w => pc'[v] = pc[v] /\ cur'[v] = cur[v] /\ line'[v] = line[v]
    BY <1>7 DEF Request, CommitDocument, RepeatRequest, Replay, ReplayIds, RepairScan,
                HandlerError, StatusUpdateError, NextEntry, QueryError, TypeOK
  <2>2. QED
    BY <2>1 DEF Applying
<1>8. CASE Crash
  <2>1. UNCHANGED posted /\ Applying(e, i)' = {}
    BY <1>8 DEF Crash, Applying
  <2>2. QED
    BY <1>3, <2>1
<1>9. CASE Environment \/ UNCHANGED vars
  <2>1. UNCHANGED <<posted, pc, cur, line>>
    BY <1>9 DEF Environment, FinalizeHeldSale, BecomeDue, OpenCashRegister, CloseCashRegister,
                vars
  <2>2. QED
    BY <1>3, <2>1 DEF Applying
<1>10. QED
  BY <1>3, <1>4, <1>5, <1>6, <1>7, <1>8, <1>9 DEF Next, Fault

\* However many walks overlap, crash and come again, a line, award, redemption or raffle
\* coupon is written at most once for each of them: no walk repeats a posting that it
\* can see (CheckPosted, Apply).
THEOREM DuplicatesAreBounded ==
  ASSUME IsFiniteSet(Workers) PROVE Spec => []DuplicatesBounded
<1>1. Init => BoundInv
  <2> SUFFICES ASSUME Init, NEW e \in Guaranteed, NEW i \in 1..Lines
               PROVE  posted[e][i] + Cardinality(Applying(e, i)) <= Cardinality(Workers)
    BY DEF BoundInv
  <2>1. posted[e][i] = 0
    BY DEF Init, Guaranteed, Entries
  <2>2. Applying(e, i) = {}
    BY DEF Init, Applying
  <2>3. Cardinality(Applying(e, i)) = 0 /\ Cardinality(Workers) \in Nat
    BY <2>2, FS_EmptySet, FS_CardinalityType
  <2>4. QED
    BY <2>1, <2>3
<1>2. TypeOK /\ BoundInv /\ [Next]_vars => BoundInv'
  BY BoundStays
<1>3. BoundInv <=> DuplicatesBounded
  BY DEF BoundInv, DuplicatesBounded, Applying
<1>4. QED
  BY <1>1, <1>2, <1>3, TypeCorrect, PTL DEF Spec

----------------------------------------------------------------------------
(* One walk at a time keeps the promise                                    *)

Open == {"PENDING", "PROCESSING", "FAILED"}

\* What a walk reads or works on has a row, and with one walk at a time nobody else
\* closes the row that it works on.
HoldsRow ==
  \A w \in Workers :
    /\ pc[w] # "enqueue" => \A e \in todo[w] : status[e] # "ABSENT"
    /\ pc[w] \in {"mark", "check", "apply", "complete", "fail"} => status[cur[w]] \in Open

LEMMA HoldsRowStays ==
  ASSUME \A v, w \in Workers : v = w, TypeOK, HoldsRow, [Next]_vars
  PROVE  HoldsRow'
<1> USE DEF outbox, coupon, effects, workers, bounds
<1>1. ASSUME NEW w \in Workers, WorkerStep(w) PROVE HoldsRow'
  <2> SUFFICES /\ pc'[w] # "enqueue" => \A e \in todo'[w] : status'[e] # "ABSENT"
               /\ pc'[w] \in {"mark", "check", "apply", "complete", "fail"} =>
                    status'[cur'[w]] \in Open
    BY DEF HoldsRow
  <2>1. CASE RepairEnqueue(w)
    BY <2>1 DEF RepairEnqueue, TypeOK
  <2>2. CASE Scan(w)
    <3>1. todo'[w] = Selected(w) /\ pc'[w] = "next" /\ status' = status
      BY <2>2 DEF Scan, TypeOK
    <3>2. \A e \in Selected(w) : status[e] # "ABSENT"
      BY DEF Selected, Retryable
    <3>3. QED
      BY <3>1, <3>2
  <2>3. ASSUME NEW e \in Entries, SkipCompleted(w, e)
        PROVE  /\ \A f \in todo'[w] : status'[f] # "ABSENT"
               /\ pc'[w] = "next"
    BY <2>3 DEF SkipCompleted, HoldsRow, TypeOK
  <2>4. ASSUME NEW e \in Entries, LoadEntry(w, e)
        PROVE  /\ \A f \in todo'[w] : status'[f] # "ABSENT"
               /\ status'[cur'[w]] \in Open
    <3>1. e \in todo[w] /\ status[e] # "COMPLETED" /\ status' = status /\ cur'[w] = e
          /\ todo'[w] \subseteq todo[w] /\ pc[w] = "next"
      BY <2>4 DEF LoadEntry, IsNext, TypeOK
    <3>2. status[e] \in Open
      BY <3>1 DEF HoldsRow, TypeOK, Statuses, Open
    <3>3. QED
      BY <3>1, <3>2 DEF HoldsRow
  <2>5. CASE EndRequest(w)
    BY <2>5 DEF EndRequest, TypeOK
  <2>6. CASE MarkProcessing(w)
    BY <2>6 DEF MarkProcessing, HoldsRow, TypeOK, Open
  <2>7. CASE CheckPosted(w) \/ Apply(w) \/ CouponRefused(w) \/ NothingToDo(w) \/ PostCash(w)
    <3>1. /\ UNCHANGED <<status, cur, todo>> /\ pc[w] \in {"check", "apply"}
          /\ pc'[w] # "enqueue"
      BY <2>7 DEF CheckPosted, Apply, Advance, CouponRefused, NothingToDo, PostCash, TypeOK
    <3>2. QED
      BY <3>1 DEF HoldsRow
  <2>8. CASE MarkCompleted(w) \/ MarkFailed(w)
    BY <2>8 DEF MarkCompleted, MarkFailed, NextEntry, HoldsRow, TypeOK
  <2>9. QED
    BY <1>1, <2>1, <2>2, <2>3, <2>4, <2>5, <2>6, <2>7, <2>8 DEF WorkerStep
<1>2. ASSUME NEW w \in Workers, Request(w) PROVE HoldsRow'
  <2>1. ASSUME NEW d \in Docs, CommitDocument(w, d)
        PROVE  /\ todo' = todo /\ pc[w] = "idle" /\ pc'[w] = "scan"
               /\ \A e \in Entries : status[e] # "ABSENT" => status'[e] # "ABSENT"
    BY <2>1 DEF CommitDocument, EnqueueTx, TypeOK
  <2>2. ASSUME NEW d \in Docs, RepeatRequest(w, d)
        PROVE  UNCHANGED <<todo, status>> /\ pc[w] = "idle" /\ pc'[w] = "scan"
    BY <2>2 DEF RepeatRequest, TypeOK
  <2>3. CASE Replay(w)
    BY <2>3 DEF Replay, HoldsRow, TypeOK
  <2>4. ASSUME NEW e \in Entries, ReplayIds(w, e)
        PROVE  todo'[w] = {e} /\ status'[e] # "ABSENT" /\ pc'[w] = "next"
    BY <2>4 DEF ReplayIds, TypeOK
  <2>5. CASE RepairScan(w)
    BY <2>5 DEF RepairScan, HoldsRow, TypeOK
  <2>6. QED
    BY <1>2, <2>1, <2>2, <2>3, <2>4, <2>5 DEF Request, HoldsRow, TypeOK
<1>3. ASSUME NEW w \in Workers, HandlerError(w) \/ StatusUpdateError(w) \/ QueryError(w)
      PROVE  HoldsRow'
  <2>1. CASE HandlerError(w)
    BY <2>1 DEF HandlerError, HoldsRow, TypeOK
  <2>2. CASE StatusUpdateError(w)
    BY <2>2 DEF StatusUpdateError, NextEntry, HoldsRow, TypeOK
  <2>3. CASE QueryError(w)
    BY <2>3 DEF QueryError, HoldsRow, TypeOK
  <2>4. QED
    BY <1>3, <2>1, <2>2, <2>3
<1>4. CASE Crash
  BY <1>4 DEF Crash, HoldsRow
<1>5. CASE Environment \/ UNCHANGED vars
  <2>1. UNCHANGED <<status, pc, todo, cur>>
    BY <1>5 DEF Environment, FinalizeHeldSale, BecomeDue, OpenCashRegister, CloseCashRegister,
                vars
  <2>2. QED
    BY <2>1 DEF HoldsRow
<1>6. QED
  BY <1>1, <1>2, <1>3, <1>4, <1>5 DEF Next, Fault

\* The variables of PostingPromise, as KeepsPromise reads them from the state.
Debt == [e \in Guaranteed |->
  CASE status[e] = "ABSENT" -> "none"
    [] status[e] = "COMPLETED" -> "settled"
    [] OTHER -> "owed"]
Times == [e \in Guaranteed |-> posted[e][LinesOf(e)]]

\* A step that opens rows, and closes none, owes what is new.
LEMMA StepOwes ==
  ASSUME TypeOK, TypeOK', UNCHANGED <<posted, waived>>,
         \A e \in Guaranteed :
           \/ status'[e] = status[e]
           \/ status[e] \in Open \cup {"ABSENT"} /\ status'[e] \in Open
  PROVE  Promise!Next
<1>1. Times' = Times
  BY DEF Times, LinesOf, Kind
<1>2. Debt' \in [Guaranteed -> {"none", "owed", "settled"}]
  BY DEF Debt
<1>3. \A e \in Guaranteed : Debt'[e] # Debt[e] => Debt[e] = "none" /\ Debt'[e] = "owed"
  BY DEF Debt, Open
<1>4. QED
  BY <1>1, <1>2, <1>3 DEF Promise!Next, Promise!Owe, Debt, Times

\* The last line of an effect performs it, with one walk at a time for the first time.
LEMMA ApplyPerforms ==
  ASSUME TypeOK, OnceInv, HoldsRow, NEW w \in Workers, Apply(w)
  PROVE  Promise!Next \/ UNCHANGED <<Debt, Times, waived>>
<1> USE DEF outbox
<1>a. PICK e \in Entries, i \in 1..Lines : e = cur[w] /\ i = line[w]
  BY DEF Apply, TypeOK
<1>1. posted \in [Entries -> [1..Lines -> Nat]]
  BY DEF TypeOK
<1>2. posted' = [posted EXCEPT ![e][i] = posted[e][i] + 1]
  BY <1>a DEF Apply
<1>3. UNCHANGED <<Debt, waived>>
  BY DEF Apply, Debt
<1>4. \A f \in Guaranteed : f \in Entries /\ LinesOf(f) \in 1..Lines
  BY EntryFacts DEF Guaranteed, Entries
<1>5. Times \in [Guaranteed -> Nat]
  BY <1>1, <1>4 DEF Times
<1>6. Times' = [f \in Guaranteed |-> posted'[f][LinesOf(f)]]
  BY DEF Times, LinesOf, Kind
<1>7. CASE e \in Guaranteed /\ i = LinesOf(e)
  <2>1. posted[e][i] = 0 /\ status[e] \in Open
    BY <1>a, <1>7 DEF OnceInv, Apply, HoldsRow
  <2>2. Times' = [Times EXCEPT ![e] = 1]
    <3>1. \A f \in Guaranteed : f # e => posted'[f][LinesOf(f)] = posted[f][LinesOf(f)]
      BY <1>1, <1>2, <1>4
    <3>2. posted'[e][i] = posted[e][i] + 1
      BY <1>1, <1>2
    <3>3. posted'[e][LinesOf(e)] = 1
      BY <1>7, <2>1, <3>2
    <3>4. \A f \in Guaranteed : Times'[f] = IF f = e THEN 1 ELSE Times[f]
      BY <1>6, <3>1, <3>3 DEF Times
    <3>5. QED
      BY <1>5, <1>6, <3>4
  <2>3. Times[e] = 0 /\ Debt[e] = "owed"
    BY <1>7, <2>1 DEF Times, Debt, Open
  <2>4. Promise!Perform(e)
    BY <1>3, <2>2, <2>3 DEF Promise!Perform, Debt, Times
  <2>5. QED
    BY <1>7, <2>4 DEF Promise!Next
<1>8. CASE ~(e \in Guaranteed /\ i = LinesOf(e))
  <2>1. \A f \in Guaranteed : posted'[f][LinesOf(f)] = posted[f][LinesOf(f)]
    BY <1>1, <1>2, <1>4, <1>8
  <2>2. Times' = Times
    BY <1>6, <2>1 DEF Times
  <2>3. QED
    BY <1>3, <2>2
<1>9. QED
  BY <1>7, <1>8

\* What is found not to apply is excused.
LEMMA NothingToDoExcuses ==
  ASSUME TypeOK, HoldsRow, NEW w \in Workers, NothingToDo(w)
  PROVE  Promise!Next
<1> USE DEF outbox
<1>1. cur[w] \in Guaranteed /\ status[cur[w]] \in Open
  BY DEF NothingToDo, TypeOK, HoldsRow, Guaranteed, Entries, Kind, Kinds
<1>2. Debt[cur[w]] = "owed"
  BY <1>1 DEF Debt, Open
<1>3. waived' = waived \cup {cur[w]} /\ UNCHANGED <<Debt, Times>>
  BY DEF NothingToDo, Debt, Times, LinesOf, Kind
<1>4. Promise!Excuse(cur[w])
  BY <1>2, <1>3 DEF Promise!Excuse, Debt, Times
<1>5. QED
  BY <1>1, <1>4 DEF Promise!Next

\* A row is closed when its effect was performed, once, or found not to apply.
LEMMA CompletedSettles ==
  ASSUME DropInv, OnceInv, HoldsRow, NEW w \in Workers, MarkCompleted(w)
  PROVE  Promise!Next \/ UNCHANGED <<Debt, Times, waived>>
<1> USE DEF effects
<1>a. PICK e \in Entries : e = cur[w]
  BY DEF MarkCompleted, DropInv, TypeOK
<1>1. /\ status \in [Entries -> Statuses]
      /\ posted \in [Entries -> [1..Lines -> Nat]]
  BY DEF MarkCompleted, DropInv, TypeOK
<1>2. status' = [status EXCEPT ![e] = "COMPLETED"] /\ UNCHANGED <<Times, waived>>
  BY <1>a DEF MarkCompleted, Times, LinesOf, Kind
<1>3. CASE e \in Guaranteed
  <2>1. Discharged(e) /\ status[e] \in Open
    BY <1>a, <1>3 DEF MarkCompleted, DropInv, WalkSound, HoldsRow
  <2>2. LinesOf(e) \in 1..Lines
    BY <1>1, EntryFacts
  <2>3. posted[e][LinesOf(e)] <= 1
    BY <1>3, <2>2 DEF OnceInv, AtMostOnce
  <2>4. Times[e] = 1 \/ e \in waived
    <3>1. CASE Performed(e)
      <4>1. posted[e][LinesOf(e)] > 0 /\ posted[e][LinesOf(e)] \in Nat
        BY <1>1, <2>2, <3>1, ConstantsOK DEF Performed
      <4>2. QED
        BY <1>3, <2>3, <4>1 DEF Times
    <3>2. QED
      BY <2>1, <3>1 DEF Discharged
  <2>5. Debt' = [Debt EXCEPT ![e] = "settled"]
    BY <1>1, <1>2, <1>3 DEF Debt, Guaranteed, Entries
  <2>6. Debt[e] = "owed"
    BY <1>3, <2>1 DEF Debt, Open
  <2>7. Promise!Settle(e)
    BY <1>2, <2>4, <2>5, <2>6 DEF Promise!Settle, Debt, Times
  <2>8. QED
    BY <1>3, <2>7 DEF Promise!Next
<1>4. CASE e \notin Guaranteed
  <2>1. \A f \in Guaranteed : status'[f] = status[f]
    BY <1>1, <1>2, <1>4 DEF Guaranteed, Entries
  <2>2. Debt' = Debt
    BY <2>1 DEF Debt
  <2>3. QED
    BY <1>2, <2>2
<1>5. QED
  BY <1>3, <1>4

\* Every other step writes no posting, and opens rows or leaves them open.
LEMMA OtherStepsOwe ==
  ASSUME TypeOK, TypeOK', HoldsRow, [Next]_vars,
         \A w \in Workers : ~Apply(w) /\ ~NothingToDo(w) /\ ~MarkCompleted(w)
  PROVE  Promise!Next
<1> USE DEF outbox, coupon, effects, workers, bounds
<1>0. \A e \in Guaranteed : e \in Entries
  BY DEF Guaranteed, Entries
<1> DEFINE Opens == \A e \in Guaranteed :
              \/ status'[e] = status[e]
              \/ status[e] \in Open \cup {"ABSENT"} /\ status'[e] \in Open
<1>1. ASSUME NEW rows, EnqueueTx(rows) PROVE Opens
  <2>1. ASSUME NEW e \in Guaranteed, status'[e] # status[e]
        PROVE  status[e] \in Open \cup {"ABSENT"} /\ status'[e] \in Open
    <3>1. status[e] # "COMPLETED" /\ status'[e] = "PENDING" /\ status[e] \in Statuses
      BY <1>0, <1>1, <2>1 DEF EnqueueTx, TypeOK
    <3>2. QED
      BY <3>1 DEF Open, Statuses
  <2>2. QED
    BY <2>1
<1>2. ASSUME NEW w \in Workers, WorkerStep(w)
      PROVE  UNCHANGED <<posted, waived>> /\ Opens
  <2>1. UNCHANGED <<posted, waived>>
    BY <1>2 DEF WorkerStep, RepairEnqueue, Scan, SkipCompleted, LoadEntry, EndRequest,
                MarkProcessing, CheckPosted, CouponRefused, PostCash, MarkFailed
  <2>2. CASE RepairEnqueue(w)
    BY <1>1, <2>1, <2>2 DEF RepairEnqueue
  <2>3. CASE MarkProcessing(w) \/ MarkFailed(w)
    <3>1. PICK e \in Entries : e = cur[w] /\ status[e] \in Open
      BY <2>3 DEF MarkProcessing, MarkFailed, HoldsRow, TypeOK
    <3>2. PICK s \in Open : status' = [status EXCEPT ![e] = s]
      BY <2>3, <3>1 DEF MarkProcessing, MarkFailed, Open
    <3>3. status \in [Entries -> Statuses]
      BY DEF TypeOK
    <3>4. QED
      BY <1>0, <2>1, <3>1, <3>2, <3>3
  <2>4. CASE UNCHANGED status
    BY <2>1, <2>4
  <2>5. RepairEnqueue(w) \/ MarkProcessing(w) \/ MarkFailed(w) \/ UNCHANGED status
    BY <1>2 DEF WorkerStep, Scan, SkipCompleted, LoadEntry, EndRequest, CheckPosted,
                CouponRefused, PostCash
  <2>6. QED
    BY <2>2, <2>3, <2>4, <2>5
<1>3. ASSUME NEW w \in Workers, Request(w)
      PROVE  UNCHANGED <<posted, waived>> /\ Opens
  <2>1. ASSUME NEW d \in Docs, CommitDocument(w, d)
        PROVE  UNCHANGED <<posted, waived>> /\ Opens
    BY <1>1, <2>1 DEF CommitDocument
  <2>2. (\E d \in Docs : CommitDocument(w, d)) \/ UNCHANGED <<status, posted, waived>>
    BY <1>3 DEF Request, RepeatRequest, Replay, ReplayIds, RepairScan
  <2>3. CASE UNCHANGED <<status, posted, waived>>
    BY <2>3
  <2>4. QED
    <3> HIDE DEF Opens
    <3>1. QED
      BY <2>1, <2>2, <2>3
<1>4. ASSUME Fault PROVE UNCHANGED <<posted, waived>> /\ Opens
  <2>1. UNCHANGED <<status, posted, waived>>
    BY <1>4 DEF Fault, HandlerError, StatusUpdateError, QueryError, Crash
  <2>2. QED
    BY <2>1
<1>5. ASSUME Environment \/ UNCHANGED vars PROVE UNCHANGED <<posted, waived>> /\ Opens
  <2>1. UNCHANGED <<status, posted, waived>>
    BY <1>5 DEF Environment, FinalizeHeldSale, BecomeDue, OpenCashRegister,
                CloseCashRegister, vars
  <2>2. QED
    BY <2>1
<1>6. UNCHANGED <<posted, waived>> /\ Opens
  <2> HIDE DEF Opens
  <2>1. CASE Next
    BY <1>2, <1>3, <1>4, <1>5, <2>1 DEF Next
  <2>2. CASE UNCHANGED vars
    BY <1>5, <2>2
  <2>3. QED
    BY <2>1, <2>2
<1>7. QED
  BY <1>6, StepOwes

\* While walks do not overlap, and a coupon code may be redeemed once, the outbox keeps
\* the promise of the hardening document through every crash, failed statement, handler
\* error, repeated request and replay: it implements PostingPromise.
THEOREM SerialKeepsPromise ==
  ASSUME \A v, w \in Workers : v = w, CouponLimit = 1
  PROVE  Spec => KeepsPromise
<1>1. Init => Promise!Init
  <2> SUFFICES ASSUME Init PROVE Promise!Init
    OBVIOUS
  <2>1. \A e \in Guaranteed : e \in Entries /\ LinesOf(e) \in 1..Lines
    BY EntryFacts DEF Guaranteed, Entries
  <2>2. \A e \in Guaranteed : status[e] = "ABSENT" /\ posted[e][LinesOf(e)] = 0
    BY <2>1 DEF Init
  <2>3. Debt = [e \in Guaranteed |-> "none"] /\ Times = [e \in Guaranteed |-> 0]
    BY <2>2 DEF Debt, Times
  <2>4. QED
    BY <2>3 DEF Promise!Init, Debt, Times, Init
<1>2. Init => HoldsRow
  BY DEF Init, HoldsRow
<1>3. TypeOK /\ HoldsRow /\ [Next]_vars => HoldsRow'
  BY HoldsRowStays
<1>4. DropInv /\ OnceInv /\ HoldsRow /\ TypeOK /\ TypeOK' /\ [Next]_vars
      => [Promise!Next]_<<Debt, Times, waived>>
  BY ApplyPerforms, NothingToDoExcuses, CompletedSettles, OtherStepsOwe
<1>5. Spec => []OnceInv
  BY OnceSound
<1>6. QED
  BY <1>1, <1>2, <1>3, <1>4, <1>5, DropSound, TypeCorrect, PTL
     DEF Spec, KeepsPromise, Promise!Spec, Debt, Times
=============================================================================
