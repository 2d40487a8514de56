------------------------------ MODULE SaleEdit ------------------------------
(***************************************************************************)
(* Editing a completed sale                                                *)
(* (go_backend_rmt/internal/services/pos_sale_edit.go).                    *)
(*                                                                         *)
(* The edit commits the new amounts, then deletes the sale's ledger lines  *)
(* and posts them again, then records the change of cash: three separate   *)
(* commits, and no outbox row stands for the last two.  Meanwhile the      *)
(* finance outbox (FinanceOutbox) may post the same ledger lines, and      *)
(* other edits may begin.                                                  *)
(*                                                                         *)
(* Simplifications:                                                        *)
(*   - the amounts of a sale are the number of its version; a ledger line  *)
(*     carries the version that it was computed from, 0 when it is absent; *)
(*   - every version has the same lines and changes the cash paid, and a   *)
(*     register is open, so that each edit has a cash event;               *)
(*   - a walk loads the outbox row and marks it in one step, and looks for *)
(*     a line and writes it in one step (FinanceOutbox has the races);     *)
(*   - RecordSale reads the sale's totals and its cost in one step.        *)
(*                                                                         *)
(* Operators named Fault_... are used by no action: each is a wrong form   *)
(* of the definition after it, and some property must refute it.           *)
(***************************************************************************)
EXTENDS Naturals

CONSTANTS
  Requests,    \* concurrent requests: edits, walks of the outbox, repairs
  Lines,       \* ledger lines of the sale
  MaxVersion,  \* bound: versions of the sale
  MaxFaults    \* bound: failed statements and crashes

EditConstants ==
  Lines \in Nat \ {0} /\ MaxVersion \in Nat \ {0} /\ MaxFaults \in Nat

VARIABLES
  version,   \* the committed amounts of the sale
  row,       \* status of its ledger.sale.record row
  ledger,    \* ledger[i]: the version line i was computed from
  deltas,    \* versions whose change of cash is in the register
  edition,   \* edition[r]: the version an edit was opened on, then the one it made
  job,       \* job[r]: what request r does
  step,      \* step[r]: where it is
  amounts,   \* amounts[r]: the version RecordSale has read
  line,      \* line[r]: the line it posts next
  disturbed, \* history: an edit failed, or ran beside another request
  faults

books    == <<row, ledger, deltas>>
requests == <<edition, job, step, amounts, line>>
bounds   == <<disturbed, faults>>
vars == <<version, books, requests, bounds>>

Init ==
  /\ version = 1
  /\ row = "PENDING"
  /\ ledger = [i \in 1..Lines |-> 0]
  /\ deltas = {}
  /\ edition = [r \in Requests |-> 0]
  /\ job = [r \in Requests |-> "none"]
  /\ step = [r \in Requests |-> "idle"]
  /\ amounts = [r \in Requests |-> 0]
  /\ line = [r \in Requests |-> 1]
  /\ disturbed = FALSE
  /\ faults = 0

Goto(r, s) == step' = [step EXCEPT ![r] = s]

\* A request starts: an edit beside any other, or any beside an edit.
Begins(r, what) ==
  /\ job' = [job EXCEPT ![r] = what]
  /\ disturbed' = (disturbed \/ \E q \in Requests : "edit" \in {what, job[q]} /\ job[q] # "none")

----------------------------------------------------------------------------
(* The edit                                                                *)

\* A cashier opens the sale; the request will quote its updated_at.
OpenEdit(r) ==
  /\ step[r] = "idle"
  /\ version < MaxVersion
  /\ edition' = [edition EXCEPT ![r] = version]
  /\ UNCHANGED <<version, books, job, step, amounts, line, bounds>>

\* The transaction, with the sale's row locked: "sale has changed since the edit
\* session started" unless the baseline is still the sale's version.
CommitEdit(r) ==
  /\ step[r] = "idle"
  /\ edition[r] = version /\ version < MaxVersion
  /\ version' = version + 1
  /\ edition' = [edition EXCEPT ![r] = version + 1]
  /\ Begins(r, "edit")
  /\ Goto(r, "clear")
  /\ UNCHANGED <<books, amounts, line, faults>>

\* rebuildSaleLedger: DELETE the sale's lines ...
ClearLedger(r) ==
  /\ step[r] = "clear"
  /\ ledger' = [i \in 1..Lines |-> 0]
  /\ Goto(r, "read")
  /\ UNCHANGED <<version, row, deltas, edition, job, amounts, line, bounds>>

\* Fault: an edit posts the amounts that it was opened on.
Fault_ReadSale(r) ==
  /\ step[r] = "read"
  /\ amounts' = [amounts EXCEPT ![r] = IF job[r] = "edit" THEN edition[r] - 1 ELSE version]
  /\ line' = [line EXCEPT ![r] = 1]
  /\ Goto(r, "post")
  /\ UNCHANGED <<version, books, edition, job, bounds>>

\* ... and RecordSale, which reads the sale as it is by now, ...
ReadSale(r) ==
  /\ step[r] = "read"
  /\ amounts' = [amounts EXCEPT ![r] = version]
  /\ line' = [line EXCEPT ![r] = 1]
  /\ Goto(r, "post")
  /\ UNCHANGED <<version, books, edition, job, bounds>>

\* Fault: the loop runs past the last line.
Fault_PostLine(r) ==
  /\ step[r] = "post"
  /\ ledger' = [ledger EXCEPT ![line[r]] = IF @ = 0 THEN amounts[r] ELSE @]
  /\ line' = [line EXCEPT ![r] = @ + 1]
  /\ IF line[r] < Lines THEN UNCHANGED step ELSE Goto(r, "finish")
  /\ UNCHANGED <<version, row, deltas, edition, job, amounts, bounds>>

\* ... and writes each line that is missing.
PostLine(r) ==
  /\ step[r] = "post"
  /\ ledger' = [ledger EXCEPT ![line[r]] = IF @ = 0 THEN amounts[r] ELSE @]
  /\ IF line[r] < Lines
       THEN line' = [line EXCEPT ![r] = @ + 1] /\ UNCHANGED step
       ELSE Goto(r, "finish") /\ UNCHANGED line
  /\ UNCHANGED <<version, row, deltas, edition, job, amounts, bounds>>

Done(r) ==
  /\ Goto(r, "idle")
  /\ job' = [job EXCEPT ![r] = "none"]
  /\ UNCHANGED <<version, ledger, edition, amounts, line>>

\* recordSaleEditCashDelta: what this edit changed, and the edit is answered.
RecordCashDelta(r) ==
  /\ step[r] = "finish" /\ job[r] = "edit"
  /\ deltas' = deltas \cup {edition[r]}
  /\ Done(r)
  /\ UNCHANGED <<row, bounds>>

----------------------------------------------------------------------------
(* The finance outbox, as far as this sale's ledger goes                   *)

Retryable == {"PENDING", "FAILED"}

Walk(r) ==
  /\ row' = "PROCESSING"
  /\ Begins(r, "walk")
  /\ Goto(r, "read")
  /\ UNCHANGED <<version, ledger, deltas, edition, amounts, line, faults>>

\* The walk after the checkout, or Replay Outbox.
StartWalk(r) ==
  /\ step[r] = "idle"
  /\ row \in Retryable
  /\ Walk(r)

LedgerMissing == \A i \in 1..Lines : ledger[i] = 0

\* Repair Missing Ledger enqueues the row again, which leaves a COMPLETED one
\* as it is, and replays what is PENDING or FAILED.
Repair(r) ==
  /\ step[r] = "idle"
  /\ LedgerMissing
  /\ row # "COMPLETED"
  /\ Walk(r)

FinishWalk(r) ==
  /\ step[r] = "finish" /\ job[r] = "walk"
  /\ row' = "COMPLETED"
  /\ Done(r)
  /\ UNCHANGED <<deltas, bounds>>

----------------------------------------------------------------------------
(* Faults                                                                  *)

\* Fault: the error of a walk is swallowed, and its row counts as done.
Fault_StatementError(r) ==
  /\ step[r] \in {"clear", "read", "post", "finish"}
  /\ faults < MaxFaults
  /\ faults' = faults + 1
  /\ row' = IF job[r] = "walk" THEN "COMPLETED" ELSE row
  /\ disturbed' = (disturbed \/ job[r] = "edit")
  /\ Done(r)
  /\ UNCHANGED deltas

\* A statement fails: a walk marks its row FAILED (unless the failed statement
\* is the last status update), an edit answers an error.
StatementError(r) ==
  /\ step[r] \in {"clear", "read", "post", "finish"}
  /\ faults < MaxFaults
  /\ faults' = faults + 1
  /\ row' = IF job[r] = "walk" /\ step[r] # "finish" THEN "FAILED" ELSE row
  /\ disturbed' = (disturbed \/ job[r] = "edit")
  /\ Done(r)
  /\ UNCHANGED deltas

\* The server process dies.
Crash ==
  /\ faults < MaxFaults
  /\ \E r \in Requests : step[r] # "idle"
  /\ faults' = faults + 1
  /\ disturbed' = (disturbed \/ \E r \in Requests : job[r] = "edit")
  /\ step' = [r \in Requests |-> "idle"]
  /\ job' = [r \in Requests |-> "none"]
  /\ UNCHANGED <<version, books, edition, amounts, line>>

----------------------------------------------------------------------------

Progress(r) ==
  \/ ClearLedger(r) \/ ReadSale(r) \/ PostLine(r) \/ RecordCashDelta(r)
  \/ FinishWalk(r)

Next ==
  \/ \E r \in Requests :
       OpenEdit(r) \/ CommitEdit(r) \/ StartWalk(r) \/ Repair(r) \/ Progress(r)
         \/ StatementError(r)
  \/ Crash

Spec == Init /\ [][Next]_vars

----------------------------------------------------------------------------
(* Properties                                                              *)

TypeOK ==
  /\ version \in 1..MaxVersion
  /\ row \in {"PENDING", "PROCESSING", "FAILED", "COMPLETED"}
  /\ ledger \in [1..Lines -> 0..MaxVersion]
  /\ deltas \subseteq 2..MaxVersion
  /\ edition \in [Requests -> 0..MaxVersion]
  /\ job \in [Requests -> {"none", "edit", "walk"}]
  /\ step \in [Requests -> {"idle", "clear", "read", "post", "finish"}]
  /\ amounts \in [Requests -> 0..MaxVersion]
  /\ line \in [Requests -> 1..Lines]
  /\ disturbed \in BOOLEAN
  /\ faults \in 0..MaxFaults

Quiet == \A r \in Requests : step[r] = "idle"

\* ledger_service.go:196, "posts minimal double-entry ledger lines for a
\* completed sale": debits equal credits only among lines computed from the same
\* amounts, so when no request runs the lines the sale has agree.
OneVersion ==
  Quiet => \A i, j \in 1..Lines :
    ledger[i] # 0 /\ ledger[j] # 0 => ledger[i] = ledger[j]

\* As long as each edit ran alone and to its end, and whatever happened to the
\* walks between them, the books of the quiet system are those of the sale as it
\* was last edited: every line of a sale that was posted or edited has its
\* current amounts, and the register has had the change of cash of every edit.
BooksFollowSale ==
  Quiet /\ ~disturbed =>
    /\ row = "COMPLETED" \/ version > 1 => \A i \in 1..Lines : ledger[i] = version
    /\ deltas = 2..version

\* Whatever fails and whoever walks beside it, a row that is COMPLETED stands for
\* a whole posting, as long as no edit has deleted lines.
UneditedIsWhole ==
  version = 1 /\ row = "COMPLETED" => \A i \in 1..Lines : ledger[i] = 1

\* FINANCIAL_INTEGRITY_HARDENING.md:102, "If a historical document has no ledger
\* rows, use Repair Missing Ledger": when no request runs and the sale has no
\* ledger line, the repair starts a walk.
RepairHelps == Quiet /\ LedgerMissing => row # "COMPLETED"
=============================================================================
