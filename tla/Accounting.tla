----------------------------- MODULE Accounting -----------------------------
(***************************************************************************)
(* Accounting periods, vouchers and bank reconciliation                    *)
(* (go_backend_rmt/internal/services/accounting_admin_service.go,          *)
(* voucher_service.go, banking_service.go).                                *)
(*                                                                         *)
(* An accountant enters the lines of a bank statement and matches them     *)
(* with ledger entries of the bank's account, or posts an adjustment       *)
(* voucher for what is left of a line; when every line of a period is      *)
(* MATCHED the period can be closed.  Nothing is locked: what is still     *)
(* available of a line and of an entry, and whether the period is open, is *)
(* looked at first and used later, and the status of a line is computed    *)
(* from the matches a transaction can see, its own among them.             *)
(*                                                                         *)
(* Simplifications:                                                        *)
(*   - one period and one bank account; every line is dated in the period; *)
(*     all lines are deposits and all entries debits of the same account;  *)
(*   - a ledger entry is the bank line of its voucher, whose other lines   *)
(*     balance it; a line and an entry have the idempotency key of the     *)
(*     request that makes them, so making one again finds it;              *)
(*   - reading a line's review reason, adding up its matches and writing   *)
(*     none of them yet is one step, the UPDATE with the commit another.   *)
(*                                                                         *)
(* Operators named Fault_... are used by no action: each is a wrong form   *)
(* of the definition after it, and some property must refute it.           *)
(***************************************************************************)
EXTENDS Integers, FiniteSets, FiniteSetsExt

CONSTANTS
  Requests,         \* concurrent requests
  Statements,       \* lines of bank statements
  Entries,          \* ledger entries of the bank's account, each by a voucher
  StatementAmount,  \* what a line is about
  EntryAmount,      \* what a voucher of its own is about
  MaxReviews        \* bound: times a line is marked by hand

ASSUME AccountingConstants ==
  /\ IsFiniteSet(Statements) /\ IsFiniteSet(Entries)
  /\ {StatementAmount, EntryAmount} \subseteq Nat \ {0}
  /\ MaxReviews \in Nat

VARIABLES
  period,   \* "OPEN" or "CLOSED"
  entered,  \* the lines that have been entered
  status,   \* status[s] of a line that has been entered
  reason,   \* the lines that have a review_reason
  bank,     \* bank[e]: the amount of the entry, 0 before its voucher is posted
  match,    \* match[s][e]: the amount of the live match of the pair, 0 if none
  at,       \* at[r]: where request r is, and what it has looked up
  reviews,  \* bound: lines marked by hand
  raced     \* history: lines and entries that two requests worked on at once

lines == <<entered, status, reason>>
books == <<bank, match>>
vars  == <<period, lines, books, at, reviews, raced>>

Statuses == {"UNMATCHED", "REVIEW", "MATCHED"}
Most     == IF StatementAmount > EntryAmount THEN StatementAmount ELSE EntryAmount
Idle     == [step |-> "idle"]

Init ==
  /\ period = "OPEN"
  /\ entered = {}
  /\ status = [s \in Statements |-> "UNMATCHED"]
  /\ reason = {}
  /\ bank = [e \in Entries |-> 0]
  /\ match = [s \in Statements |-> [e \in Entries |-> 0]]
  /\ at = [r \in Requests |-> Idle]
  /\ reviews = 0
  /\ raced = {}

Goto(r, where) == at' = [at EXCEPT ![r] = where]
End(r)         == Goto(r, Idle)

\* What has been matched of a line, and of an entry.
MatchedOf(s) == MapThenSumSet(LAMBDA e : match[s][e], Entries)
ClaimedOf(e) == MapThenSumSet(LAMBDA s : match[s][e], Statements)
Available(s) == IF MatchedOf(s) < StatementAmount THEN StatementAmount - MatchedOf(s) ELSE 0

----------------------------------------------------------------------------
(* Vouchers and statement lines                                            *)

\* EnsurePeriodOpen, a query of its own outside any transaction.
EnsurePeriodOpen == period = "OPEN"

\* CreateStatementEntry: the period is checked, then the line is inserted; a
\* line whose key is taken is returned, or refused by the unique index.
CheckLine(r, s) ==
  /\ at[r] = Idle
  /\ EnsurePeriodOpen
  /\ s \notin entered
  /\ Goto(r, [step |-> "enter", s |-> s])
  /\ UNCHANGED <<period, lines, books, reviews, raced>>

CreateStatementEntry(r, why) ==
  /\ at[r].step = "enter"
  /\ LET s == at[r].s IN
       IF s \in entered THEN UNCHANGED lines
       ELSE /\ entered' = entered \cup {s}
            /\ status' = [status EXCEPT ![s] = IF why THEN "REVIEW" ELSE "UNMATCHED"]
            /\ reason' = IF why THEN reason \cup {s} ELSE reason
  /\ End(r)
  /\ UNCHANGED <<period, books, reviews, raced>>

\* CreateVoucher: the period of its date, if that is inside, is checked, then it is posted with its
\* ledger lines in one transaction.
CheckVoucher(r, e, inside) ==
  /\ at[r] = Idle
  /\ bank[e] = 0
  /\ inside => EnsurePeriodOpen
  /\ Goto(r, [step |-> "voucher", e |-> e])
  /\ UNCHANGED <<period, lines, books, reviews, raced>>

PostVoucher(e, amount) ==
  bank' = IF bank[e] = 0 THEN [bank EXCEPT ![e] = amount] ELSE bank

CreateVoucher(r) ==
  /\ at[r].step = "voucher"
  /\ PostVoucher(at[r].e, EntryAmount)
  /\ End(r)
  /\ UNCHANGED <<period, lines, match, reviews, raced>>

----------------------------------------------------------------------------
(* Matching                                                                *)

\* Two requests on one line or entry, the first of which commits while the other
\* has looked and not yet finished.
Overtaken(r, steps, x) ==
  \E q \in Requests \ {r} : at[q].step \in steps /\ x \in {at[q].s, at[q].e}

\* MatchStatement reads what is available of the line,
LooksAtLine(r, s, e, amount) ==
  /\ s \in entered
  /\ amount <= Available(s)
  /\ Goto(r, [step |-> "judge", s |-> s, e |-> e, amount |-> amount])

MatchStatement(r, s, e, amount) ==
  /\ at[r] = Idle
  /\ bank[e] > 0
  /\ LooksAtLine(r, s, e, amount)
  /\ UNCHANGED <<period, lines, books, reviews, raced>>

\* Fault: what other lines have claimed of the entry is forgotten.
Fault_EntryCovers(e, amount) == amount <= bank[e]

\* then what is available of the entry,
EntryCovers(e, amount) == amount <= bank[e] - ClaimedOf(e)

LookAtEntry(r) ==
  /\ at[r].step = "judge"
  /\ IF EntryCovers(at[r].e, at[r].amount)
       THEN Goto(r, [at[r] EXCEPT !.step = "insert"])
       ELSE End(r)
  /\ UNCHANGED <<period, lines, books, reviews, raced>>

\* A transaction that has written the match of the pair and not committed.
Locked(r, s, e) ==
  \E q \in Requests \ {r} : at[q].step \in {"settle", "lift"} /\ at[q].s = s /\ at[q].e = e

\* Fault: any match will do.
Fault_StatusFor(s, total) ==
  IF s \in reason THEN "REVIEW" ELSE IF total > 0 THEN "MATCHED" ELSE "UNMATCHED"

\* refreshStatementStatusTx: a review reason goes before the matches.
StatusFor(s, total) ==
  CASE s \in reason                -> "REVIEW"
    [] s \notin reason /\ total >= StatementAmount -> "MATCHED"
    [] s \notin reason /\ total \in 1..(StatementAmount - 1) -> "REVIEW"
    [] OTHER -> "UNMATCHED"

\* then inserts the match, unless the pair has a live one, and computes the
\* line's status from the matches it sees;
InsertMatch(r) ==
  /\ at[r].step = "insert"
  /\ ~Locked(r, at[r].s, at[r].e)
  /\ LET s == at[r].s IN
       IF match[s][at[r].e] > 0 THEN End(r)
       ELSE Goto(r, [step |-> "settle", s |-> s, e |-> at[r].e, amount |-> at[r].amount,
                     status |-> StatusFor(s, MatchedOf(s) + at[r].amount)])
  /\ UNCHANGED <<period, lines, books, reviews, raced>>

\* the UPDATE of the status, and the commit.
CommitMatch(r) ==
  /\ at[r].step = "settle"
  /\ LET s == at[r].s  e == at[r].e IN
       /\ match' = [match EXCEPT ![s][e] = at[r].amount]
       /\ status' = [status EXCEPT ![s] = at[r].status]
       /\ raced' = raced \cup {x \in {s, e} :
            \/ x = s /\ Overtaken(r, {"judge", "insert", "settle", "lift"}, s)
            \/ x = e /\ Overtaken(r, {"insert", "settle"}, e)}
  /\ End(r)
  /\ UNCHANGED <<period, entered, reason, bank, reviews>>

\* UnmatchStatement: deletes the match, if it is live, computes the status;
UnmatchStatement(r, s, e) ==
  /\ at[r] = Idle
  /\ s \in entered
  /\ ~Locked(r, s, e)
  /\ Goto(r, [step |-> "lift", s |-> s, e |-> e, amount |-> match[s][e],
              status |-> StatusFor(s, MatchedOf(s) - match[s][e])])
  /\ UNCHANGED <<period, lines, books, reviews, raced>>

CommitUnmatch(r) ==
  /\ at[r].step = "lift"
  /\ LET s == at[r].s  e == at[r].e IN
       /\ match' = IF at[r].amount > 0 THEN [match EXCEPT ![s][e] = 0] ELSE match
       /\ status' = [status EXCEPT ![s] = at[r].status]
       /\ raced' = IF Overtaken(r, {"settle", "lift"}, s) THEN raced \cup {s} ELSE raced
  /\ End(r)
  /\ UNCHANGED <<period, entered, reason, bank, reviews>>

\* MarkStatementReview, one UPDATE: a reason makes the line REVIEW, none makes it
\* UNMATCHED, whatever matches it has.
MarkStatementReview(s, why) ==
  /\ s \in entered
  /\ reviews < MaxReviews
  /\ status' = [status EXCEPT ![s] = IF why THEN "REVIEW" ELSE "UNMATCHED"]
  /\ reason' = IF why THEN reason \cup {s} ELSE reason \ {s}
  /\ reviews' = reviews + 1
  /\ UNCHANGED <<period, entered, books, at, raced>>

----------------------------------------------------------------------------
(* CreateAdjustment: a voucher over what is left of a line, then its match.  *)

StartAdjustment(r, s, e, inside) ==
  /\ at[r] = Idle
  /\ s \in entered
  /\ Available(s) > 0
  /\ inside => EnsurePeriodOpen
  /\ Goto(r, [step |-> "adjust", s |-> s, e |-> e, amount |-> Available(s)])
  /\ UNCHANGED <<period, lines, books, reviews, raced>>

\* The voucher commits by itself; a key that was used before finds the voucher it
\* made then, with the amount it had.
AdjustmentVoucher(r) ==
  /\ at[r].step = "adjust"
  /\ PostVoucher(at[r].e, at[r].amount)
  /\ Goto(r, [at[r] EXCEPT !.step = "adjusted"])
  /\ UNCHANGED <<period, lines, match, reviews, raced>>

MatchAdjustment(r) ==
  /\ at[r].step = "adjusted"
  /\ \/ LooksAtLine(r, at[r].s, at[r].e, at[r].amount)
     \/ at[r].amount > Available(at[r].s) /\ End(r)
  /\ UNCHANGED <<period, lines, books, reviews, raced>>

----------------------------------------------------------------------------
(* Closing the period                                                      *)

\* The checklist: every line of the period is MATCHED, and what else it asks is
\* in order.
Checklist(inOrder) == inOrder /\ \A s \in entered : status[s] = "MATCHED"

LookAtChecklist(r, inOrder) ==
  /\ at[r] = Idle
  /\ period = "OPEN"
  /\ Checklist(inOrder)
  /\ Goto(r, [step |-> "close"])
  /\ UNCHANGED <<period, lines, books, reviews, raced>>

CloseAccountingPeriod(r) ==
  /\ at[r].step = "close"
  /\ period' = "CLOSED"
  /\ End(r)
  /\ UNCHANGED <<lines, books, reviews, raced>>

ReopenAccountingPeriod ==
  /\ period = "CLOSED"
  /\ period' = "OPEN"
  /\ UNCHANGED <<lines, books, at, reviews, raced>>

\* A statement fails or the server stops: what has not committed is undone.
Fail(r) ==
  /\ at[r].step \in {"insert", "settle", "lift", "adjusted", "close"}
  /\ End(r)
  /\ UNCHANGED <<period, lines, books, reviews, raced>>

----------------------------------------------------------------------------

AccountingStep(r) ==
  \/ \E s \in Statements : CheckLine(r, s)
  \/ \E why \in BOOLEAN : CreateStatementEntry(r, why)
  \/ \E e \in Entries, inside \in BOOLEAN : CheckVoucher(r, e, inside)
  \/ CreateVoucher(r)
  \/ \E s \in Statements, e \in Entries :
       \/ \E amount \in 1..Most : MatchStatement(r, s, e, amount)
       \/ UnmatchStatement(r, s, e)
       \/ \E inside \in BOOLEAN : StartAdjustment(r, s, e, inside)
  \/ LookAtEntry(r) \/ InsertMatch(r) \/ CommitMatch(r) \/ CommitUnmatch(r)
  \/ AdjustmentVoucher(r) \/ MatchAdjustment(r)
  \/ CloseAccountingPeriod(r)
  \/ Fail(r)

Next ==
  \/ \E r \in Requests : AccountingStep(r) \/ LookAtChecklist(r, TRUE)
  \/ \E s \in Statements, why \in BOOLEAN : MarkStatementReview(s, why)
  \/ ReopenAccountingPeriod

Spec == Init /\ [][Next]_vars

----------------------------------------------------------------------------
(* Properties                                                              *)

\* No more of a line is matched than it is about, and no more of an entry than
\* its amount, unless two requests matched it at once.
MatchesWithin ==
  /\ \A s \in Statements \ raced : MatchedOf(s) <= StatementAmount
  /\ \A e \in Entries \ raced : ClaimedOf(e) <= bank[e]

\* A line that is MATCHED, and so lets the period be closed, is matched in full,
\* unless two requests changed its matches at once.
MatchedIsWhole ==
  \A s \in entered \ raced : status[s] = "MATCHED" => MatchedOf(s) >= StatementAmount

\* What the manual says of a closed period (ACCOUNTING_MODULE_USER_MANUAL.md:547,
\* "blocks voucher and bank-statement activity in closed dates").
ClosedBlocksActivity ==
  [][period = "CLOSED" /\ period' = "CLOSED" => UNCHANGED <<status, match>>]_vars
=============================================================================
