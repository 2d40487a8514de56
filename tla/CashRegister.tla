---------------------------- MODULE CashRegister ----------------------------
(***************************************************************************)
(* The cash register of a location, from opening to closing                *)
(* (go_backend_rmt/internal/services/cash_register_service.go).            *)
(*                                                                         *)
(* Opening looks for an open register without a lock; everything that      *)
(* changes one finds it with FOR UPDATE, which waits for whoever holds the *)
(* row (and, through the join, the location) and then looks at the status  *)
(* again.  The cash of sales, collections and refunds arrives from the     *)
(* finance outbox, at any time and more than once.                         *)
(*                                                                         *)
(* Simplifications:                                                        *)
(*   - one location; what is counted at closing, and so the variance, is   *)
(*     left out, and a register closed by force is a closed one;           *)
(*   - of the events, the sums of those that move cash are kept, and the   *)
(*     keys of those that came from the outbox.                            *)
(***************************************************************************)
EXTENDS Integers, FiniteSets

CONSTANTS
  Requests,     \* concurrent requests
  Entries,      \* cash entries of the outbox: request_id and reason_code
  Incoming,     \* those of direction IN
  Opening,      \* opening balance
  LastDay,      \* bound: days
  MaxMoves,     \* bound: cash_in and cash_out of a register by hand
  NoRegister

\* A row of the table.
Registers ==
  [status : {"OPEN", "CLOSED"}, opening : Nat, in : Nat, out : Nat, expected : Int,
   training : BOOLEAN, movedIn : Nat, movedOut : Nat, keys : SUBSET Entries,
   tallied : BOOLEAN]

CashRegisterConstants ==
  /\ Incoming \subseteq Entries
  /\ {Opening, MaxMoves} \subseteq Nat /\ LastDay \in Nat \ {0}
  /\ NoRegister \notin Registers

VARIABLES
  today,       \* CURRENT_DATE
  register,    \* register[d]: the register of a date
  job,         \* job[r]: what a request has read
  midnight     \* history: an opening began on one day and another on the next

vars == <<today, register, job, midnight>>

Days == 1 .. LastDay
Idle == [op |-> "none"]
Changes == {"IN", "OUT", "close", "training"} \cup Entries

\* What a request knows between two of its statements.
Jobs ==
  {Idle} \cup [op : {"open", "tally"}, day : Days]
    \cup [op : {"wait"}, change : Changes, seen : SUBSET Days]
    \cup [op : {"hold"}, change : Changes, day : Days, in : Nat, out : Nat]

Init ==
  /\ today = 1
  /\ register = [d \in Days |-> NoRegister]
  /\ job = [r \in Requests |-> Idle]
  /\ midnight = FALSE

OpenDays == {d \in Days : register[d] # NoRegister /\ register[d].status = "OPEN"}

\* The location is locked from the FOR UPDATE of one request to its commit.
Holders == {r \in Requests : job[r].op = "hold"}

End(r) == job' = [job EXCEPT ![r] = Idle]

RollBack(r) ==
  /\ job[r] # Idle
  /\ End(r)
  /\ UNCHANGED <<today, register, midnight>>

NextDay ==
  /\ today < LastDay
  /\ today' = today + 1
  /\ midnight' = (midnight \/ \E r \in Requests : job[r].op = "open")
  /\ UNCHANGED <<register, job>>

----------------------------------------------------------------------------
(* Opening                                                                 *)

NewRegister ==
  [status |-> "OPEN", opening |-> Opening, in |-> 0, out |-> 0, expected |-> Opening,
   training |-> FALSE, movedIn |-> 0, movedOut |-> 0, keys |-> {}, tallied |-> FALSE]

\* Fault: only the unique date keeps a second register away.
Fault_NoneOpen == TRUE

NoneOpen == OpenDays = {}

\* CURRENT_DATE is the date on which the transaction began.
BeginOpening(r) ==
  /\ job[r] = Idle
  /\ NoneOpen
  /\ job' = [job EXCEPT ![r] = [op |-> "open", day |-> today]]
  /\ UNCHANGED <<today, register, midnight>>

\* OpenCashRegister does not look again; UNIQUE (location_id, date).
OpenCashRegister(r) ==
  /\ job[r].op = "open"
  /\ Holders = {}
  /\ register[job[r].day] = NoRegister
  /\ register' = [register EXCEPT ![job[r].day] = NewRegister]
  /\ End(r)
  /\ UNCHANGED <<today, midnight>>

----------------------------------------------------------------------------
(* Changing the open register                                              *)

\* The query sees what was open when it began, and may have to wait.
BeginChange(r, change) ==
  /\ job[r] = Idle
  /\ OpenDays # {}
  /\ job' = [job EXCEPT ![r] = [op |-> "wait", change |-> change, seen |-> OpenDays]]
  /\ UNCHANGED <<today, register, midnight>>

\* Fault: a register that was closed during the wait is taken.
Fault_StillOpen(d) == register[d] # NoRegister

StillOpen(d) == d \in OpenDays

\* Fault: the row is read without FOR UPDATE.
Fault_Unlocked == TRUE

Unlocked == Holders = {}

\* FOR UPDATE: a row that is open still, with its balances.
Lock(r) ==
  /\ job[r].op = "wait"
  /\ Unlocked
  /\ \E d \in job[r].seen :
       /\ StillOpen(d)
       /\ job' = [job EXCEPT ![r] = [op |-> "hold", change |-> job[r].change, day |-> d,
            in |-> register[d].in, out |-> register[d].out]]
  /\ UNCHANGED <<today, register, midnight>>

\* No open register: a request is refused, an entry of the outbox counts as posted.
FindNone(r) ==
  /\ job[r].op = "wait"
  /\ Unlocked
  /\ \A d \in job[r].seen : ~StillOpen(d)
  /\ End(r)
  /\ UNCHANGED <<today, register, midnight>>

Commit(r, row) ==
  /\ register' = [register EXCEPT ![job[r].day] = row]
  /\ End(r)
  /\ UNCHANGED <<today, midnight>>

Expected(row, in, out) == row.opening + in - out

\* RecordMovement writes the balances it read with the amount added.
RecordMovement(r) ==
  LET row == register[job[r].day]
      in == job[r].in + (IF job[r].change = "IN" THEN 1 ELSE 0)
      out == job[r].out + (IF job[r].change = "OUT" THEN 1 ELSE 0)
  IN /\ job[r].op = "hold"
     /\ job[r].change \in {"IN", "OUT"}
     /\ row.movedIn + row.movedOut < MaxMoves + Cardinality(row.keys)
     /\ Commit(r, [row EXCEPT !.in = in, !.out = out, !.expected = Expected(row, in, out),
          !.movedIn = @ + in - job[r].in, !.movedOut = @ + out - job[r].out])

Recorded(row, key) == key \in row.keys

\* RecordCashTransactionTx: once in this register.
RecordCashTransactionTx(r) ==
  LET row == register[job[r].day]
      key == job[r].change
      in == IF key \in Incoming THEN 1 ELSE 0
  IN /\ job[r].op = "hold"
     /\ key \in Entries
     /\ Commit(r, IF Recorded(row, key) THEN row
          ELSE [row EXCEPT !.in = @ + in, !.out = @ + 1 - in, !.expected = @ + 2 * in - 1,
                  !.movedIn = @ + in, !.movedOut = @ + 1 - in, !.keys = @ \cup {key}])

\* CloseCashRegister, ForceClose.
CloseCashRegister(r) ==
  LET row == register[job[r].day]
  IN /\ job[r].op = "hold"
     /\ job[r].change = "close"
     /\ Commit(r, [row EXCEPT !.status = "CLOSED",
          !.expected = Expected(row, job[r].in, job[r].out)])

SetTrainingMode(r) ==
  /\ job[r].op = "hold"
  /\ job[r].change = "training"
  /\ Commit(r, [register[job[r].day] EXCEPT !.training = ~@])

\* RecordTally reads without FOR UPDATE; its event may wait for who has the row.
BeginTally(r) ==
  /\ job[r] = Idle
  /\ \E d \in OpenDays : job' = [job EXCEPT ![r] = [op |-> "tally", day |-> d]]
  /\ UNCHANGED <<today, register, midnight>>

RecordTally(r) ==
  /\ job[r].op = "tally"
  /\ Holders = {}
  /\ Commit(r, [register[job[r].day] EXCEPT !.tallied = TRUE])

----------------------------------------------------------------------------

Next ==
  \/ NextDay
  \/ \E r \in Requests :
       \/ RollBack(r) \/ BeginOpening(r) \/ OpenCashRegister(r)
       \/ \E change \in Changes : BeginChange(r, change)
       \/ Lock(r) \/ FindNone(r)
       \/ RecordMovement(r) \/ RecordCashTransactionTx(r) \/ CloseCashRegister(r)
       \/ SetTrainingMode(r)
       \/ BeginTally(r) \/ RecordTally(r)

Spec == Init /\ [][Next]_vars

----------------------------------------------------------------------------

TypeOK ==
  /\ today \in Days
  /\ midnight \in BOOLEAN
  /\ register \in [Days -> Registers \cup {NoRegister}]
  /\ job \in [Requests -> Jobs]

\* Openings that did not overlap midnight leave one open register, though none of them
\* holds a lock between looking for one and inserting its own: the date is taken then
\* (OpenCashRegister).
OneSession == ~midnight => Cardinality(OpenDays) <= 1

\* No movement by hand overwrites cash that was posted after it had read the balances
\* (RecordMovement, RecordCashTransactionTx).
BalancesKept == \A d \in Days : register[d] # NoRegister =>
  LET row == register[d]
  IN /\ row.in = row.movedIn /\ row.out = row.movedOut
     /\ row.expected = Expected(row, row.in, row.out)

\* One register is open (OpenCashRegister), and its balances are what its events say
\* (RecordMovement, RecordCashTransactionTx, CloseCashRegister).
CashFollowsEvents == OneSession /\ BalancesKept

\* A closed register stays as it was closed, but for a late tally: whoever waited for
\* its row finds it closed (CloseCashRegister, ForceClose).
ClosedIsFinal == [][\A d \in Days :
  register[d] # NoRegister /\ register[d].status = "CLOSED" =>
    [register'[d] EXCEPT !.tallied = FALSE] = [register[d] EXCEPT !.tallied = FALSE]]_vars
=============================================================================
