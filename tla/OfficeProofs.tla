-------------------------- MODULE OfficeProofs --------------------------
(***************************************************************************)
(* Theorems of the office: the cash register, the accounts, payroll, and   *)
(* the ledger of the documents, for any number of requests, days,          *)
(* movements, statement lines, ledger entries, components and documents.   *)
(***************************************************************************)
EXTENDS MCOffice, Sequences, SumTheorems, TLAPS

\* A row exists from the moment a request may write it, and the one that a request has
\* locked is open and as the request has read it; nobody else holds a lock.
LockSound ==
  /\ \A r \in Requests :
       /\ job[r].op = "tally" => register[job[r].day] # NoRegister
       /\ job[r].op = "hold" =>
            LET row == register[job[r].day]
            IN /\ row # NoRegister /\ row.status = "OPEN"
               /\ row.in = job[r].in /\ row.out = job[r].out
  /\ \A q, r \in Till!Holders : q = r

\* Until an opening overlaps midnight, one register is open, and none but today's while
\* another opening is under way.
OpenToday == ~midnight =>
  /\ \A d, e \in Till!OpenDays : d = e
  /\ \A r \in Requests : job[r].op = "open" =>
       job[r].day = today /\ Till!OpenDays \subseteq {today}

TillInv == Till!TypeOK /\ LockSound /\ Till!BalancesKept /\ OpenToday

----------------------------------------------------------------------------
(* What the two kinds of write do to the rest                              *)

\* A request whose job ends leaves the jobs of the others as they were.
LEMMA Ending ==
  ASSUME Till!TypeOK, NEW r \in Requests, Till!End(r)
  PROVE  /\ job' \in [Requests -> Till!Jobs]
         /\ job'[r] = Till!Idle /\ Till!Idle.op = "none"
         /\ \A q \in Requests : q # r => job'[q] = job[q]
BY DEF Till!TypeOK, Till!End, Till!Jobs, Till!Idle

\* What a job says of itself.
LEMMA JobFacts ==
  ASSUME Till!TypeOK, NEW r \in Requests
  PROVE  /\ job[r].op \in {"open", "tally", "hold"} => job[r].day \in Till!Days
         /\ job[r].op = "hold" => /\ job[r].in \in Nat /\ job[r].out \in Nat
                                  /\ job[r].change \in Till!Changes
         /\ job[r].op = "wait" =>
              job[r].seen \subseteq Till!Days /\ job[r].change \in Till!Changes
BY DEF Till!TypeOK, Till!Jobs, Till!Idle

\* Whoever has the lock writes a row of the same status, or closes it, and keeps the
\* invariant if the balances of that row are those of its events.
LEMMA HolderWrites ==
  ASSUME Till!CashRegisterConstants, TillInv, NEW r \in Requests, job[r].op = "hold",
         NEW row \in Till!Registers, Till!Commit(r, row),
         row.in = row.movedIn, row.out = row.movedOut,
         row.expected = Till!Expected(row, row.in, row.out)
  PROVE  TillInv'
<1>1. job[r].day \in Till!Days
  BY JobFacts DEF TillInv
<1>2. /\ register' = [register EXCEPT ![job[r].day] = row]
      /\ Till!End(r) /\ UNCHANGED <<today, midnight>>
  BY DEF Till!Commit
<1>3. row # NoRegister
  BY DEF Till!CashRegisterConstants
<1>4. /\ job' \in [Requests -> Till!Jobs] /\ job'[r] = Till!Idle /\ Till!Idle.op = "none"
      /\ \A q \in Requests : q # r => job'[q] = job[q]
  BY <1>2, Ending DEF TillInv
<1>5. \A q \in Requests : q # r => job[q].op # "hold"
  BY DEF TillInv, LockSound, Till!Holders
<1>6. Till!TypeOK'
  BY <1>1, <1>2, <1>4 DEF TillInv, Till!TypeOK
<1>7. LockSound'
  BY <1>1, <1>2, <1>3, <1>4, <1>5, JobFacts
     DEF TillInv, Till!TypeOK, LockSound, Till!Holders
<1>8. Till!BalancesKept'
  BY <1>1, <1>2, <1>3 DEF TillInv, Till!TypeOK, Till!BalancesKept, Till!Expected
<1>9. Till!OpenDays' \subseteq Till!OpenDays
  BY <1>1, <1>2 DEF TillInv, Till!TypeOK, LockSound, Till!OpenDays
<1>10. OpenToday'
  BY <1>2, <1>4, <1>9 DEF TillInv, OpenToday
<1>11. QED
  BY <1>6, <1>7, <1>8, <1>10 DEF TillInv

LEMMA TillStays == Till!CashRegisterConstants /\ TillInv /\ [Till!Next]_(Till!vars) => TillInv'
<1> SUFFICES ASSUME Till!CashRegisterConstants, TillInv, [Till!Next]_(Till!vars)
             PROVE  TillInv'
  OBVIOUS
<1> USE DEF TillInv
<1>1. CASE Till!NextDay
  <2>1. /\ today' = today + 1 /\ today' \in Till!Days /\ UNCHANGED <<register, job>>
        /\ midnight' = (midnight \/ \E r \in Requests : job[r].op = "open")
    BY <1>1 DEF Till!NextDay, Till!Days, Till!TypeOK, Till!CashRegisterConstants
  <2>2. Till!TypeOK' /\ LockSound' /\ Till!BalancesKept'
    BY <2>1 DEF Till!TypeOK, LockSound, Till!Holders, Till!BalancesKept, Till!Expected
  <2>3. OpenToday'
    BY <2>1 DEF OpenToday, Till!OpenDays, Till!TypeOK
  <2>4. QED
    BY <2>2, <2>3
<1>2. ASSUME NEW r \in Requests, Till!RollBack(r)
      PROVE  TillInv'
  <2>1. UNCHANGED <<today, register, midnight>> /\ Till!End(r)
    BY <1>2 DEF Till!RollBack
  <2>2. QED
    BY <2>1, Ending
       DEF Till!TypeOK, LockSound, Till!Holders, Till!BalancesKept, Till!Expected,
           OpenToday, Till!OpenDays
<1>3. ASSUME NEW r \in Requests, Till!BeginOpening(r)
      PROVE  TillInv'
  <2>1. /\ job' = [job EXCEPT ![r] = [op |-> "open", day |-> today]]
        /\ Till!OpenDays = {} /\ UNCHANGED <<today, register, midnight>>
    BY <1>3 DEF Till!BeginOpening, Till!NoneOpen
  <2>2. [op |-> "open", day |-> today] \in Till!Jobs
    BY DEF Till!TypeOK, Till!Jobs
  <2>3. Till!TypeOK'
    BY <2>1, <2>2 DEF Till!TypeOK
  <2>4. LockSound' /\ Till!BalancesKept'
    BY <2>1 DEF Till!TypeOK, LockSound, Till!Holders, Till!BalancesKept, Till!Expected
  <2>5. OpenToday'
    BY <2>1 DEF Till!TypeOK, OpenToday, Till!OpenDays
  <2>6. QED
    BY <2>3, <2>4, <2>5
<1>4. ASSUME NEW r \in Requests, Till!OpenCashRegister(r)
      PROVE  TillInv'
  <2>1. /\ job[r].op = "open" /\ job[r].day \in Till!Days /\ Till!Holders = {}
        /\ register[job[r].day] = NoRegister
        /\ register' = [register EXCEPT ![job[r].day] = Till!NewRegister]
        /\ Till!End(r) /\ UNCHANGED <<today, midnight>>
    BY <1>4, JobFacts DEF Till!OpenCashRegister
  <2>2. Till!NewRegister \in Till!Registers /\ Till!NewRegister # NoRegister
    <3>1. Opening \in Nat /\ Opening \in Int /\ 0 \in Nat
      BY DEF Till!CashRegisterConstants
    <3>2. Till!NewRegister \in Till!Registers
      BY <3>1 DEF Till!NewRegister, Till!Registers
    <3>3. QED
      BY <3>2 DEF Till!CashRegisterConstants
  <2>3. /\ job' \in [Requests -> Till!Jobs] /\ job'[r] = Till!Idle /\ Till!Idle.op = "none"
        /\ \A q \in Requests : q # r => job'[q] = job[q]
    BY <2>1, Ending
  <2>4. Till!TypeOK'
    BY <2>1, <2>2, <2>3 DEF Till!TypeOK
  <2>5. LockSound'
    BY <2>1, <2>2, <2>3, JobFacts DEF Till!TypeOK, LockSound, Till!Holders
  <2>6. Till!BalancesKept'
    BY <2>1, <2>2
       DEF Till!TypeOK, Till!BalancesKept, Till!Expected, Till!NewRegister,
           Till!CashRegisterConstants
  <2>7. Till!OpenDays' \subseteq Till!OpenDays \cup {job[r].day}
    BY <2>1 DEF Till!TypeOK, Till!OpenDays
  <2>8. ASSUME ~midnight'
        PROVE  /\ job[r].day = today /\ Till!OpenDays' \subseteq {today}
               /\ \A q \in Requests : job'[q].op = "open" => job'[q].day = today'
    BY <2>1, <2>3, <2>7, <2>8 DEF OpenToday
  <2>9. OpenToday'
    BY <2>1, <2>8 DEF OpenToday
  <2>10. QED
    BY <2>4, <2>5, <2>6, <2>9
<1>5. ASSUME NEW r \in Requests, NEW change \in Till!Changes, Till!BeginChange(r, change)
      PROVE  TillInv'
  <2>1. /\ job' = [job EXCEPT ![r] =
             [op |-> "wait", change |-> change, seen |-> Till!OpenDays]]
        /\ UNCHANGED <<today, register, midnight>>
    BY <1>5 DEF Till!BeginChange
  <2>2. [op |-> "wait", change |-> change, seen |-> Till!OpenDays] \in Till!Jobs
    BY DEF Till!Jobs, Till!OpenDays
  <2>3. QED
    BY <2>1, <2>2
       DEF Till!TypeOK, LockSound, Till!Holders, Till!BalancesKept, Till!Expected,
           OpenToday, Till!OpenDays
<1>6. ASSUME NEW r \in Requests, Till!Lock(r)
      PROVE  TillInv'
  <2>1. PICK d \in job[r].seen :
          /\ Till!StillOpen(d)
          /\ job' = [job EXCEPT ![r] = [op |-> "hold", change |-> job[r].change, day |-> d,
               in |-> register[d].in, out |-> register[d].out]]
    BY <1>6 DEF Till!Lock
  <2>2. job[r].op = "wait" /\ Till!Holders = {} /\ UNCHANGED <<today, register, midnight>>
    BY <1>6 DEF Till!Lock, Till!Unlocked
  <2>3. d \in Till!Days /\ register[d] # NoRegister /\ register[d].status = "OPEN"
    BY <2>1 DEF Till!StillOpen, Till!OpenDays
  <2>4. register[d] \in Till!Registers
    BY <2>3 DEF Till!TypeOK
  <2>5. register[d].in \in Nat /\ register[d].out \in Nat /\ job[r].change \in Till!Changes
    BY <2>2, <2>4, JobFacts DEF Till!Registers
  <2>6. [op |-> "hold", change |-> job[r].change, day |-> d,
         in |-> register[d].in, out |-> register[d].out] \in Till!Jobs
    BY <2>3, <2>5 DEF Till!Jobs
  <2>7. Till!TypeOK' /\ Till!BalancesKept'
    BY <2>1, <2>2, <2>6 DEF Till!TypeOK, Till!BalancesKept, Till!Expected
  <2>8. LockSound' /\ OpenToday'
    BY <2>1, <2>2, <2>3 DEF Till!TypeOK, LockSound, Till!Holders, OpenToday, Till!OpenDays
  <2>9. QED
    BY <2>7, <2>8
<1>7. ASSUME NEW r \in Requests, Till!FindNone(r)
      PROVE  TillInv'
  <2>1. UNCHANGED <<today, register, midnight>> /\ Till!End(r)
    BY <1>7 DEF Till!FindNone
  <2>2. QED
    BY <2>1, Ending
       DEF Till!TypeOK, LockSound, Till!Holders, Till!BalancesKept, Till!Expected,
           OpenToday, Till!OpenDays
\* The row that a holder has locked.
<1>8. ASSUME NEW r \in Requests, job[r].op = "hold"
      PROVE  /\ job[r].day \in Till!Days /\ job[r].in \in Nat /\ job[r].out \in Nat
             /\ register[job[r].day] \in Till!Registers
             /\ register[job[r].day].in = job[r].in /\ register[job[r].day].out = job[r].out
             /\ register[job[r].day].movedIn = job[r].in
             /\ register[job[r].day].movedOut = job[r].out
             /\ register[job[r].day].expected
                  = Till!Expected(register[job[r].day], job[r].in, job[r].out)
  BY <1>8, JobFacts DEF Till!TypeOK, LockSound, Till!BalancesKept
<1>9. ASSUME NEW r \in Requests, Till!RecordMovement(r)
      PROVE  TillInv'
  <2> DEFINE old == register[job[r].day]
             in == job[r].in + (IF job[r].change = "IN" THEN 1 ELSE 0)
             out == job[r].out + (IF job[r].change = "OUT" THEN 1 ELSE 0)
             row == [old EXCEPT !.in = in, !.out = out, !.expected = Till!Expected(old, in, out),
               !.movedIn = @ + in - job[r].in, !.movedOut = @ + out - job[r].out]
  <2>1. job[r].op = "hold" /\ Till!Commit(r, row)
    BY <1>9 DEF Till!RecordMovement
  <2>2. in \in Nat /\ out \in Nat
    BY <1>8, <2>1
  <2>3. /\ old \in Till!Registers /\ old.movedIn = job[r].in /\ old.movedOut = job[r].out
        /\ job[r].in \in Nat /\ job[r].out \in Nat
    BY <1>8, <2>1
  <2>4. /\ old.movedIn + in - job[r].in = in /\ old.movedOut + out - job[r].out = out
        /\ old.opening + in - out \in Int
    BY <2>2, <2>3 DEF Till!Registers
  <2> HIDE DEF in, out, old
  <2>5. /\ row \in Till!Registers /\ row.opening = old.opening
        /\ row.in = in /\ row.out = out /\ row.movedIn = in /\ row.movedOut = out
        /\ row.expected = old.opening + in - out
    BY <2>2, <2>3, <2>4 DEF Till!Registers, Till!Expected
  <2>6. row.expected = Till!Expected(row, row.in, row.out)
    BY <2>5 DEF Till!Expected
  <2> HIDE DEF row
  <2> QED
    BY <2>1, <2>5, <2>6, HolderWrites
<1>10. ASSUME NEW r \in Requests, Till!RecordCashTransactionTx(r)
       PROVE  TillInv'
  <2> DEFINE old == register[job[r].day]
             key == job[r].change
             in == IF key \in CashIn THEN 1 ELSE 0
             row == IF Till!Recorded(old, key) THEN old
               ELSE [old EXCEPT !.in = @ + in, !.out = @ + 1 - in, !.expected = @ + 2 * in - 1,
                  !.movedIn = @ + in, !.movedOut = @ + 1 - in, !.keys = @ \cup {key}]
  <2>1. job[r].op = "hold" /\ key \in CashEntries /\ Till!Commit(r, row)
    BY <1>10 DEF Till!RecordCashTransactionTx
  <2>2. /\ old \in Till!Registers /\ old.in = old.movedIn /\ old.out = old.movedOut
        /\ old.expected = Till!Expected(old, old.in, old.out)
    BY <1>8, <2>1
  <2>3. in \in {0, 1}
    OBVIOUS
  <2> HIDE DEF in, old, key
  <2>4. CASE Till!Recorded(old, key)
    BY <2>1, <2>2, <2>4, HolderWrites
  <2>5. CASE ~Till!Recorded(old, key)
    <3>1. /\ old.in + in \in Nat /\ old.out + 1 - in \in Nat
          /\ old.expected + 2 * in - 1 = Till!Expected(old, old.in + in, old.out + 1 - in)
          /\ old.expected + 2 * in - 1 \in Int
          /\ old.keys \cup {key} \in SUBSET CashEntries
      BY <2>1, <2>2, <2>3 DEF Till!Registers, Till!Expected
    <3>2. /\ row \in Till!Registers /\ row.opening = old.opening
          /\ row.in = old.in + in /\ row.movedIn = old.in + in
          /\ row.out = old.out + 1 - in /\ row.movedOut = old.out + 1 - in
          /\ row.expected = old.expected + 2 * in - 1
      BY <2>2, <2>5, <3>1 DEF Till!Registers
    <3>3. row.expected = Till!Expected(row, row.in, row.out)
      BY <3>1, <3>2 DEF Till!Expected
    <3> HIDE DEF row
    <3> QED
      BY <2>1, <3>2, <3>3, HolderWrites
  <2> QED
    BY <2>4, <2>5
<1>11. ASSUME NEW r \in Requests, Till!CloseCashRegister(r)
       PROVE  TillInv'
  <2> DEFINE old == register[job[r].day]
             row == [old EXCEPT !.status = "CLOSED",
                       !.expected = Till!Expected(old, job[r].in, job[r].out)]
  <2>1. job[r].op = "hold" /\ Till!Commit(r, row)
    BY <1>11 DEF Till!CloseCashRegister
  <2>2. /\ old \in Till!Registers /\ old.in = old.movedIn /\ old.out = old.movedOut
        /\ old.in = job[r].in /\ old.out = job[r].out
    BY <1>8, <2>1
  <2> HIDE DEF old
  <2>3. old.opening + old.in - old.out \in Int
    BY <2>2 DEF Till!Registers
  <2>4. /\ row \in Till!Registers /\ row.opening = old.opening
        /\ row.in = old.in /\ row.out = old.out
        /\ row.movedIn = old.in /\ row.movedOut = old.out
        /\ row.expected = old.opening + old.in - old.out
    BY <2>2, <2>3 DEF Till!Registers, Till!Expected
  <2>5. row.expected = Till!Expected(row, row.in, row.out)
    BY <2>4 DEF Till!Expected
  <2> HIDE DEF row
  <2> QED
    BY <2>1, <2>4, <2>5, HolderWrites
<1>12. ASSUME NEW r \in Requests, Till!SetTrainingMode(r)
       PROVE  TillInv'
  <2> DEFINE old == register[job[r].day]
             row == [old EXCEPT !.training = ~@]
  <2>1. job[r].op = "hold" /\ Till!Commit(r, row)
    BY <1>12 DEF Till!SetTrainingMode
  <2>2. /\ old \in Till!Registers /\ old.in = old.movedIn /\ old.out = old.movedOut
        /\ old.expected = Till!Expected(old, old.in, old.out)
    BY <1>8, <2>1
  <2> HIDE DEF old
  <2>3. /\ row \in Till!Registers /\ row.in = row.movedIn /\ row.out = row.movedOut
        /\ row.expected = Till!Expected(row, row.in, row.out)
    BY <2>2 DEF Till!Registers, Till!Expected
  <2> QED
    BY <2>1, <2>3, HolderWrites
<1>13. ASSUME NEW r \in Requests, Till!BeginTally(r)
       PROVE  TillInv'
  <2>1. PICK d \in Till!OpenDays : job' = [job EXCEPT ![r] = [op |-> "tally", day |-> d]]
    BY <1>13 DEF Till!BeginTally
  <2>2. /\ UNCHANGED <<today, register, midnight>>
        /\ d \in Till!Days /\ register[d] # NoRegister
    BY <1>13 DEF Till!BeginTally, Till!OpenDays
  <2>3. [op |-> "tally", day |-> d] \in Till!Jobs
    BY <2>2 DEF Till!Jobs
  <2>4. QED
    BY <2>1, <2>2, <2>3
       DEF Till!TypeOK, LockSound, Till!Holders, Till!BalancesKept, Till!Expected,
           OpenToday, Till!OpenDays
<1>14. ASSUME NEW r \in Requests, Till!RecordTally(r)
       PROVE  TillInv'
  <2> DEFINE old == register[job[r].day]
             row == [old EXCEPT !.tallied = TRUE]
  <2>1. /\ job[r].op = "tally" /\ job[r].day \in Till!Days /\ Till!Holders = {}
        /\ register' = [register EXCEPT ![job[r].day] = row]
        /\ Till!End(r) /\ UNCHANGED <<today, midnight>>
    BY <1>14, JobFacts DEF Till!RecordTally, Till!Commit
  <2>2. old \in Till!Registers /\ old # NoRegister
    BY <2>1 DEF Till!TypeOK, LockSound
  <2>3. /\ row \in Till!Registers /\ row # NoRegister /\ row.status = old.status
        /\ row.in = old.in /\ row.out = old.out /\ row.movedIn = old.movedIn
        /\ row.movedOut = old.movedOut /\ row.expected = old.expected
        /\ row.opening = old.opening
    BY <2>2 DEF Till!Registers, Till!CashRegisterConstants
  <2>4. /\ job' \in [Requests -> Till!Jobs] /\ job'[r] = Till!Idle /\ Till!Idle.op = "none"
        /\ \A q \in Requests : q # r => job'[q] = job[q]
    BY <2>1, Ending
  <2> HIDE DEF row
  <2>5. Till!TypeOK'
    BY <2>1, <2>3, <2>4 DEF Till!TypeOK
  <2>6. LockSound'
    BY <2>1, <2>3, <2>4, JobFacts DEF Till!TypeOK, LockSound, Till!Holders
  <2>7. Till!BalancesKept'
    BY <2>1, <2>2, <2>3 DEF Till!TypeOK, Till!BalancesKept, Till!Expected
  <2>8. Till!OpenDays' = Till!OpenDays
    BY <2>1, <2>2, <2>3 DEF Till!TypeOK, Till!OpenDays
  <2>9. OpenToday'
    BY <2>1, <2>4, <2>8 DEF OpenToday
  <2>10. QED
    BY <2>5, <2>6, <2>7, <2>9
<1>15. CASE UNCHANGED Till!vars
  BY <1>15
     DEF Till!vars, Till!TypeOK, LockSound, Till!Holders, Till!BalancesKept,
         Till!Expected, OpenToday, Till!OpenDays
<1>16. QED
  BY <1>1, <1>2, <1>3, <1>4, <1>5, <1>6, <1>7, <1>9, <1>10, <1>11, <1>12, <1>13, <1>14,
     <1>15
     DEF Till!Next

----------------------------------------------------------------------------
(* The register, as a part of the office                                   *)

OfficeVars == <<part, payrollVars, till, reports>>

\* A step of the office is one of the register, or leaves it alone.
LEMMA TillSteps == ASSUME [OfficeNext]_OfficeVars PROVE [Till!Next]_(Till!vars)
BY DEF OfficeNext, OfficeVars, till, Till!vars

\* The cardinality that the register and the ledger speak of.
LEMMA SameCardinality ==
  \A S : Till!Cardinality(S) = Cardinality(S) /\ Report!Cardinality(S) = Cardinality(S)
BY Zenon DEF Cardinality, Till!Cardinality, Report!Cardinality

LEMMA TillSound == OfficeSpec => []TillInv
<1> USE OfficeConstants
<1>1. OfficeInit => TillInv
  <2> SUFFICES ASSUME OfficeInit PROVE TillInv
    OBVIOUS
  <2>0. Till!Init
    BY DEF OfficeInit
  <2>1. 1 \in Till!Days
    BY OfficeConstants DEF Till!Days, Till!CashRegisterConstants
  <2>2. Till!Idle \in Till!Jobs
    BY DEF Till!Jobs
  <2>3. Till!TypeOK
    BY <2>0, <2>1, <2>2 DEF Till!Init, Till!TypeOK
  <2>4. LockSound /\ Till!BalancesKept /\ OpenToday
    BY <2>0
       DEF Till!Init, LockSound, Till!Holders, Till!Idle, Till!BalancesKept, OpenToday,
           Till!OpenDays
  <2>5. QED
    BY <2>3, <2>4 DEF TillInv
<1>2. TillInv /\ [OfficeNext]_OfficeVars => TillInv'
  BY TillSteps, TillStays, OfficeConstants DEF OfficeConstants
<1>3. QED
  BY <1>1, <1>2, PTL DEF OfficeSpec, OfficeVars

\* At most one register is open, unless openings overlapped midnight (OpenCashRegister
\* looks for an open one without a lock), and its balances are what its events say, for any
\* movements by hand and cash from the outbox (RecordMovement, RecordCashTransactionTx).
THEOREM BalancesFollowEvents == OfficeSpec => []CashFollowsEvents
<1>1. TillInv => Till!OneSession
  <2> SUFFICES ASSUME TillInv, ~midnight PROVE Cardinality(Till!OpenDays) <= 1
    BY SameCardinality DEF Till!OneSession
  <2>1. CASE Till!OpenDays = {}
    BY <2>1, FS_EmptySet
  <2>2. ASSUME NEW d \in Till!OpenDays PROVE Cardinality(Till!OpenDays) <= 1
    <3>1. Till!OpenDays = {d}
      BY DEF TillInv, OpenToday
    <3>2. QED
      BY <3>1, FS_Singleton
  <2>3. QED
    BY <2>1, <2>2
<1>2. TillInv => CashFollowsEvents
  BY <1>1 DEF TillInv, CashFollowsEvents, Till!CashFollowsEvents
<1>3. QED
  BY <1>2, TillSound, PTL

\* A closed register stays as it was closed, but for a late tally (CloseCashRegister).
THEOREM ClosedStaysClosed == OfficeSpec => ClosedIsFinal
<1> DEFINE Kept == \A d \in Till!Days :
      register[d] # NoRegister /\ register[d].status = "CLOSED" =>
        [register'[d] EXCEPT !.tallied = FALSE] = [register[d] EXCEPT !.tallied = FALSE]
<1>1. ASSUME Till!CashRegisterConstants, TillInv, [Till!Next]_(Till!vars) PROVE [Kept]_(Till!vars)
  <2> SUFFICES ASSUME Till!Next, NEW d \in Till!Days, register[d] # NoRegister,
                      register[d].status = "CLOSED"
               PROVE  [register'[d] EXCEPT !.tallied = FALSE]
                        = [register[d] EXCEPT !.tallied = FALSE]
    BY <1>1
  <2>1. \A r \in Requests : job[r].op = "hold" => job[r].day # d
    BY <1>1 DEF TillInv, LockSound
  <2>2. \A row : \A r \in Requests :
          job[r].op = "hold" /\ Till!Commit(r, row) => register'[d] = register[d]
    BY <1>1, <2>1, JobFacts DEF TillInv, Till!TypeOK, Till!Commit
  <2>3. ASSUME NEW r \in Requests, Till!RecordTally(r)
        PROVE  [register'[d] EXCEPT !.tallied = FALSE]
                 = [register[d] EXCEPT !.tallied = FALSE]
    <3>1. register[d] \in Till!Registers
      BY <1>1 DEF TillInv, Till!TypeOK
    <3>2. \/ register'[d] = register[d]
          \/ register'[d] = [register[d] EXCEPT !.tallied = TRUE]
      BY <1>1, <2>3 DEF TillInv, Till!TypeOK, Till!RecordTally, Till!Commit
    <3>3. QED
      BY <3>1, <3>2 DEF Till!Registers
  <2>4. ASSUME NEW r \in Requests, Till!OpenCashRegister(r) PROVE register'[d] = register[d]
    BY <1>1, <2>4, JobFacts DEF TillInv, Till!TypeOK, Till!OpenCashRegister
  <2>5. ASSUME NEW r \in Requests,
               Till!RecordMovement(r) \/ Till!RecordCashTransactionTx(r) \/ Till!CloseCashRegister(r)
                 \/ Till!SetTrainingMode(r)
        PROVE  register'[d] = register[d]
    BY <2>2, <2>5
       DEF Till!RecordMovement, Till!RecordCashTransactionTx, Till!CloseCashRegister,
           Till!SetTrainingMode
  <2>6. QED
    BY <2>3, <2>4, <2>5
       DEF Till!Next, Till!NextDay, Till!RollBack, Till!BeginOpening, Till!BeginChange,
           Till!Lock, Till!FindNone, Till!BeginTally
<1>2. TillInv /\ [OfficeNext]_OfficeVars => [Kept]_(Till!vars)
  <2> HIDE DEF Kept
  <2> QED
    BY <1>1, TillSteps, OfficeConstants DEF OfficeConstants
<1>3. QED
  BY <1>2, TillSound, PTL DEF OfficeSpec, OfficeVars, ClosedIsFinal, Till!ClosedIsFinal

----------------------------------------------------------------------------
(* The accounts                                                            *)

\* Where a request can be.
Places ==
  {Idle}
    \cup [step : {"enter"}, s : Statements]
    \cup [step : {"voucher"}, e : Entries]
    \cup [step : {"judge", "insert", "adjust", "adjusted"}, s : Statements, e : Entries,
          amount : Nat \ {0}]
    \cup [step : {"settle", "lift"}, s : Statements, e : Entries, amount : Nat,
          status : Statuses]
    \cup [step : {"close", "record"}]
    \cup [step : {"pay"}, amount : Int]
    \cup [step : {"find", "post"}, line : Sides, amount : Nat \ {0}]

BooksTyped ==
  /\ at \in [Requests -> Places]
  /\ bank \in [Entries -> Nat]
  /\ match \in [Statements -> [Entries -> Nat]]
  /\ status \in [Statements -> Statuses]
  /\ entered \subseteq Statements

\* One transaction at a time has written the match of a pair.
PairLocked ==
  \A q, r \in Requests :
    /\ at[q].step \in {"settle", "lift"} /\ at[r].step \in {"settle", "lift"}
    /\ at[q].s = at[r].s /\ at[q].e = at[r].e
    => q = r

\* What a request at this place has looked up is still so, unless it was overtaken: its
\* match fits what is left of its line and of its entry, the status it has computed is
\* right, and the pair has the match it has seen.
StillSo(p) ==
  /\ p.step \in {"judge", "insert", "settle"} /\ p.s \notin raced =>
       p.amount + MatchedOf(p.s) <= StatementAmount
  /\ p.step \in {"insert", "settle"} /\ p.e \notin raced =>
       p.amount + ClaimedOf(p.e) <= bank[p.e]
  /\ p.step = "settle" =>
       /\ match[p.s][p.e] = 0
       /\ p.s \notin raced /\ p.status = "MATCHED" =>
            p.amount + MatchedOf(p.s) >= StatementAmount
  /\ p.step = "lift" =>
       /\ match[p.s][p.e] = p.amount
       /\ p.s \notin raced /\ p.status = "MATCHED" =>
            MatchedOf(p.s) - p.amount >= StatementAmount

BooksInv ==
  BooksTyped /\ PairLocked /\ (\A r \in Requests : StillSo(at[r])) /\ MatchesAgree

\* What is matched of a line and claimed of an entry, as sums over functions.
ClaimsOn(m, e) == [s \in Statements |-> m[s][e]]

LEMMA MatchedSum ==
  \A s : MatchedOf(s) = SumOf(match[s], Entries) /\ MatchedOf(s)' = SumOf(match'[s], Entries)
<1> SUFFICES ASSUME NEW s
             PROVE  /\ MatchedOf(s) = SumOf(match[s], Entries)
                    /\ MatchedOf(s)' = SumOf(match'[s], Entries)
  OBVIOUS
<1>1. MatchedOf(s) = SumOf(match[s], Entries)
  BY DEF MatchedOf, SumOf, MapThenSumSet, MapThenFoldSet
<1>2. MatchedOf(s)' = SumOf(match'[s], Entries)
  BY DEF MatchedOf, SumOf, MapThenSumSet, MapThenFoldSet
<1>3. QED
  BY <1>1, <1>2

LEMMA ClaimedSum ==
  ASSUME AccountingConstants, NEW e
  PROVE  /\ ClaimedOf(e) = SumOf(ClaimsOn(match, e), Statements)
         /\ ClaimedOf(e)' = SumOf(ClaimsOn(match', e), Statements)
<1> DEFINE Claims(m) == MapThenSumSet(LAMBDA s : m[s][e], Statements)
           Step(g, m, S) == IF S = {} THEN 0
             ELSE m[CHOOSE s \in S : TRUE][e] + g[S \ {CHOOSE s \in S : TRUE}]
<1>1. ASSUME NEW m
      PROVE  Claims(m) = SumOf(ClaimsOn(m, e), Statements)
  <2>1. PICK g : Adds(g, ClaimsOn(m, e), Statements)
    BY AddsExists DEF AccountingConstants
  <2>2. g = [S \in SUBSET Statements |-> Step(g, m, S)]
    BY <2>1, OneLess DEF Adds, ClaimsOn, Chosen
  <2>3. PICK h : h = [S \in SUBSET Statements |-> Step(h, m, S)] /\ Claims(m) = h[Statements]
    BY <2>2 DEF MapThenSumSet, MapThenFoldSet
  <2>4. Adds(h, ClaimsOn(m, e), Statements)
    BY <2>3, OneLess DEF Adds, ClaimsOn, Chosen
  <2>5. QED
    BY <2>3, <2>4, SumIs DEF AccountingConstants
<1>2. ClaimedOf(e) = Claims(match) /\ ClaimedOf(e)' = Claims(match')
  <2>1. ClaimedOf(e) = Claims(match)
    BY DEF ClaimedOf, MapThenSumSet, MapThenFoldSet
  <2>2. ClaimedOf(e)' = Claims(match')
    BY DEF ClaimedOf, MapThenSumSet, MapThenFoldSet
  <2>3. QED
    BY <2>1, <2>2
<1> HIDE DEF Claims
<1>3. QED
  BY <1>1, <1>2

LEMMA SumsTyped ==
  ASSUME AccountingConstants, BooksTyped
  PROVE  /\ \A s \in Statements : MatchedOf(s) \in Nat
         /\ \A e \in Entries : ClaimedOf(e) \in Nat
         /\ \A s \in Statements, e \in Entries : match[s][e] <= MatchedOf(s)
<1>1. \A s \in Statements : /\ SumOf(match[s], Entries) \in Nat
                            /\ \A e \in Entries : match[s][e] <= SumOf(match[s], Entries)
  BY SumNat DEF AccountingConstants, BooksTyped
<1>2. ASSUME NEW e \in Entries PROVE SumOf(ClaimsOn(match, e), Statements) \in Nat
  <2>1. \A s \in Statements : ClaimsOn(match, e)[s] \in Nat
    BY DEF ClaimsOn, BooksTyped
  <2>2. QED
    BY <2>1, SumNat DEF AccountingConstants
<1>3. QED
  BY <1>1, <1>2, MatchedSum, ClaimedSum

LEMMA SumsKept ==
  ASSUME AccountingConstants, match' = match
  PROVE  /\ \A s : MatchedOf(s)' = MatchedOf(s)
         /\ \A e : ClaimedOf(e)' = ClaimedOf(e)
BY MatchedSum, ClaimedSum

\* A change of one match changes the sums of its line and its entry by as much.
LEMMA MatchChanges ==
  ASSUME AccountingConstants, BooksTyped, NEW s \in Statements, NEW e \in Entries,
         NEW amount \in Nat, match' = [match EXCEPT ![s][e] = amount]
  PROVE  /\ match' \in [Statements -> [Entries -> Nat]]
         /\ MatchedOf(s)' = MatchedOf(s) + amount - match[s][e]
         /\ ClaimedOf(e)' = ClaimedOf(e) + amount - match[s][e]
         /\ \A t \in Statements : t # s => MatchedOf(t)' = MatchedOf(t)
         /\ \A d \in Entries : d # e => ClaimedOf(d)' = ClaimedOf(d)
<1> USE DEF AccountingConstants
<1>1. /\ match' \in [Statements -> [Entries -> Nat]] /\ match'[s][e] = amount
      /\ \A t \in Statements : t # s => match'[t] = match[t]
      /\ \A d \in Entries : d # e => match'[s][d] = match[s][d]
  BY DEF BooksTyped
<1>2. SumOf(match'[s], Entries) = SumOf(match[s], Entries) + amount - match[s][e]
  <2> DEFINE old == match[s]
             new == match'[s]
  <2>1. \A d \in Entries : old[d] \in Int /\ new[d] \in Int
    BY <1>1 DEF BooksTyped
  <2>2. (\A d \in Entries \ {e} : old[d] = new[d]) /\ new[e] = amount
    BY <1>1
  <2> HIDE DEF old, new
  <2>3. SumOf(new, Entries) = SumOf(old, Entries) + new[e] - old[e]
    BY <2>1, <2>2, SumChange
  <2>4. QED
    BY <2>2, <2>3 DEF old, new
<1>3. SumOf(ClaimsOn(match', e), Statements)
        = SumOf(ClaimsOn(match, e), Statements) + amount - match[s][e]
  <2>1. \A t \in Statements :
          /\ ClaimsOn(match, e)[t] = match[t][e] /\ ClaimsOn(match', e)[t] = match'[t][e]
          /\ match[t][e] \in Int /\ match'[t][e] \in Int
    BY <1>1 DEF BooksTyped, ClaimsOn
  <2> DEFINE old == ClaimsOn(match, e)
             new == ClaimsOn(match', e)
  <2>2. \A t \in Statements : old[t] \in Int /\ new[t] \in Int
    BY <2>1
  <2>3. \A t \in Statements \ {s} : old[t] = new[t]
    BY <1>1, <2>1
  <2> HIDE DEF old, new
  <2>4. SumOf(new, Statements) = SumOf(old, Statements) + new[s] - old[s]
    BY <2>2, <2>3, SumChange
  <2>5. old[s] = match[s][e] /\ new[s] = amount
    BY <1>1, <2>1 DEF old, new
  <2>6. QED
    BY <2>4, <2>5 DEF old, new
<1>4. ASSUME NEW d \in Entries, d # e
      PROVE  SumOf(ClaimsOn(match', d), Statements) = SumOf(ClaimsOn(match, d), Statements)
  <2>1. ClaimsOn(match', d) = ClaimsOn(match, d)
    BY <1>1, <1>4 DEF ClaimsOn
  <2>2. QED
    BY <2>1
<1>5. QED
  BY <1>1, <1>2, <1>3, <1>4, MatchedSum, ClaimedSum

LEMMA StatusFacts ==
  ASSUME NEW s, NEW total \in Int, AccountingConstants
  PROVE  /\ StatusFor(s, total) \in Statuses
         /\ StatusFor(s, total) = "MATCHED" => total >= StatementAmount
BY DEF StatusFor, Statuses, AccountingConstants

\* A step that changes no match keeps the invariant if whoever moves has looked up what is
\* so, no balance of an entry shrinks, and no status becomes MATCHED.
LEMMA Looking ==
  ASSUME AccountingConstants, BooksInv, BooksTyped', match' = match, raced' = raced,
         \A e \in Entries : bank'[e] >= bank[e],
         \A s \in entered' : status'[s] = "MATCHED" => s \in entered /\ status[s] = "MATCHED",
         \A r \in Requests : at'[r] = at[r] \/
           /\ StillSo(at'[r])
           /\ \A q \in Requests \ {r} : at'[q] = at[q]
           /\ at'[r].step \in {"settle", "lift"} => ~Locked(r, at'[r].s, at'[r].e)
  PROVE  BooksInv'
<1>1. \A s \in Statements : MatchedOf(s)' = MatchedOf(s)
  BY SumsKept
<1>2. \A e \in Entries : ClaimedOf(e)' = ClaimedOf(e) /\ ClaimedOf(e) \in Nat
  BY SumsKept, SumsTyped DEF BooksInv
<1>3. \A e \in Entries : bank[e] \in Nat /\ bank'[e] \in Nat
  BY DEF BooksInv, BooksTyped
<1>4. ASSUME NEW r \in Requests PROVE StillSo(at[r])'
  <2>1. PICK p : p = at'[r]
    OBVIOUS
  <2>2. StillSo(p)
    BY <2>1 DEF BooksInv
  <2>3. p.step \in {"judge", "insert", "settle", "lift"} =>
          p.s \in Statements /\ p.e \in Entries /\ p.amount \in Nat
    BY <2>1 DEF BooksTyped, Places, Idle
  <2>4. StillSo(p)'
    BY <1>1, <1>2, <1>3, <2>2, <2>3 DEF StillSo
  <2>5. QED
    BY <2>1, <2>4 DEF StillSo
<1>5. PairLocked'
  BY DEF BooksInv, PairLocked, Locked
<1>6. MatchesAgree'
  BY <1>1, <1>2, <1>3
     DEF BooksInv, BooksTyped, MatchesAgree, MatchesWithin, MatchedIsWhole
<1>7. QED
  BY <1>4, <1>5, <1>6 DEF BooksInv

\* What a request that is somewhere has with it.
LEMMA PlaceFacts ==
  ASSUME BooksTyped, NEW r \in Requests
  PROVE  /\ at[r].step \in {"enter", "judge", "insert", "adjust", "adjusted", "settle", "lift"}
              => at[r].s \in Statements
         /\ at[r].step \in {"voucher", "judge", "insert", "adjust", "adjusted", "settle", "lift"}
              => at[r].e \in Entries
         /\ at[r].step \in {"judge", "insert", "adjust", "adjusted", "find", "post"}
              => at[r].amount \in Nat \ {0}
         /\ at[r].step \in {"settle", "lift"} =>
              at[r].amount \in Nat /\ at[r].status \in Statuses
         /\ at[r].step \in {"find", "post"} => at[r].line \in Sides
         /\ at[r].step = "pay" => at[r].amount \in Int
         /\ Idle.step = "idle" /\ Idle \in Places
BY DEF BooksTyped, Places, Idle

LEMMA CommitsMatch ==
  ASSUME AccountingConstants, BooksInv, NEW r \in Requests, CommitMatch(r)
  PROVE  BooksInv'
<1>0. PICK s, e, a : s = at[r].s /\ e = at[r].e /\ a = at[r].amount
  OBVIOUS
<1>1. /\ s \in Statements /\ e \in Entries /\ a \in Nat
      /\ at[r].status \in Statuses /\ Idle.step = "idle" /\ Idle \in Places
      /\ match' = [match EXCEPT ![s][e] = a]
      /\ status' = [status EXCEPT ![s] = at[r].status]
      /\ at' = [at EXCEPT ![r] = Idle] /\ UNCHANGED <<entered, bank>>
  BY <1>0, PlaceFacts DEF CommitMatch, BooksInv, End, Goto
<1>2. /\ match[s][e] = 0
      /\ s \notin raced => a + MatchedOf(s) <= StatementAmount
      /\ e \notin raced => a + ClaimedOf(e) <= bank[e]
      /\ s \notin raced /\ at[r].status = "MATCHED" => a + MatchedOf(s) >= StatementAmount
  BY <1>0 DEF CommitMatch, BooksInv, StillSo
<1>3. /\ raced \subseteq raced'
      /\ s \notin raced' => \A q \in Requests \ {r} :
           at[q].step \in {"judge", "insert", "settle", "lift"} => at[q].s # s
      /\ e \notin raced' => \A q \in Requests \ {r} :
           at[q].step \in {"insert", "settle"} => at[q].e # e
  BY <1>0 DEF CommitMatch, Overtaken
<1>4. BooksTyped
  BY DEF BooksInv
<1>5. /\ match' \in [Statements -> [Entries -> Nat]]
      /\ MatchedOf(s)' = MatchedOf(s) + a /\ MatchedOf(s) \in Nat
      /\ ClaimedOf(e)' = ClaimedOf(e) + a /\ ClaimedOf(e) \in Nat
      /\ \A t \in Statements : t # s => MatchedOf(t)' = MatchedOf(t)
      /\ \A d \in Entries : d # e => ClaimedOf(d)' = ClaimedOf(d)
  <2>1. MatchedOf(s) \in Nat /\ ClaimedOf(e) \in Nat
    BY <1>1, <1>4, SumsTyped
  <2>2. match' = [match EXCEPT ![s][e] = a] /\ s \in Statements /\ e \in Entries /\ a \in Nat
    BY <1>1
  <2>3. /\ match' \in [Statements -> [Entries -> Nat]]
        /\ MatchedOf(s)' = MatchedOf(s) + a - match[s][e]
        /\ ClaimedOf(e)' = ClaimedOf(e) + a - match[s][e]
        /\ \A t \in Statements : t # s => MatchedOf(t)' = MatchedOf(t)
        /\ \A d \in Entries : d # e => ClaimedOf(d)' = ClaimedOf(d)
    BY <1>4, <2>2, MatchChanges
  <2>4. match[s][e] = 0
    BY <1>2
  <2>5. QED
    BY <1>1, <2>1, <2>3, <2>4
<1>6. BooksTyped'
  BY <1>1, <1>4, <1>5 DEF BooksTyped
<1>7. \A q \in Requests \ {r} :
        /\ at'[q] = at[q]
        /\ at[q].step \in {"settle", "lift"} => at[q].s # s \/ at[q].e # e
  BY <1>0, <1>1, <1>4 DEF BooksTyped, BooksInv, PairLocked, CommitMatch
<1>8. at'[r] = Idle
  BY <1>1, <1>4 DEF BooksTyped
<1>9. ASSUME NEW q \in Requests, q # r PROVE StillSo(at[q])'
  <2>1. PICK p : p = at[q] /\ p = at'[q]
    BY <1>7, <1>9
  <2>2. /\ p.step \in {"judge", "insert", "settle", "lift"} =>
             p.s \in Statements /\ p.e \in Entries /\ p.amount \in Nat
        /\ StillSo(p)
    BY <1>4, <1>9, <2>1, PlaceFacts DEF BooksInv
  <2>3. /\ p.step \in {"judge", "insert", "settle", "lift"} /\ p.s \notin raced' =>
             p.s \notin raced /\ MatchedOf(p.s)' = MatchedOf(p.s)
        /\ p.step \in {"insert", "settle"} /\ p.e \notin raced' =>
             p.e \notin raced /\ ClaimedOf(p.e)' = ClaimedOf(p.e)
    BY <1>3, <1>5, <1>9, <2>1, <2>2
  <2>4. p.step \in {"settle", "lift"} => match'[p.s][p.e] = match[p.s][p.e]
    BY <1>1, <1>4, <1>7, <1>9, <2>1, <2>2 DEF BooksTyped
  <2>5. StillSo(p)'
    BY <1>1, <2>2, <2>3, <2>4 DEF StillSo
  <2>6. QED
    BY <2>1, <2>5 DEF StillSo
<1>10. StillSo(at[r])'
  BY <1>1, <1>8 DEF StillSo
<1>11. PairLocked'
  BY <1>1, <1>7, <1>8 DEF BooksInv, PairLocked
<1>12. MatchesAgree'
  <2>1. ASSUME NEW t \in Statements, t \notin raced'
        PROVE  /\ MatchedOf(t)' <= StatementAmount
               /\ t \in entered /\ status'[t] = "MATCHED" => MatchedOf(t)' >= StatementAmount
    <3>1. CASE t = s
      <4>1. s \notin raced /\ status'[s] = at[r].status
        BY <1>1, <1>3, <1>4, <2>1, <3>1 DEF BooksTyped
      <4>2. a + MatchedOf(s) <= StatementAmount
        BY <1>2, <4>1
      <4>3. at[r].status = "MATCHED" => a + MatchedOf(s) >= StatementAmount
        BY <1>2, <4>1
      <4>4. MatchedOf(t)' = a + MatchedOf(s)
        BY <1>1, <1>5, <3>1
      <4>5. QED
        BY <3>1, <4>1, <4>2, <4>3, <4>4
    <3>2. CASE t # s
      <4>1. t \notin raced /\ MatchedOf(t)' = MatchedOf(t) /\ status'[t] = status[t]
        BY <1>1, <1>3, <1>4, <1>5, <2>1, <3>2 DEF BooksTyped
      <4>2. QED
        BY <2>1, <4>1 DEF BooksInv, MatchesAgree, MatchesWithin, MatchedIsWhole
    <3>3. QED
      BY <3>1, <3>2
  <2>2. ASSUME NEW d \in Entries, d \notin raced'
        PROVE  ClaimedOf(d)' <= bank'[d]
    <3>1. d \notin raced /\ bank'[d] = bank[d]
      BY <1>1, <1>3, <2>2
    <3>2. CASE d = e
      BY <1>1, <1>2, <1>5, <3>1, <3>2
    <3>3. CASE d # e
      BY <1>5, <2>2, <3>1, <3>3 DEF BooksInv, MatchesAgree, MatchesWithin
    <3>4. QED
      BY <3>2, <3>3
  <2>3. QED
    BY <1>1, <1>4, <2>1, <2>2 DEF BooksTyped, MatchesAgree, MatchesWithin, MatchedIsWhole
<1>13. QED
  BY <1>6, <1>9, <1>10, <1>11, <1>12 DEF BooksInv

LEMMA CommitsUnmatch ==
  ASSUME AccountingConstants, BooksInv, NEW r \in Requests, CommitUnmatch(r)
  PROVE  BooksInv'
<1>0. PICK s, e, a : s = at[r].s /\ e = at[r].e /\ a = at[r].amount
  OBVIOUS
<1>1. BooksTyped
  BY DEF BooksInv
<1>2. /\ s \in Statements /\ e \in Entries /\ a \in Nat /\ match[s][e] = a
      /\ at[r].status \in Statuses /\ Idle.step = "idle" /\ Idle \in Places
      /\ status' = [status EXCEPT ![s] = at[r].status]
      /\ at' = [at EXCEPT ![r] = Idle] /\ UNCHANGED <<entered, bank>>
      /\ s \notin raced /\ at[r].status = "MATCHED" => MatchedOf(s) - a >= StatementAmount
  BY <1>0, PlaceFacts DEF CommitUnmatch, BooksInv, End, Goto, StillSo
<1>3. match' = [match EXCEPT ![s][e] = 0]
  <2>1. match' = IF a > 0 THEN [match EXCEPT ![s][e] = 0] ELSE match
    BY <1>0 DEF CommitUnmatch
  <2>2. CASE a > 0
    BY <2>1, <2>2
  <2>3. CASE a = 0
    <3>1. match = [match EXCEPT ![s] = [match[s] EXCEPT ![e] = 0]]
      BY <1>1, <1>2, <2>3 DEF BooksTyped
    <3>2. QED
      BY <2>1, <2>3, <3>1
  <2>4. QED
    BY <1>2, <2>2, <2>3
<1>4. /\ raced \subseteq raced'
      /\ s \notin raced' => \A q \in Requests \ {r} :
           at[q].step \in {"settle", "lift"} => at[q].s # s
  BY <1>0 DEF CommitUnmatch, Overtaken
<1>5. /\ match' \in [Statements -> [Entries -> Nat]]
      /\ MatchedOf(s)' = MatchedOf(s) - a /\ MatchedOf(s) \in Nat
      /\ ClaimedOf(e)' = ClaimedOf(e) - a /\ ClaimedOf(e) \in Nat
      /\ \A t \in Statements : t # s => MatchedOf(t)' = MatchedOf(t)
      /\ \A d \in Entries : d # e => ClaimedOf(d)' = ClaimedOf(d)
  <2>1. MatchedOf(s) \in Nat /\ ClaimedOf(e) \in Nat
    BY <1>1, <1>2, SumsTyped
  <2>2. match' = [match EXCEPT ![s][e] = 0] /\ s \in Statements /\ e \in Entries /\ 0 \in Nat
    BY <1>2, <1>3
  <2>3. /\ match' \in [Statements -> [Entries -> Nat]]
        /\ MatchedOf(s)' = MatchedOf(s) + 0 - match[s][e]
        /\ ClaimedOf(e)' = ClaimedOf(e) + 0 - match[s][e]
        /\ \A t \in Statements : t # s => MatchedOf(t)' = MatchedOf(t)
        /\ \A d \in Entries : d # e => ClaimedOf(d)' = ClaimedOf(d)
    BY <1>1, <2>2, MatchChanges
  <2>4. match[s][e] = a
    BY <1>2
  <2>5. QED
    BY <1>2, <2>1, <2>3, <2>4
<1>6. BooksTyped'
  BY <1>1, <1>2, <1>5 DEF BooksTyped
<1>7. \A q \in Requests \ {r} :
        /\ at'[q] = at[q]
        /\ at[q].step \in {"settle", "lift"} => at[q].s # s \/ at[q].e # e
  BY <1>0, <1>1, <1>2 DEF BooksTyped, BooksInv, PairLocked, CommitUnmatch
<1>8. at'[r] = Idle
  BY <1>1, <1>2 DEF BooksTyped
<1>9. ASSUME NEW q \in Requests, q # r PROVE StillSo(at[q])'
  <2>1. PICK p : p = at[q] /\ p = at'[q]
    BY <1>7, <1>9
  <2>2. /\ p.step \in {"judge", "insert", "settle", "lift"} =>
             p.s \in Statements /\ p.e \in Entries /\ p.amount \in Nat
        /\ StillSo(p)
    BY <1>1, <1>9, <2>1, PlaceFacts DEF BooksInv
  <2>3. /\ p.step \in {"judge", "insert", "settle", "lift"} =>
             MatchedOf(p.s)' <= MatchedOf(p.s) /\ MatchedOf(p.s) \in Nat /\ MatchedOf(p.s)' \in Int
        /\ p.step \in {"insert", "settle"} =>
             ClaimedOf(p.e)' <= ClaimedOf(p.e) /\ ClaimedOf(p.e) \in Nat /\ ClaimedOf(p.e)' \in Int
    <3>1. \A t \in Statements : MatchedOf(t)' <= MatchedOf(t) /\ MatchedOf(t) \in Nat
                                /\ MatchedOf(t)' \in Int
      BY <1>1, <1>2, <1>5, SumsTyped
    <3>2. \A d \in Entries : ClaimedOf(d)' <= ClaimedOf(d) /\ ClaimedOf(d) \in Nat
                             /\ ClaimedOf(d)' \in Int
      BY <1>1, <1>2, <1>5, SumsTyped
    <3>3. QED
      BY <2>2, <3>1, <3>2
  <2>4. p.step \in {"settle", "lift"} =>
          /\ match'[p.s][p.e] = match[p.s][p.e]
          /\ p.s \notin raced' => MatchedOf(p.s)' = MatchedOf(p.s)
    BY <1>1, <1>3, <1>4, <1>5, <1>7, <1>9, <2>1, <2>2, <1>2 DEF BooksTyped
  <2>5. p.step \in {"insert", "settle"} => bank[p.e] \in Nat
    BY <1>1, <2>2 DEF BooksTyped
  <2>6. StillSo(p)'
    BY <1>2, <1>4, <2>2, <2>3, <2>4, <2>5, AccountingConstants
       DEF StillSo, AccountingConstants
  <2>7. QED
    BY <2>1, <2>6 DEF StillSo
<1>10. StillSo(at[r])'
  BY <1>2, <1>8 DEF StillSo
<1>11. PairLocked'
  BY <1>2, <1>7, <1>8 DEF BooksInv, PairLocked
<1>12. MatchesAgree'
  <2>1. ASSUME NEW t \in Statements, t \notin raced'
        PROVE  /\ MatchedOf(t)' <= StatementAmount
               /\ t \in entered /\ status'[t] = "MATCHED" => MatchedOf(t)' >= StatementAmount
    <3>1. t \notin raced /\ MatchedOf(t) <= StatementAmount /\ MatchedOf(t) \in Nat
      BY <1>1, <1>4, <2>1, SumsTyped DEF BooksInv, MatchesAgree, MatchesWithin
    <3>2. CASE t = s
      <4>1. status'[t] = at[r].status /\ MatchedOf(t)' = MatchedOf(s) - a
        BY <1>1, <1>2, <1>5, <3>2 DEF BooksTyped
      <4>2. at[r].status = "MATCHED" => MatchedOf(s) - a >= StatementAmount
        BY <1>2, <3>1, <3>2
      <4>3. QED
        BY <1>2, <3>1, <3>2, <4>1, <4>2, AccountingConstants DEF AccountingConstants
    <3>3. CASE t # s
      <4>1. MatchedOf(t)' = MatchedOf(t) /\ status'[t] = status[t]
        BY <1>1, <1>2, <1>5, <2>1, <3>3 DEF BooksTyped
      <4>2. QED
        BY <2>1, <3>1, <4>1 DEF BooksInv, MatchesAgree, MatchesWithin, MatchedIsWhole
    <3>4. QED
      BY <3>2, <3>3
  <2>2. ASSUME NEW d \in Entries, d \notin raced'
        PROVE  ClaimedOf(d)' <= bank'[d]
    <3>1. d \notin raced /\ bank'[d] = bank[d] /\ ClaimedOf(d) <= bank[d] /\ bank[d] \in Nat
      BY <1>1, <1>2, <1>4, <2>2 DEF BooksTyped, BooksInv, MatchesAgree, MatchesWithin
    <3>2. CASE d = e
      BY <1>2, <1>5, <3>1, <3>2
    <3>3. CASE d # e
      BY <1>5, <2>2, <3>1, <3>3
    <3>4. QED
      BY <3>2, <3>3
  <2>3. QED
    BY <1>1, <1>2, <2>1, <2>2 DEF BooksTyped, MatchesAgree, MatchesWithin, MatchedIsWhole
<1>13. QED
  BY <1>6, <1>9, <1>10, <1>11, <1>12 DEF BooksInv

\* Such a step of one request.
LEMMA Goes ==
  ASSUME AccountingConstants, BooksInv, NEW r \in Requests, NEW where \in Places,
         Goto(r, where), StillSo(where),
         where.step \in {"settle", "lift"} => ~Locked(r, where.s, where.e),
         match' = match, raced' = raced,
         bank' \in [Entries -> Nat], \A e \in Entries : bank'[e] >= bank[e],
         status' \in [Statements -> Statuses], entered' \subseteq Statements,
         \A s \in entered' : status'[s] = "MATCHED" => s \in entered /\ status[s] = "MATCHED"
  PROVE  BooksInv'
<1>1. /\ at' \in [Requests -> Places] /\ at'[r] = where
      /\ \A q \in Requests \ {r} : at'[q] = at[q]
  BY DEF BooksInv, BooksTyped, Goto
<1>2. BooksTyped'
  BY <1>1 DEF BooksInv, BooksTyped
<1>3. \A q \in Requests : at'[q] = at[q] \/
        /\ StillSo(at'[q])
        /\ \A p \in Requests \ {q} : at'[p] = at[p]
        /\ at'[q].step \in {"settle", "lift"} => ~Locked(q, at'[q].s, at'[q].e)
  BY <1>1
<1>4. QED
  BY <1>2, <1>3, Looking

LEMMA Unchanged ==
  ASSUME BooksInv, UNCHANGED <<lines, books>>
  PROVE  /\ match' = match /\ bank' \in [Entries -> Nat]
         /\ \A e \in Entries : bank'[e] >= bank[e]
         /\ status' \in [Statements -> Statuses] /\ entered' \subseteq Statements
         /\ \A s \in entered' : status'[s] = "MATCHED" => s \in entered /\ status[s] = "MATCHED"
BY DEF lines, books, BooksInv, BooksTyped

\* Most steps only look.
LEMMA Looks ==
  ASSUME AccountingConstants, BooksInv, NEW r \in Requests, NEW where \in Places,
         Goto(r, where), StillSo(where),
         where.step \in {"settle", "lift"} => ~Locked(r, where.s, where.e),
         UNCHANGED <<lines, books, raced>>
  PROVE  BooksInv'
BY Goes, Unchanged

\* A place that no promise is about.
LEMMA NothingLookedUp ==
  ASSUME NEW where, where.step \notin {"judge", "insert", "settle", "lift"}
  PROVE  StillSo(where)
BY DEF StillSo

LEMMA Ends ==
  ASSUME AccountingConstants, BooksInv, NEW r \in Requests, End(r),
         UNCHANGED <<lines, books, raced>>
  PROVE  BooksInv'
<1>1. Idle \in Places /\ Idle.step = "idle"
  BY DEF Places, Idle
<1>2. QED
  BY <1>1, Looks, NothingLookedUp DEF End

LEMMA AccountsStay ==
  ASSUME AccountingConstants, BooksInv, NEW r \in Requests, AccountingStep(r)
  PROVE  BooksInv'
<1> USE DEF AccountingConstants
<1>0. BooksTyped /\ Most \in Nat
  BY DEF BooksInv, Most
<1>1. ASSUME NEW s \in Statements, CheckLine(r, s) PROVE BooksInv'
  <2> DEFINE where == [step |-> "enter", s |-> s]
  <2>1. Goto(r, where) /\ UNCHANGED <<lines, books, raced>>
    BY <1>1 DEF CheckLine
  <2>2. where \in Places /\ where.step = "enter"
    BY DEF Places
  <2> HIDE DEF where
  <2>3. QED
    BY <2>1, <2>2, Looks, NothingLookedUp
<1>2. ASSUME NEW why \in BOOLEAN, CreateStatementEntry(r, why) PROVE BooksInv'
  <2>1. /\ at[r].s \in Statements /\ Idle \in Places /\ Idle.step = "idle"
        /\ Goto(r, Idle) /\ UNCHANGED <<match, bank, raced>>
    BY <1>0, <1>2, PlaceFacts DEF CreateStatementEntry, End, books
  <2>2. /\ status' \in [Statements -> Statuses] /\ entered' \subseteq Statements
        /\ \A s \in entered' : status'[s] = "MATCHED" => s \in entered /\ status[s] = "MATCHED"
    BY <1>0, <1>2, <2>1 DEF CreateStatementEntry, lines, BooksTyped, Statuses
  <2>3. bank' \in [Entries -> Nat] /\ \A e \in Entries : bank'[e] >= bank[e]
    BY <1>0, <2>1 DEF BooksTyped
  <2>4. QED
    BY <2>1, <2>2, <2>3, Goes, NothingLookedUp
<1>3. ASSUME NEW e \in Entries, NEW inside \in BOOLEAN, CheckVoucher(r, e, inside)
      PROVE  BooksInv'
  <2> DEFINE where == [step |-> "voucher", e |-> e]
  <2>1. Goto(r, where) /\ UNCHANGED <<lines, books, raced>>
    BY <1>3 DEF CheckVoucher
  <2>2. where \in Places /\ where.step = "voucher"
    BY DEF Places
  <2> HIDE DEF where
  <2>3. QED
    BY <2>1, <2>2, Looks, NothingLookedUp
\* A voucher's entry, if it is new.
<1>4. ASSUME NEW e \in Entries, NEW amount \in Nat, PostVoucher(e, amount)
      PROVE  bank' \in [Entries -> Nat] /\ \A d \in Entries : bank'[d] >= bank[d]
  BY <1>0, <1>4 DEF PostVoucher, BooksTyped
<1>5. CASE CreateVoucher(r)
  <2>1. /\ at[r].e \in Entries /\ Idle \in Places /\ Idle.step = "idle"
        /\ PostVoucher(at[r].e, EntryAmount) /\ EntryAmount \in Nat
        /\ Goto(r, Idle) /\ UNCHANGED <<lines, match, raced>>
    BY <1>0, <1>5, PlaceFacts DEF CreateVoucher, End
  <2>2. bank' \in [Entries -> Nat] /\ \A d \in Entries : bank'[d] >= bank[d]
    BY <1>4, <2>1
  <2>3. /\ status' \in [Statements -> Statuses] /\ entered' \subseteq Statements
        /\ status' = status /\ entered' = entered
    BY <1>0, <2>1 DEF lines, BooksTyped
  <2>4. QED
    BY <2>1, <2>2, <2>3, Goes, NothingLookedUp
\* An amount that fits what is left of a line.
<1>6. ASSUME NEW s \in Statements, NEW e \in Entries, NEW amount \in Nat \ {0},
             LooksAtLine(r, s, e, amount), UNCHANGED <<lines, books, raced>>
      PROVE  BooksInv'
  <2> DEFINE where == [step |-> "judge", s |-> s, e |-> e, amount |-> amount]
  <2>1. amount + MatchedOf(s) <= StatementAmount
    BY <1>0, <1>6, SumsTyped DEF LooksAtLine, Available
  <2>2. /\ where \in Places /\ where.step = "judge" /\ where.s = s
        /\ where.amount = amount /\ Goto(r, where)
    BY <1>6 DEF Places, LooksAtLine
  <2> HIDE DEF where
  <2>3. StillSo(where)
    BY <2>1, <2>2 DEF StillSo
  <2>4. QED
    BY <1>6, <2>2, <2>3, Looks
<1>7. ASSUME NEW s \in Statements, NEW e \in Entries, NEW amount \in 1..Most,
             MatchStatement(r, s, e, amount)
      PROVE  BooksInv'
  BY <1>0, <1>6, <1>7 DEF MatchStatement
<1>8. ASSUME NEW s \in Statements, NEW e \in Entries, UnmatchStatement(r, s, e)
      PROVE  BooksInv'
  <2>1. /\ match[s][e] \in Nat /\ MatchedOf(s) \in Nat
        /\ MatchedOf(s) - match[s][e] \in Int
    BY <1>0, SumsTyped DEF BooksTyped
  <2> DEFINE total == MatchedOf(s) - match[s][e]
             where == [step |-> "lift", s |-> s, e |-> e, amount |-> match[s][e],
                       status |-> StatusFor(s, total)]
  <2>2. /\ StatusFor(s, total) \in Statuses
        /\ StatusFor(s, total) = "MATCHED" => total >= StatementAmount
    BY <2>1, StatusFacts
  <2>3. /\ where \in Places /\ where.step = "lift" /\ where.s = s /\ where.e = e
        /\ where.amount = match[s][e] /\ where.status = StatusFor(s, total)
        /\ Goto(r, where) /\ ~Locked(r, s, e) /\ UNCHANGED <<lines, books, raced>>
    BY <1>8, <2>1, <2>2 DEF Places, UnmatchStatement
  <2> HIDE DEF where
  <2>4. StillSo(where)
    BY <2>2, <2>3 DEF StillSo
  <2>5. QED
    BY <2>3, <2>4, Looks
<1>9. ASSUME NEW s \in Statements, NEW e \in Entries, NEW inside \in BOOLEAN,
             StartAdjustment(r, s, e, inside)
      PROVE  BooksInv'
  <2> DEFINE where == [step |-> "adjust", s |-> s, e |-> e, amount |-> Available(s)]
  <2>1. Available(s) \in Nat \ {0}
    BY <1>0, <1>9, SumsTyped DEF StartAdjustment, Available
  <2>2. where \in Places /\ where.step = "adjust"
    BY <2>1 DEF Places
  <2>3. Goto(r, where) /\ UNCHANGED <<lines, books, raced>>
    BY <1>9 DEF StartAdjustment
  <2> HIDE DEF where
  <2>4. QED
    BY <2>2, <2>3, Looks, NothingLookedUp
<1>10. CASE LookAtEntry(r)
  <2>1. /\ at[r].step = "judge" /\ UNCHANGED <<lines, books, raced>>
        /\ IF EntryCovers(at[r].e, at[r].amount)
             THEN Goto(r, [at[r] EXCEPT !.step = "insert"]) ELSE End(r)
    BY <1>10 DEF LookAtEntry
  <2>2. CASE EntryCovers(at[r].e, at[r].amount)
    <3> DEFINE where == [at[r] EXCEPT !.step = "insert"]
    <3>1. /\ where \in Places /\ where.step = "insert" /\ where.s = at[r].s
          /\ where.e = at[r].e /\ where.amount = at[r].amount
      <4>1. at[r] \in [step : {"judge", "insert", "adjust", "adjusted"}, s : Statements,
                       e : Entries, amount : Nat \ {0}]
        BY <1>0, <2>1 DEF BooksTyped, Places, Idle
      <4>2. QED
        BY <4>1 DEF Places
    <3>2. /\ at[r].e \in Entries /\ at[r].amount \in Nat /\ at[r].s \in Statements
          /\ ClaimedOf(at[r].e) \in Nat /\ bank[at[r].e] \in Nat
      BY <1>0, <2>1, PlaceFacts, SumsTyped DEF BooksTyped
    <3>3. at[r].amount + ClaimedOf(at[r].e) <= bank[at[r].e]
      BY <2>2, <3>2 DEF EntryCovers
    <3>4. at[r].s \notin raced => at[r].amount + MatchedOf(at[r].s) <= StatementAmount
      BY <2>1 DEF BooksInv, StillSo
    <3> HIDE DEF where
    <3>5. StillSo(where)
      BY <3>1, <3>3, <3>4 DEF StillSo
    <3>6. QED
      BY <2>1, <2>2, <3>1, <3>5, Looks DEF where
  <2>3. QED
    BY <2>1, <2>2, Ends
<1>11. CASE InsertMatch(r)
  <2> DEFINE s == at[r].s
             e == at[r].e
             total == MatchedOf(s) + at[r].amount
             where == [step |-> "settle", s |-> s, e |-> e, amount |-> at[r].amount,
                       status |-> StatusFor(s, total)]
  <2>1. /\ at[r].step = "insert" /\ ~Locked(r, s, e) /\ UNCHANGED <<lines, books, raced>>
        /\ IF match[s][e] > 0 THEN End(r) ELSE Goto(r, where)
    BY <1>11 DEF InsertMatch
  <2>2. /\ s \in Statements /\ e \in Entries /\ at[r].amount \in Nat
        /\ match[s][e] \in Nat /\ MatchedOf(s) \in Nat /\ total \in Int
    BY <1>0, <2>1, PlaceFacts, SumsTyped DEF BooksTyped
  <2>3. /\ StatusFor(s, total) \in Statuses
        /\ StatusFor(s, total) = "MATCHED" => total >= StatementAmount
    BY <2>2, StatusFacts
  <2>4. /\ s \notin raced => at[r].amount + MatchedOf(s) <= StatementAmount
        /\ e \notin raced => at[r].amount + ClaimedOf(e) <= bank[e]
    BY <2>1 DEF BooksInv, StillSo
  <2>5. /\ where \in Places /\ where.step = "settle" /\ where.s = s /\ where.e = e
        /\ where.amount = at[r].amount /\ where.status = StatusFor(s, total)
    BY <2>2, <2>3 DEF Places
  <2> HIDE DEF where, s, e
  <2>6. CASE match[s][e] = 0
    <3>1. StillSo(where)
      BY <2>2, <2>3, <2>4, <2>5, <2>6 DEF StillSo
    <3>2. QED
      BY <2>1, <2>2, <2>5, <2>6, <3>1, Looks
  <2>7. QED
    BY <2>1, <2>2, <2>6, Ends
<1>12. CASE AdjustmentVoucher(r)
  <2> DEFINE where == [at[r] EXCEPT !.step = "adjusted"]
  <2>1. /\ at[r].step = "adjust" /\ Goto(r, where) /\ PostVoucher(at[r].e, at[r].amount)
        /\ UNCHANGED <<lines, match, raced>>
    BY <1>12 DEF AdjustmentVoucher
  <2>2. at[r] \in [step : {"judge", "insert", "adjust", "adjusted"}, s : Statements,
                   e : Entries, amount : Nat \ {0}]
    BY <1>0, <2>1 DEF BooksTyped, Places, Idle
  <2>3. where \in Places /\ where.step = "adjusted" /\ at[r].e \in Entries /\ at[r].amount \in Nat
    BY <2>2 DEF Places
  <2>4. bank' \in [Entries -> Nat] /\ \A d \in Entries : bank'[d] >= bank[d]
    BY <1>4, <2>1, <2>3
  <2>5. /\ status' \in [Statements -> Statuses] /\ entered' \subseteq Statements
        /\ status' = status /\ entered' = entered
    BY <1>0, <2>1 DEF lines, BooksTyped
  <2> HIDE DEF where
  <2>6. QED
    BY <2>1, <2>3, <2>4, <2>5, Goes, NothingLookedUp
<1>13. CASE MatchAdjustment(r)
  <2>1. /\ at[r].s \in Statements /\ at[r].e \in Entries /\ at[r].amount \in Nat \ {0}
        /\ UNCHANGED <<lines, books, raced>>
        /\ LooksAtLine(r, at[r].s, at[r].e, at[r].amount) \/ End(r)
    BY <1>0, <1>13, PlaceFacts DEF MatchAdjustment
  <2>2. QED
    BY <1>6, <2>1, Ends
<1>14. CASE CloseAccountingPeriod(r) \/ Fail(r)
  BY <1>14, Ends DEF CloseAccountingPeriod, Fail
<1>15. QED
  BY <1>1, <1>2, <1>3, <1>5, <1>7, <1>8, <1>9, <1>10, <1>11, <1>12, <1>13, <1>14,
     CommitsMatch, CommitsUnmatch DEF AccountingStep

----------------------------------------------------------------------------
(* Payroll                                                                 *)

PayTyped == extras \in Int /\ net \in Nat /\ posted \in [Sides -> Nat]

\* Until a posting is interrupted one request at a time posts, and how far it is says what
\* is posted: both lines or none before the first, and the first line of its amount
\* before it inserts the second.
PostingSound == ~interrupted =>
  /\ \A q, r \in Requests : Posting(q) /\ Posting(r) => q = r
  /\ (\A r \in Requests : ~Posting(r)) => Balanced
  /\ \A r \in Requests :
       LET now == at[r]
           half == posted[2] = 0 /\ posted[1] = now.amount
       IN /\ now.step = "find" /\ now.line = 1 => Balanced
          /\ now.step = "post" /\ now.line = 1 => posted[1] = 0 /\ posted[2] = 0
          /\ now.step = "find" /\ now.line = 2 => posted[1] # 0 /\ (Balanced \/ half)
          /\ now.step = "post" /\ now.line = 2 => half

PayInv == PayTyped /\ PostingSound

\* The accounts never post a payment.
LEMMA AccountsDoNotPost ==
  ASSUME BooksTyped, NEW r \in Requests, AccountingStep(r) \/ LookAtChecklist(r, Balanced)
  PROVE  \E where : Goto(r, where) /\ where.step \notin {"find", "post"} /\ ~Posting(r)
<1> DEFINE Elsewhere == \E where : Goto(r, where) /\ where.step \notin {"find", "post"}
<1> USE DEF Posting
<1>0. Idle.step \notin {"find", "post"}
  BY DEF Idle
<1>1. ASSUME End(r) PROVE Elsewhere
  BY <1>0, <1>1 DEF End
<1>2. ASSUME NEW s \in Statements, CheckLine(r, s) PROVE Elsewhere /\ ~Posting(r)
  <2>1. [step |-> "enter", s |-> s].step \notin {"find", "post"}
    OBVIOUS
  <2>2. QED
    BY <1>0, <1>2, <2>1 DEF CheckLine
<1>3. ASSUME NEW e \in Entries, NEW inside \in BOOLEAN, CheckVoucher(r, e, inside)
      PROVE  Elsewhere /\ ~Posting(r)
  <2>1. [step |-> "voucher", e |-> e].step \notin {"find", "post"}
    OBVIOUS
  <2>2. QED
    BY <1>0, <1>3, <2>1 DEF CheckVoucher
<1>4. ASSUME NEW s, NEW e, NEW amount, LooksAtLine(r, s, e, amount)
      PROVE  Elsewhere
  <2>1. [step |-> "judge", s |-> s, e |-> e, amount |-> amount].step \notin {"find", "post"}
    OBVIOUS
  <2>2. QED
    BY <1>4, <2>1 DEF LooksAtLine
<1>5. ASSUME NEW s \in Statements, NEW e \in Entries, UnmatchStatement(r, s, e)
      PROVE  Elsewhere /\ ~Posting(r)
  <2>1. PICK status0 : Goto(r, [step |-> "lift", s |-> s, e |-> e, amount |-> match[s][e],
                                status |-> status0])
    BY <1>5 DEF UnmatchStatement
  <2>2. QED
    BY <1>0, <1>5, <2>1 DEF UnmatchStatement
<1>6. ASSUME NEW s \in Statements, NEW e \in Entries, NEW inside \in BOOLEAN,
             StartAdjustment(r, s, e, inside)
      PROVE  Elsewhere /\ ~Posting(r)
  <2>1. PICK amount : Goto(r, [step |-> "adjust", s |-> s, e |-> e, amount |-> amount])
    BY <1>6 DEF StartAdjustment
  <2>2. QED
    BY <1>0, <1>6, <2>1 DEF StartAdjustment
<1>7. ASSUME NEW step, step \notin {"find", "post"}, Goto(r, [at[r] EXCEPT !.step = step]),
             at[r].step \in {"judge", "adjust"}
      PROVE  Elsewhere
  <2>1. at[r] \in [step : {"judge", "insert", "adjust", "adjusted"}, s : Statements,
                   e : Entries, amount : Nat \ {0}]
    BY <1>7 DEF BooksTyped, Places, Idle
  <2>2. [at[r] EXCEPT !.step = step].step = step
    BY <2>1
  <2>3. QED
    BY <1>7, <2>2
<1>8. CASE LookAtEntry(r)
  BY <1>1, <1>7, <1>8 DEF LookAtEntry
<1>9. CASE InsertMatch(r)
  <2>1. End(r) \/ \E amount, status0 :
          Goto(r, [step |-> "settle", s |-> at[r].s, e |-> at[r].e, amount |-> amount,
                   status |-> status0])
    BY <1>9 DEF InsertMatch
  <2>2. QED
    BY <1>1, <1>9, <2>1 DEF InsertMatch
<1>10. CASE AdjustmentVoucher(r)
  BY <1>7, <1>10 DEF AdjustmentVoucher
<1>11. CASE LookAtChecklist(r, Balanced)
  <2>1. [step |-> "close"].step \notin {"find", "post"}
    OBVIOUS
  <2>2. QED
    BY <1>0, <1>11, <2>1 DEF LookAtChecklist
<1>12. QED
  BY <1>0, <1>1, <1>2, <1>3, <1>4, <1>5, <1>6, <1>8, <1>9, <1>10, <1>11
     DEF AccountingStep, CreateStatementEntry, CreateVoucher, MatchStatement, CommitMatch,
         CommitUnmatch, MatchAdjustment, CloseAccountingPeriod, Fail

\* Nor does anything that leaves the payroll and who posts alone disturb a posting.
LEMMA OthersRest ==
  ASSUME BooksTyped, PayInv, UNCHANGED <<extras, net, posted, interrupted>>,
         \A r \in Requests : at'[r] = at[r] \/ (~Posting(r) /\ ~Posting(r)')
  PROVE  PayInv'
BY DEF PayInv, PayTyped, PostingSound, Posting, Balanced

LEMMA PaymentStays ==
  ASSUME BooksTyped, PayrollConstants, PayInv, NEW r \in Requests,
         \/ MarkPayrollPaid(r) \/ SetPaid(r) \/ RecordPayrollPayment(r)
         \/ FindLine(r) \/ PostLine(r) \/ Stop(r)
  PROVE  /\ PayInv' /\ at' \in [Requests -> Places]
         /\ \E where \in Places : Goto(r, where) /\ StillSo(where)
                                  /\ where.step \notin {"settle", "lift"}
         /\ UNCHANGED <<lines, books, raced>>
<1> USE DEF PayInv, PayTyped, PostingSound, Posting, Balanced
<1>0. /\ Idle.step = "idle" /\ Idle \in Places /\ StillSo(Idle)
      /\ Basic \in Nat /\ at[r].step \in {"find", "post"} =>
           at[r].line \in {1, 2} /\ at[r].amount \in Nat \ {0}
  BY PlaceFacts, NothingLookedUp DEF PayrollConstants, Sides
<1>1. ASSUME NEW where \in Places, Goto(r, where)
      PROVE  /\ at' \in [Requests -> Places] /\ at'[r] = where
             /\ \A q \in Requests \ {r} : at'[q] = at[q]
  BY <1>1 DEF BooksTyped, Goto
<1>2. CASE MarkPayrollPaid(r)
  <2> DEFINE where == [step |-> "pay", amount |-> Basic + extras]
  <2>1. where \in Places /\ where.step = "pay"
    BY <1>0 DEF Places
  <2>2. Goto(r, where) /\ UNCHANGED <<lines, books, raced, payroll>> /\ at[r].step = "idle"
    BY <1>0, <1>2 DEF MarkPayrollPaid
  <2> HIDE DEF where
  <2>3. PayInv'
    BY <1>1, <2>1, <2>2, OthersRest DEF payroll
  <2>4. QED
    BY <1>1, <2>1, <2>2, <2>3, NothingLookedUp
<1>3. CASE SetPaid(r)
  <2> DEFINE where == [step |-> "record"]
  <2>1. where \in Places /\ where.step = "record"
    BY DEF Places
  <2>2. /\ Goto(r, where) /\ UNCHANGED <<lines, books, raced, extras, posted, interrupted>>
        /\ at[r].step = "pay" /\ net' \in Nat
    BY <1>3, PlaceFacts DEF SetPaid
  <2> HIDE DEF where
  <2>3. PayInv'
    BY <1>1, <2>1, <2>2
  <2>4. QED
    BY <1>1, <2>1, <2>2, <2>3, NothingLookedUp
<1>4. CASE RecordPayrollPayment(r)
  <2> DEFINE where == [step |-> "find", line |-> 1, amount |-> net]
  <2>1. /\ UNCHANGED <<lines, books, raced, extras, net, posted>> /\ at[r].step = "record"
        /\ IF net = 0 THEN Goto(r, Idle) ELSE Goto(r, where)
        /\ interrupted' = (interrupted \/ (net # 0 /\ \E q \in Requests : Posting(q)))
    BY <1>4 DEF RecordPayrollPayment, End
  <2>2. CASE net = 0
    BY <1>0, <1>1, <2>1, <2>2
  <2>3. CASE net # 0
    <3>1. where \in Places /\ where.step = "find" /\ where.line = 1
      BY <2>3 DEF Places, Sides
    <3>2. Goto(r, where)
      BY <2>1, <2>3
    <3> HIDE DEF where
    <3>3. /\ at'[r] = where
          /\ ~interrupted' => /\ ~interrupted /\ Balanced
                              /\ \A q \in Requests \ {r} :
                                   at'[q].step \notin {"find", "post"}
      BY <1>1, <2>1, <2>3, <3>1, <3>2
    <3>4. PostingSound'
      BY <2>1, <3>1, <3>3
    <3>5. PayInv'
      BY <2>1, <3>4
    <3>6. QED
      BY <1>1, <2>1, <3>1, <3>2, <3>5, NothingLookedUp
  <2>4. QED
    BY <2>2, <2>3
\* Where the posting goes on.
<1>5. ASSUME Posting(r)
      PROVE  /\ After(r) \in Places /\ StillSo(After(r))
             /\ After(r).step \notin {"settle", "lift"}
             /\ at[r].line = 1 => /\ After(r).step = "find" /\ After(r).line = 2
                                  /\ After(r).amount = at[r].amount
             /\ at[r].line = 2 => After(r).step = "idle"
  <2>1. CASE at[r].line = 2
    BY <1>0, <2>1 DEF After
  <2>2. CASE at[r].line = 1
    <3> DEFINE where == [step |-> "find", line |-> 2, amount |-> at[r].amount]
    <3>1. where \in Places /\ where.step = "find" /\ where.line = 2 /\ where.amount = at[r].amount
      BY <1>0, <1>5 DEF Places, Sides
    <3>2. After(r) = where
      BY <2>2 DEF After
    <3> HIDE DEF where
    <3>3. QED
      BY <2>2, <3>1, <3>2, NothingLookedUp
  <2>3. QED
    BY <1>0, <1>5, <2>1, <2>2
<1>6. CASE FindLine(r)
  <2> DEFINE where == [at[r] EXCEPT !.step = "post"]
  <2>1. /\ UNCHANGED <<lines, books, raced, payroll>> /\ at[r].step = "find"
        /\ Goto(r, IF posted[at[r].line] # 0 THEN After(r) ELSE where)
    BY <1>6 DEF FindLine
  <2>2. CASE posted[at[r].line] # 0
    <3>1. Goto(r, After(r))
      BY <2>1, <2>2
    <3>2. /\ at' \in [Requests -> Places] /\ at'[r] = After(r)
          /\ \A q \in Requests \ {r} : at'[q] = at[q]
      BY <1>1, <1>5, <2>1, <3>1
    <3>3. PayInv'
      BY <1>0, <1>5, <2>1, <2>2, <3>2 DEF payroll, Sides
    <3>4. QED
      BY <1>5, <2>1, <3>1, <3>2, <3>3
  <2>3. CASE posted[at[r].line] = 0
    <3>1. at[r] \in [step : {"find", "post"}, line : Sides, amount : Nat \ {0}]
      BY <2>1 DEF BooksTyped, Places, Idle
    <3>2. /\ where \in Places /\ where.step = "post" /\ where.line = at[r].line
          /\ where.amount = at[r].amount
      BY <3>1 DEF Places
    <3>3. Goto(r, where)
      BY <2>1, <2>3
    <3> HIDE DEF where
    <3>4. PayInv'
      BY <1>0, <1>1, <2>1, <2>3, <3>2, <3>3 DEF payroll, Sides
    <3>5. QED
      BY <1>1, <2>1, <3>2, <3>3, <3>4, NothingLookedUp
  <2>4. QED
    BY <2>2, <2>3
<1>7. CASE PostLine(r)
  <2>1. /\ UNCHANGED <<lines, books, raced, extras, net, interrupted>> /\ at[r].step = "post"
        /\ posted' = [posted EXCEPT ![at[r].line] = @ + at[r].amount] /\ Goto(r, After(r))
    BY <1>7 DEF PostLine
  <2>2. /\ at' \in [Requests -> Places] /\ at'[r] = After(r)
        /\ \A q \in Requests \ {r} : at'[q] = at[q]
    BY <1>1, <1>5, <2>1
  <2>3. PayInv'
    BY <1>0, <1>5, <2>1, <2>2 DEF Sides
  <2>4. QED
    BY <1>5, <2>1, <2>2, <2>3
<1>8. CASE Stop(r)
  <2>1. /\ UNCHANGED <<lines, books, raced, extras, net, posted>> /\ Goto(r, Idle)
        /\ interrupted' = (interrupted \/ (Posting(r) /\ at[r].line = 2))
        /\ at[r].step \in {"pay", "record", "find", "post"}
    BY <1>8 DEF Stop, End
  <2>2. PayInv'
    BY <1>0, <1>1, <2>1
  <2>3. QED
    BY <1>0, <1>1, <2>1, <2>2
<1>9. QED
  BY <1>2, <1>3, <1>4, <1>6, <1>7, <1>8

OfficeBooksInv == BooksInv /\ PayInv

LEMMA BooksStay == AccountingConstants /\ PayrollConstants /\ OfficeBooksInv
                     /\ [PayrollNext]_payrollVars => OfficeBooksInv'
<1> SUFFICES ASSUME AccountingConstants, PayrollConstants, BooksInv, PayInv,
                    [PayrollNext]_payrollVars
             PROVE  BooksInv' /\ PayInv'
  BY DEF OfficeBooksInv
<1>0. BooksTyped
  BY DEF BooksInv
\* Nothing but status and review reasons changes, and no request moves.
<1>1. ASSUME UNCHANGED <<at, books, raced, extras, net, posted, interrupted>>,
             status' \in [Statements -> Statuses], entered' \subseteq Statements,
             \A s \in entered' : status'[s] = "MATCHED" => s \in entered /\ status[s] = "MATCHED"
      PROVE  BooksInv' /\ PayInv'
  <2>1. BooksTyped' /\ \A e \in Entries : bank'[e] >= bank[e]
    BY <1>0, <1>1 DEF BooksTyped, books
  <2>2. QED
    BY <1>0, <1>1, <2>1, Looking, OthersRest DEF books
<1>2. CASE \E x \in Extras : AddToPayroll(x)
  <2>1. /\ UNCHANGED <<vars, net, paid, posted, interrupted>> /\ extras' \in Int
    BY <1>2 DEF AddToPayroll, PayrollConstants
  <2>2. BooksInv'
    <3>1. BooksTyped' /\ \A e \in Entries : bank'[e] >= bank[e]
      BY <1>0, <2>1 DEF BooksTyped, vars, lines, books
    <3>2. QED
      BY <2>1, <3>1, Looking DEF vars, lines, books
  <2>3. PayInv'
    BY <2>1 DEF vars, PayInv, PayTyped, PostingSound, Posting, Balanced
  <2>4. QED
    BY <2>2, <2>3
<1>3. ASSUME NEW r \in Requests, AccountingStep(r) \/ LookAtChecklist(r, Balanced),
             UNCHANGED payroll
      PROVE  BooksInv' /\ PayInv'
  <2>1. BooksInv'
    <3>1. CASE AccountingStep(r)
      BY <3>1, AccountsStay
    <3>2. CASE LookAtChecklist(r, Balanced)
      <4> DEFINE where == [step |-> "close"]
      <4>1. /\ Goto(r, where) /\ UNCHANGED <<lines, books, raced>>
            /\ where \in Places /\ where.step = "close"
        BY <3>2 DEF LookAtChecklist, Places
      <4> HIDE DEF where
      <4>2. QED
        BY <4>1, Looks, NothingLookedUp
    <3>3. QED
      BY <1>3, <3>1, <3>2
  <2>2. PICK where : Goto(r, where) /\ where.step \notin {"find", "post"} /\ ~Posting(r)
    BY <1>0, <1>3, AccountsDoNotPost
  <2>3. at'[r] = where /\ \A q \in Requests \ {r} : at'[q] = at[q]
    BY <1>0, <2>2 DEF Goto, BooksTyped
  <2>4. PayInv'
    BY <1>0, <1>3, <2>2, <2>3, OthersRest DEF payroll, Posting
  <2>5. QED
    BY <2>1, <2>4
<1>4. ASSUME NEW r \in Requests,
             \/ MarkPayrollPaid(r) \/ SetPaid(r) \/ RecordPayrollPayment(r)
             \/ FindLine(r) \/ PostLine(r) \/ Stop(r)
      PROVE  BooksInv' /\ PayInv'
  BY <1>0, <1>4, PaymentStays, Looks
<1>5. CASE \E s \in Statements, why \in BOOLEAN : MarkStatementReview(s, why) /\ UNCHANGED payroll
  <2>1. PICK s \in Statements, why \in BOOLEAN : MarkStatementReview(s, why)
    BY <1>5
  <2>2. /\ UNCHANGED <<at, books, raced, extras, net, posted, interrupted>>
        /\ entered' = entered /\ status' = [status EXCEPT ![s] = IF why THEN "REVIEW" ELSE "UNMATCHED"]
    BY <1>5, <2>1 DEF MarkStatementReview, payroll
  <2>3. /\ status' \in [Statements -> Statuses]
        /\ \A t \in entered' : status'[t] = "MATCHED" => t \in entered /\ status[t] = "MATCHED"
    BY <1>0, <2>2 DEF BooksTyped, Statuses
  <2>4. QED
    BY <1>0, <1>1, <2>2, <2>3 DEF BooksTyped
<1>6. CASE \/ ReopenAccountingPeriod /\ UNCHANGED payroll
           \/ UNCHANGED payrollVars
  BY <1>0, <1>1, <1>6
     DEF ReopenAccountingPeriod, payrollVars, payroll, vars, lines, BooksTyped
<1>7. QED
  BY <1>2, <1>3, <1>4, <1>5, <1>6 DEF PayrollNext

LEMMA BooksSound == OfficeSpec => []OfficeBooksInv
<1> USE AccountingConstants, PayrollConstants
<1>1. OfficeInit => OfficeBooksInv
  <2> SUFFICES ASSUME Init, PayrollInit PROVE BooksInv /\ PayInv
    BY DEF OfficeInit, PayrollInit, OfficeBooksInv
  <2>1. BooksTyped /\ \A r \in Requests : at[r] = Idle /\ Idle.step = "idle"
    BY DEF Init, BooksTyped, Places, Idle, Statuses
  <2>2. PayInv
    BY <2>1
       DEF PayrollInit, PayrollConstants, PayInv, PayTyped, PostingSound, Posting, Balanced,
           Sides
  <2>3. \A s \in Statements : MatchedOf(s) = 0
    <3>1. ASSUME NEW s \in Statements PROVE SumOf(match[s], Entries) = 0
      <4>1. \A e \in Entries : match[s][e] = 0
        BY DEF Init
      <4>2. QED
        BY <4>1, SumOfZeros DEF AccountingConstants
    <3>2. QED
      BY <3>1, MatchedSum
  <2>4. \A e \in Entries : ClaimedOf(e) = 0
    <3>1. ASSUME NEW e \in Entries PROVE SumOf(ClaimsOn(match, e), Statements) = 0
      <4>1. \A s \in Statements : ClaimsOn(match, e)[s] = 0
        BY <3>1 DEF Init, ClaimsOn
      <4>2. QED
        BY <4>1, SumOfZeros DEF AccountingConstants
    <3>2. QED
      BY <3>1, ClaimedSum
  <2>5. MatchesAgree
    BY <2>3, <2>4
       DEF MatchesAgree, MatchesWithin, MatchedIsWhole, Init, AccountingConstants
  <2>6. PairLocked /\ \A r \in Requests : StillSo(at[r])
    BY <2>1 DEF PairLocked, StillSo
  <2>7. QED
    BY <2>1, <2>2, <2>5, <2>6 DEF BooksInv
<1>2. ASSUME [OfficeNext]_OfficeVars PROVE [PayrollNext]_payrollVars
  BY <1>2 DEF OfficeNext, OfficeVars
<1>3. OfficeBooksInv /\ [OfficeNext]_OfficeVars => OfficeBooksInv'
  BY <1>2, BooksStay
<1>4. QED
  BY <1>1, <1>3, PTL DEF OfficeSpec, OfficeVars

\* Matches stay within their line and their entry, and a line that counts as MATCHED is
\* matched in full, unless two requests worked on it at once (MatchStatement,
\* UnmatchStatement, CreateAdjustment and refreshStatementStatusTx lock nothing).
THEOREM MatchesAlwaysAgree == OfficeSpec => []MatchesAgree
<1>1. OfficeBooksInv => MatchesAgree
  BY DEF OfficeBooksInv, BooksInv
<1>2. QED
  BY <1>1, BooksSound, PTL

\* The two lines of a payroll payment balance when nobody posts, unless a posting stopped
\* between them or two overlapped (RecordPayrollPayment, insertEntryIfMissing).
THEOREM PaymentsBalance == OfficeSpec => []PaymentBalances
<1>1. OfficeBooksInv => PaymentBalances
  BY DEF OfficeBooksInv, PayInv, PostingSound, PaymentBalances
<1>2. QED
  BY <1>1, BooksSound, PTL

----------------------------------------------------------------------------
(* The ledger and the documents it is posted from.                         *)

AsofRecord ==
  [posted : BOOLEAN, whole : BOOLEAN, mixed : BOOLEAN, total : Int, tax : Int, paid : Int]

RowsInOrder == \E n \in 0 .. MaxDocs : Report!Rows = 1 .. n

LedgerTyped ==
  /\ side \in {"sales", "purchases"}
  /\ doc \in [Report!Docs -> Report!DocRecord \cup {NoDoc}]
  /\ ledger \in [Report!Docs -> [Report!Accounts -> Int]]
  /\ asof \in [Report!Docs -> AsofRecord]
  /\ stops \in Nat
  /\ RowsInOrder
  /\ due \subseteq Report!Of(Report!Posted)
  /\ direct \subseteq Report!Of({"adjustment"})

\* A document with the amounts it was posted from, and what a posting of such lines makes.
PostedFrom(d) ==
  [kind |-> doc[d].kind, cost |-> doc[d].cost, banked |-> doc[d].banked,
   total |-> asof[d].total, tax |-> asof[d].tax, paid |-> asof[d].paid]
Made(ls) == Report!Insert(Report!Unwritten, ls)

\* What is in the ledger of d is some of the lines of the amounts it was posted from,
\* all of them once it was posted whole.
LinesOf(d) ==
  /\ \A a \in Report!Accounts :
       ledger[d][a] \in {0, Made(Report!Lines(PostedFrom(d)))[a]}
  /\ asof[d].whole => ledger[d] = Made(Report!Lines(PostedFrom(d)))

EntryInv(d) ==
  /\ ~asof[d].posted => ledger[d] = Report!Unwritten /\ ~asof[d].whole
  /\ d \notin Report!Rows \/ d \in direct => ~asof[d].posted
  /\ d \in Report!Of({"void"}) => ~asof[d].posted
  /\ d \in Report!Of(Report!Posted) /\ asof[d].posted /\ ~asof[d].mixed => LinesOf(d)
  /\ d \in Report!Of({"adjustment"}) /\ asof[d].whole =>
       \E h \in 0..2 : ledger[d] = Made(Report!AdjustmentLines(PostedFrom(d), h))
  /\ d \in Report!Of({"sale_return", "purchase_return"}) =>
       /\ doc[d].tax <= doc[d].total
       /\ asof[d].posted => asof[d].tax <= asof[d].total

EntriesInv == LedgerTyped /\ \A d \in Report!Docs : EntryInv(d)

\* Lines of a posting are of different accounts.
LineRecord == [account : Report!Accounts, amount : Int]
LineList ==
  {ls \in Seq(LineRecord) :
     \A i, j \in DOMAIN ls : ls[i].account = ls[j].account => i = j}

LEMMA InsertIs ==
  ASSUME NEW ls \in LineList, NEW k \in 0..Len(ls), NEW w \in [Report!Accounts -> Int],
         NEW a \in Report!Accounts
  PROVE  LET got == Report!Insert(w, SubSeq(ls, 1, k))[a] IN
         /\ got \in Int
         /\ \A i \in 1..k : ls[i].account = a => got = IF w[a] # 0 THEN w[a] ELSE ls[i].amount
         /\ (\A i \in 1..k : ls[i].account # a) => got = w[a]
<1> DEFINE part0 == SubSeq(ls, 1, k)
           new == {i \in DOMAIN part0 : part0[i].account = a}
<1>1. ls \in Seq(LineRecord) /\ DOMAIN ls = 1..Len(ls)
  BY DEF LineList
<1>2. /\ DOMAIN part0 = 1..k /\ \A i \in 1..k : part0[i] = ls[i] /\ i \in DOMAIN ls
      /\ \A i \in 1..k : ls[i].amount \in Int
  <2>1. Len(ls) \in Nat /\ k \in Nat /\ \A i \in 1..k : i \in 1..Len(ls)
    BY <1>1
  <2>2. part0 = [i \in 1..k |-> ls[i]]
    BY <1>1, <2>1
  <2>3. \A i \in 1..k : ls[i] \in LineRecord /\ ls[i].amount \in Int
    <3>1. \A i \in 1..k : ls[i] \in LineRecord
      BY <1>1, <2>1
    <3>2. \A l \in LineRecord : l.amount \in Int
      BY DEF LineRecord
    <3>3. QED
      BY <3>1, <3>2
  <2> HIDE DEF part0
  <2>4. QED
    BY <1>1, <2>1, <2>2, <2>3
<1>3. Report!Insert(w, part0)[a]
        = IF w[a] # 0 \/ new = {} THEN w[a] ELSE part0[CHOOSE i \in new : TRUE].amount
  BY DEF Report!Insert
<1> HIDE DEF part0
<1>4. \A i \in 1..k : ls[i].account = a => new = {i}
  BY <1>2 DEF LineList
<1>5. \A i : new = {i} => (CHOOSE j \in new : TRUE) = i
  OBVIOUS
<1>6. (\A i \in 1..k : ls[i].account # a) => new = {}
  BY <1>2
<1>7. new # {} => \E i \in 1..k : ls[i].account = a
  BY <1>2
<1> HIDE DEF new
<1>8. QED
  BY <1>2, <1>3, <1>4, <1>5, <1>6, <1>7 DEF part0

LEMMA InsertAll ==
  ASSUME NEW ls \in LineList, NEW w
  PROVE  Report!Insert(w, ls) = Report!Insert(w, SubSeq(ls, 1, Len(ls)))
<1>1. SubSeq(ls, 1, Len(ls)) = ls
  BY DEF LineList
<1>2. QED
  BY <1>1

LEMMA InsertFills ==
  ASSUME NEW w, NEW ls
  PROVE  Report!Insert(w, ls) = [a \in Report!Accounts |-> Report!Insert(w, ls)[a]]
<1> DEFINE new(a) == {i \in DOMAIN ls : ls[i].account = a}
           value(a) == IF w[a] # 0 \/ new(a) = {} THEN w[a] ELSE ls[CHOOSE i \in new(a) : TRUE].amount
<1>1. Report!Insert(w, ls) = [a \in Report!Accounts |-> value(a)]
  BY DEF Report!Insert
<1> HIDE DEF value
<1>2. QED
  BY <1>1

LEMMA MadeIs ==
  ASSUME NEW ls \in LineList, NEW a \in Report!Accounts
  PROVE  /\ Made(ls)[a] \in Int
         /\ \A i \in 1..Len(ls) : ls[i].account = a => Made(ls)[a] = ls[i].amount
         /\ (\A i \in 1..Len(ls) : ls[i].account # a) => Made(ls)[a] = 0
<1>1. Report!Unwritten \in [Report!Accounts -> Int] /\ Report!Unwritten[a] = 0
  BY DEF Report!Unwritten
<1>2. Len(ls) \in 0..Len(ls)
  BY DEF LineList
<1>3. QED
  BY <1>1, <1>2, InsertAll, InsertIs DEF Made

\* A posting adds lines that are not there, and some are there of the same amounts.
LEMMA InsertAdds ==
  ASSUME NEW ls \in LineList, NEW k \in 0..Len(ls), NEW w \in [Report!Accounts -> Int],
         \A a \in Report!Accounts : w[a] \in {0, Made(ls)[a]}
  PROVE  LET got == Report!Insert(w, SubSeq(ls, 1, k)) IN
         /\ got \in [Report!Accounts -> Int]
         /\ \A a \in Report!Accounts : got[a] \in {0, Made(ls)[a]}
         /\ k = Len(ls) => got = Made(ls)
<1> DEFINE got == Report!Insert(w, SubSeq(ls, 1, k))
<1>1. got = [a \in Report!Accounts |-> got[a]] /\ Made(ls) = [a \in Report!Accounts |-> Made(ls)[a]]
  BY InsertFills DEF Made
<1>2. ASSUME NEW a \in Report!Accounts
      PROVE  /\ got[a] \in Int /\ got[a] \in {0, Made(ls)[a]}
             /\ k = Len(ls) => got[a] = Made(ls)[a]
  <2> HIDE DEF got
  <2>1. /\ got[a] \in Int
        /\ \A i \in 1..k : ls[i].account = a => got[a] = IF w[a] # 0 THEN w[a] ELSE ls[i].amount
        /\ (\A i \in 1..k : ls[i].account # a) => got[a] = w[a]
    BY InsertIs DEF got
  <2>2. /\ \A i \in 1..Len(ls) : ls[i].account = a => Made(ls)[a] = ls[i].amount
        /\ (\A i \in 1..Len(ls) : ls[i].account # a) => Made(ls)[a] = 0
    BY MadeIs
  <2>3. Len(ls) \in Nat /\ 1..k \subseteq 1..Len(ls) /\ w[a] \in {0, Made(ls)[a]}
    BY DEF LineList
  <2>4. CASE \E i \in 1..k : ls[i].account = a
    BY <2>1, <2>2, <2>3, <2>4
  <2>5. CASE \A i \in 1..k : ls[i].account # a
    BY <2>1, <2>2, <2>3, <2>5
  <2>6. QED
    BY <2>1, <2>4, <2>5
<1> HIDE DEF got
<1>3. QED
  BY <1>1, <1>2 DEF got

\* What each kind of document is posted as, account by account.
PostableRecord ==
  [kind : Report!Posted, cost : Int, banked : BOOLEAN, total : Int, tax : Int, paid : Int]

LEMMA AccountsAre ==
  Report!Accounts = {"cash", "bank", "receivable", "inventory", "taxReceivable", "payable",
                     "taxPayable", "revenue", "cogs", "expenses"}
BY DEF Report!Accounts, Report!Assets, Report!Liabilities, Report!Revenues, Report!Costs

\* A list of lines makes f when it has each amount of f that is not zero, and no other.
Makes(ls, f) == ls \in LineList /\ Made(ls) = f

LEMMA LinesMake ==
  ASSUME NEW ls \in Seq(LineRecord), NEW f \in [Report!Accounts -> Int],
         \A i, j \in 1..Len(ls) : ls[i].account = ls[j].account => i = j,
         \A i \in 1..Len(ls) : f[ls[i].account] = ls[i].amount,
         \A a \in Report!Accounts : f[a] # 0 => \E i \in 1..Len(ls) : ls[i].account = a
  PROVE  Makes(ls, f)
<1>1. DOMAIN ls = 1..Len(ls)
  OBVIOUS
<1>2. ls \in LineList
  BY <1>1 DEF LineList
<1>3. Made(ls) = [a \in Report!Accounts |-> Made(ls)[a]]
  BY InsertFills DEF Made
<1>4. ASSUME NEW a \in Report!Accounts
      PROVE  Made(ls)[a] = f[a]
  BY <1>2, MadeIs
<1>5. f = [a \in Report!Accounts |-> f[a]]
  OBVIOUS
<1>6. QED
  BY <1>2, <1>3, <1>4, <1>5 DEF Makes

\* The amounts that a document is posted as, account by account; zero elsewhere.
AmountsOf(row) ==
  LET total == row.total
      goods == Report!AtLeastZero(row.total - row.tax)
      money == Report!Money(row)
      kind  == row.kind
  IN [a \in Report!Accounts |->
        CASE a \in {"cash", "bank"} ->
               CASE kind = "sale" /\ a = "cash" -> row.paid
                 [] kind = "collection" /\ a = money -> total
                 [] kind = "payment" /\ a = money -> -total
                 [] kind = "purchase" /\ a = "cash" -> -row.paid
                 [] kind = "expense" /\ a = "cash" -> -total
                 [] OTHER -> 0
          [] a = "receivable" ->
               CASE kind = "sale" -> total - row.paid
                 [] kind \in {"sale_return", "collection"} -> -total
                 [] OTHER -> 0
          [] a = "inventory" ->
               CASE kind = "sale" -> -row.cost
                 [] kind = "sale_return" -> row.cost
                 [] kind = "purchase" -> goods
                 [] kind = "purchase_return" -> -goods
                 [] OTHER -> 0
          [] a = "taxReceivable" ->
               CASE kind = "purchase" -> row.tax
                 [] kind = "purchase_return" -> -row.tax
                 [] OTHER -> 0
          [] a = "payable" ->
               CASE kind = "purchase" -> -Report!AtLeastZero(total - row.paid)
                 [] kind \in {"purchase_return", "payment"} -> total
                 [] OTHER -> 0
          [] a = "taxPayable" ->
               CASE kind = "sale" -> -row.tax [] kind = "sale_return" -> row.tax [] OTHER -> 0
          [] a = "revenue" ->
               CASE kind = "sale" -> row.tax - total [] kind = "sale_return" -> goods [] OTHER -> 0
          [] a = "cogs" ->
               CASE kind = "sale" -> row.cost [] kind = "sale_return" -> -row.cost [] OTHER -> 0
          [] a = "expenses" -> IF kind = "expense" THEN total ELSE 0]

LEMMA AmountsTyped == ASSUME NEW row \in PostableRecord PROVE AmountsOf(row) \in [Report!Accounts -> Int]
BY AccountsAre DEF AmountsOf, PostableRecord, Report!AtLeastZero, Report!Posted

LEMMA SaleMakes ==
  ASSUME NEW row \in PostableRecord, row.kind = "sale"
  PROVE  Makes(Report!Lines(row), AmountsOf(row))
<1> DEFINE ls == Report!SaleLines(row)
           f == AmountsOf(row)
<1>0. row.paid \in Int /\ row.total \in Int /\ row.tax \in Int /\ row.cost \in Int
  BY DEF PostableRecord
<1>1. /\ Len(ls) = 6
      /\ ls[1] = Report!Line("cash", row.paid)
      /\ ls[2] = Report!Line("receivable", row.total - row.paid)
      /\ ls[3] = Report!Line("revenue", row.tax - row.total)
      /\ ls[4] = Report!Line("taxPayable", -row.tax)
      /\ ls[5] = Report!Line("cogs", row.cost)
      /\ ls[6] = Report!Line("inventory", -row.cost)
  BY DEF Report!SaleLines
<1>2. ls \in Seq(LineRecord)
  BY <1>0, AccountsAre DEF Report!SaleLines, Report!Line, LineRecord
<1>3. f \in [Report!Accounts -> Int]
  BY AmountsTyped
<1>4. /\ f["cash"] = row.paid /\ f["receivable"] = row.total - row.paid
      /\ f["revenue"] = row.tax - row.total /\ f["taxPayable"] = -row.tax
      /\ f["cogs"] = row.cost /\ f["inventory"] = -row.cost
      /\ f["bank"] = 0 /\ f["taxReceivable"] = 0 /\ f["payable"] = 0 /\ f["expenses"] = 0
  BY AccountsAre DEF AmountsOf
<1> HIDE DEF ls, f
<1>5. \A i, j \in 1..Len(ls) : ls[i].account = ls[j].account => i = j
  BY <1>1 DEF Report!Line
<1>6. \A i \in 1..Len(ls) : f[ls[i].account] = ls[i].amount
  BY <1>1, <1>4 DEF Report!Line
<1>7. \A a \in Report!Accounts : f[a] # 0 => \E i \in 1..Len(ls) : ls[i].account = a
  BY <1>1, <1>4, AccountsAre DEF Report!Line
<1>8. Makes(ls, f)
  BY <1>2, <1>3, <1>5, <1>6, <1>7, LinesMake
<1>9. QED
  BY <1>8 DEF ls, f, Report!Lines

LEMMA SaleReturnMakes ==
  ASSUME NEW row \in PostableRecord, row.kind = "sale_return"
  PROVE  Makes(Report!Lines(row), AmountsOf(row))
<1> DEFINE ls == Report!SaleReturnLines(row)
           f == AmountsOf(row)
<1>0. row.paid \in Int /\ row.total \in Int /\ row.tax \in Int /\ row.cost \in Int
  BY DEF PostableRecord
<1>a. /\ Report!AtLeastZero(row.total - row.tax) \in Int
      /\ Report!AtLeastZero(row.total - row.paid) \in Int
  BY <1>0 DEF Report!AtLeastZero
<1>1. /\ Len(ls) = 5
      /\ ls[1] = Report!Line("revenue", Report!AtLeastZero(row.total - row.tax))
      /\ ls[2] = Report!Line("taxPayable", row.tax)
      /\ ls[3] = Report!Line("receivable", -row.total)
      /\ ls[4] = Report!Line("inventory", row.cost)
      /\ ls[5] = Report!Line("cogs", -row.cost)
  BY DEF Report!SaleReturnLines
<1>2. ls \in Seq(LineRecord)
  BY <1>0, <1>a, AccountsAre DEF Report!SaleReturnLines, Report!Line, LineRecord
<1>3. f \in [Report!Accounts -> Int]
  BY AmountsTyped
<1>4. /\ f["revenue"] = Report!AtLeastZero(row.total - row.tax)
      /\ f["taxPayable"] = row.tax
      /\ f["receivable"] = -row.total
      /\ f["inventory"] = row.cost
      /\ f["cogs"] = -row.cost
      /\ \A a \in {"cash", "bank", "taxReceivable", "payable", "expenses"} : f[a] = 0
  BY <1>a, AccountsAre DEF AmountsOf
<1> HIDE DEF ls, f
<1>5. \A i, j \in 1..Len(ls) : ls[i].account = ls[j].account => i = j
  BY <1>a, <1>1 DEF Report!Line
<1>6. \A i \in 1..Len(ls) : f[ls[i].account] = ls[i].amount
  BY <1>1, <1>4 DEF Report!Line
<1>7. \A a \in Report!Accounts : f[a] # 0 => \E i \in 1..Len(ls) : ls[i].account = a
  BY <1>a, <1>1, <1>4, AccountsAre DEF Report!Line
<1>8. Makes(ls, f)
  BY <1>2, <1>3, <1>5, <1>6, <1>7, LinesMake
<1>9. QED
  BY <1>8 DEF ls, f, Report!Lines

LEMMA CollectionMakes ==
  ASSUME NEW row \in PostableRecord, row.kind = "collection"
  PROVE  Makes(Report!Lines(row), AmountsOf(row))
<1> DEFINE ls == Report!CollectionLines(row)
           f == AmountsOf(row)
           money == Report!Money(row)
<1>0. row.paid \in Int /\ row.total \in Int /\ row.tax \in Int /\ row.cost \in Int
  BY DEF PostableRecord
<1>a. money = "bank" \/ money = "cash"
  BY DEF Report!Money
<1>1. /\ Len(ls) = 2
      /\ ls[1] = Report!Line(money, row.total)
      /\ ls[2] = Report!Line("receivable", -row.total)
  BY DEF Report!CollectionLines
<1>2. ls \in Seq(LineRecord)
  BY <1>0, <1>a, AccountsAre DEF Report!CollectionLines, Report!Line, LineRecord
<1>3. f \in [Report!Accounts -> Int]
  BY AmountsTyped
<1>4. /\ f[money] = row.total
      /\ f["receivable"] = -row.total
      /\ \A a \in {"cash", "bank"} : a # money => f[a] = 0
      /\ \A a \in {"inventory", "taxReceivable", "payable", "taxPayable", "revenue", "cogs",
         "expenses"} : f[a] = 0
  BY <1>a, AccountsAre DEF AmountsOf
<1> HIDE DEF ls, f, money
<1>5. \A i, j \in 1..Len(ls) : ls[i].account = ls[j].account => i = j
  BY <1>a, <1>1 DEF Report!Line
<1>6. \A i \in 1..Len(ls) : f[ls[i].account] = ls[i].amount
  BY <1>1, <1>4 DEF Report!Line
<1>7. \A a \in Report!Accounts : f[a] # 0 => \E i \in 1..Len(ls) : ls[i].account = a
  BY <1>a, <1>1, <1>4, AccountsAre DEF Report!Line
<1>8. Makes(ls, f)
  BY <1>2, <1>3, <1>5, <1>6, <1>7, LinesMake
<1>9. QED
  BY <1>8 DEF ls, f, Report!Lines

LEMMA PurchaseMakes ==
  ASSUME NEW row \in PostableRecord, row.kind = "purchase"
  PROVE  Makes(Report!Lines(row), AmountsOf(row))
<1> DEFINE ls == Report!PurchaseLines(row)
           f == AmountsOf(row)
<1>0. row.paid \in Int /\ row.total \in Int /\ row.tax \in Int /\ row.cost \in Int
  BY DEF PostableRecord
<1>a. /\ Report!AtLeastZero(row.total - row.tax) \in Int
      /\ Report!AtLeastZero(row.total - row.paid) \in Int
  BY <1>0 DEF Report!AtLeastZero
<1>1. /\ Len(ls) = 4
      /\ ls[1] = Report!Line("inventory", Report!AtLeastZero(row.total - row.tax))
      /\ ls[2] = Report!Line("taxReceivable", row.tax)
      /\ ls[3] = Report!Line("cash", -row.paid)
      /\ ls[4] = Report!Line("payable", -Report!AtLeastZero(row.total - row.paid))
  BY DEF Report!PurchaseLines
<1>2. ls \in Seq(LineRecord)
  BY <1>0, <1>a, AccountsAre DEF Report!PurchaseLines, Report!Line, LineRecord
<1>3. f \in [Report!Accounts -> Int]
  BY AmountsTyped
<1>4. /\ f["inventory"] = Report!AtLeastZero(row.total - row.tax)
      /\ f["taxReceivable"] = row.tax
      /\ f["cash"] = -row.paid
      /\ f["payable"] = -Report!AtLeastZero(row.total - row.paid)
      /\ \A a \in {"bank", "receivable", "taxPayable", "revenue", "cogs", "expenses"} : f[a] =
         0
  BY <1>a, AccountsAre DEF AmountsOf
<1> HIDE DEF ls, f
<1>5. \A i, j \in 1..Len(ls) : ls[i].account = ls[j].account => i = j
  BY <1>a, <1>1 DEF Report!Line
<1>6. \A i \in 1..Len(ls) : f[ls[i].account] = ls[i].amount
  BY <1>1, <1>4 DEF Report!Line
<1>7. \A a \in Report!Accounts : f[a] # 0 => \E i \in 1..Len(ls) : ls[i].account = a
  BY <1>a, <1>1, <1>4, AccountsAre DEF Report!Line
<1>8. Makes(ls, f)
  BY <1>2, <1>3, <1>5, <1>6, <1>7, LinesMake
<1>9. QED
  BY <1>8 DEF ls, f, Report!Lines

LEMMA PurchaseReturnMakes ==
  ASSUME NEW row \in PostableRecord, row.kind = "purchase_return"
  PROVE  Makes(Report!Lines(row), AmountsOf(row))
<1> DEFINE ls == Report!PurchaseReturnLines(row)
           f == AmountsOf(row)
<1>0. row.paid \in Int /\ row.total \in Int /\ row.tax \in Int /\ row.cost \in Int
  BY DEF PostableRecord
<1>a. /\ Report!AtLeastZero(row.total - row.tax) \in Int
      /\ Report!AtLeastZero(row.total - row.paid) \in Int
  BY <1>0 DEF Report!AtLeastZero
<1>1. /\ Len(ls) = 3
      /\ ls[1] = Report!Line("payable", row.total)
      /\ ls[2] = Report!Line("inventory", -Report!AtLeastZero(row.total - row.tax))
      /\ ls[3] = Report!Line("taxReceivable", -row.tax)
  BY DEF Report!PurchaseReturnLines
<1>2. ls \in Seq(LineRecord)
  BY <1>0, <1>a, AccountsAre DEF Report!PurchaseReturnLines, Report!Line, LineRecord
<1>3. f \in [Report!Accounts -> Int]
  BY AmountsTyped
<1>4. /\ f["payable"] = row.total
      /\ f["inventory"] = -Report!AtLeastZero(row.total - row.tax)
      /\ f["taxReceivable"] = -row.tax
      /\ \A a \in {"cash", "bank", "receivable", "taxPayable", "revenue", "cogs", "expenses"}
         : f[a] = 0
  BY <1>a, AccountsAre DEF AmountsOf
<1> HIDE DEF ls, f
<1>5. \A i, j \in 1..Len(ls) : ls[i].account = ls[j].account => i = j
  BY <1>a, <1>1 DEF Report!Line
<1>6. \A i \in 1..Len(ls) : f[ls[i].account] = ls[i].amount
  BY <1>1, <1>4 DEF Report!Line
<1>7. \A a \in Report!Accounts : f[a] # 0 => \E i \in 1..Len(ls) : ls[i].account = a
  BY <1>a, <1>1, <1>4, AccountsAre DEF Report!Line
<1>8. Makes(ls, f)
  BY <1>2, <1>3, <1>5, <1>6, <1>7, LinesMake
<1>9. QED
  BY <1>8 DEF ls, f, Report!Lines

LEMMA PaymentMakes ==
  ASSUME NEW row \in PostableRecord, row.kind = "payment"
  PROVE  Makes(Report!Lines(row), AmountsOf(row))
<1> DEFINE ls == Report!SupplierPaymentLines(row)
           f == AmountsOf(row)
           money == Report!Money(row)
<1>0. row.paid \in Int /\ row.total \in Int /\ row.tax \in Int /\ row.cost \in Int
  BY DEF PostableRecord
<1>a. money = "bank" \/ money = "cash"
  BY DEF Report!Money
<1>1. /\ Len(ls) = 2
      /\ ls[1] = Report!Line("payable", row.total)
      /\ ls[2] = Report!Line(money, -row.total)
  BY DEF Report!SupplierPaymentLines
<1>2. ls \in Seq(LineRecord)
  BY <1>0, <1>a, AccountsAre DEF Report!SupplierPaymentLines, Report!Line, LineRecord
<1>3. f \in [Report!Accounts -> Int]
  BY AmountsTyped
<1>4. /\ f["payable"] = row.total
      /\ f[money] = -row.total
      /\ \A a \in {"cash", "bank"} : a # money => f[a] = 0
      /\ \A a \in {"receivable", "inventory", "taxReceivable", "taxPayable", "revenue",
         "cogs", "expenses"} : f[a] = 0
  BY <1>a, AccountsAre DEF AmountsOf
<1> HIDE DEF ls, f, money
<1>5. \A i, j \in 1..Len(ls) : ls[i].account = ls[j].account => i = j
  BY <1>a, <1>1 DEF Report!Line
<1>6. \A i \in 1..Len(ls) : f[ls[i].account] = ls[i].amount
  BY <1>1, <1>4 DEF Report!Line
<1>7. \A a \in Report!Accounts : f[a] # 0 => \E i \in 1..Len(ls) : ls[i].account = a
  BY <1>a, <1>1, <1>4, AccountsAre DEF Report!Line
<1>8. Makes(ls, f)
  BY <1>2, <1>3, <1>5, <1>6, <1>7, LinesMake
<1>9. QED
  BY <1>8 DEF ls, f, Report!Lines

LEMMA ExpenseMakes ==
  ASSUME NEW row \in PostableRecord, row.kind = "expense"
  PROVE  Makes(Report!Lines(row), AmountsOf(row))
<1> DEFINE ls == Report!ExpenseLines(row)
           f == AmountsOf(row)
<1>0. row.paid \in Int /\ row.total \in Int /\ row.tax \in Int /\ row.cost \in Int
  BY DEF PostableRecord
<1>1. /\ Len(ls) = 2
      /\ ls[1] = Report!Line("expenses", row.total)
      /\ ls[2] = Report!Line("cash", -row.total)
  BY DEF Report!ExpenseLines
<1>2. ls \in Seq(LineRecord)
  BY <1>0, AccountsAre DEF Report!ExpenseLines, Report!Line, LineRecord
<1>3. f \in [Report!Accounts -> Int]
  BY AmountsTyped
<1>4. /\ f["expenses"] = row.total
      /\ f["cash"] = -row.total
      /\ \A a \in {"bank", "receivable", "inventory", "taxReceivable", "payable",
         "taxPayable", "revenue", "cogs"} : f[a] = 0
  BY AccountsAre DEF AmountsOf
<1> HIDE DEF ls, f
<1>5. \A i, j \in 1..Len(ls) : ls[i].account = ls[j].account => i = j
  BY <1>1 DEF Report!Line
<1>6. \A i \in 1..Len(ls) : f[ls[i].account] = ls[i].amount
  BY <1>1, <1>4 DEF Report!Line
<1>7. \A a \in Report!Accounts : f[a] # 0 => \E i \in 1..Len(ls) : ls[i].account = a
  BY <1>1, <1>4, AccountsAre DEF Report!Line
<1>8. Makes(ls, f)
  BY <1>2, <1>3, <1>5, <1>6, <1>7, LinesMake
<1>9. QED
  BY <1>8 DEF ls, f, Report!Lines

LEMMA LinesMakeAmounts ==
  ASSUME NEW row \in PostableRecord
  PROVE  Makes(Report!Lines(row), AmountsOf(row)) /\ AmountsOf(row) \in [Report!Accounts -> Int]
<1>1. row.kind \in Report!Posted
  BY DEF PostableRecord
<1>2. QED
  BY <1>1, AmountsTyped, SaleMakes, SaleReturnMakes, CollectionMakes, PurchaseMakes,
     PurchaseReturnMakes, PaymentMakes, ExpenseMakes DEF Report!Posted

\* The sum of an entry's accounts.
LEMMA AccountsSum ==
  ASSUME NEW f \in [Report!Accounts -> Int]
  PROVE  /\ SumOf(f, Report!Accounts)
              = f["cash"] + f["bank"] + f["receivable"] + f["inventory"] + f["taxReceivable"]
                + f["payable"] + f["taxPayable"] + f["revenue"] + f["cogs"] + f["expenses"]
         /\ IsFiniteSet(Report!Accounts)
<1> DEFINE A == Report!Accounts
           Fits(S) == S \subseteq A /\ IsFiniteSet(S)
<1>1. ASSUME NEW S, NEW x \in A \ S, Fits(S)
      PROVE  Fits(S \cup {x}) /\ SumOf(f, S \cup {x}) = SumOf(f, S) + f[x]
  <2>1. \A y \in S \cup {x} : f[y] \in Int
    BY <1>1
  <2>2. x \notin S /\ IsFiniteSet(S) /\ IsFiniteSet(S \cup {x})
    BY <1>1, FS_AddElement
  <2>3. QED
    BY <1>1, <2>1, <2>2, SumAdd
<1>2. Fits({}) /\ SumOf(f, {}) = 0
  BY SumOfNone, FS_EmptySet
<1> DEFINE S1 == {} \cup {"cash"}
           S2 == S1 \cup {"bank"}
           S3 == S2 \cup {"receivable"}
           S4 == S3 \cup {"inventory"}
           S5 == S4 \cup {"taxReceivable"}
           S6 == S5 \cup {"payable"}
           S7 == S6 \cup {"taxPayable"}
           S8 == S7 \cup {"revenue"}
           S9 == S8 \cup {"cogs"}
           S10 == S9 \cup {"expenses"}
<1>3. "cash" \in A \ {}
  BY AccountsAre
<1>4. "bank" \in A \ S1
  BY AccountsAre
<1>5. "receivable" \in A \ S2
  BY AccountsAre
<1>6. "inventory" \in A \ S3
  BY AccountsAre
<1>7. "taxReceivable" \in A \ S4
  BY AccountsAre
<1>8. "payable" \in A \ S5
  BY AccountsAre
<1>9. "taxPayable" \in A \ S6
  BY AccountsAre
<1>10. "revenue" \in A \ S7
  BY AccountsAre
<1>11. "cogs" \in A \ S8
  BY AccountsAre
<1>12. "expenses" \in A \ S9
  BY AccountsAre
<1>13. A = S10
  BY AccountsAre
<1>14. \A a \in A : f[a] \in Int
  OBVIOUS
<1> HIDE DEF Fits, A, S1, S2, S3, S4, S5, S6, S7, S8, S9, S10
<1>15. Fits(S1) /\ SumOf(f, S1) = SumOf(f, {}) + f["cash"]
  BY <1>1, <1>3, <1>2 DEF S1
<1>16. Fits(S2) /\ SumOf(f, S2) = SumOf(f, S1) + f["bank"]
  BY <1>1, <1>4, <1>15 DEF S2
<1>17. Fits(S3) /\ SumOf(f, S3) = SumOf(f, S2) + f["receivable"]
  BY <1>1, <1>5, <1>16 DEF S3
<1>18. Fits(S4) /\ SumOf(f, S4) = SumOf(f, S3) + f["inventory"]
  BY <1>1, <1>6, <1>17 DEF S4
<1>19. Fits(S5) /\ SumOf(f, S5) = SumOf(f, S4) + f["taxReceivable"]
  BY <1>1, <1>7, <1>18 DEF S5
<1>20. Fits(S6) /\ SumOf(f, S6) = SumOf(f, S5) + f["payable"]
  BY <1>1, <1>8, <1>19 DEF S6
<1>21. Fits(S7) /\ SumOf(f, S7) = SumOf(f, S6) + f["taxPayable"]
  BY <1>1, <1>9, <1>20 DEF S7
<1>22. Fits(S8) /\ SumOf(f, S8) = SumOf(f, S7) + f["revenue"]
  BY <1>1, <1>10, <1>21 DEF S8
<1>23. Fits(S9) /\ SumOf(f, S9) = SumOf(f, S8) + f["cogs"]
  BY <1>1, <1>11, <1>22 DEF S9
<1>24. Fits(S10) /\ SumOf(f, S10) = SumOf(f, S9) + f["expenses"]
  BY <1>1, <1>12, <1>23 DEF S10
<1>25. QED
  BY <1>2, <1>3, <1>4, <1>5, <1>6, <1>7, <1>8, <1>9, <1>10, <1>11, <1>12, <1>13, <1>14,
     <1>15, <1>16, <1>17, <1>18, <1>19, <1>20, <1>21, <1>22, <1>23, <1>24 DEF Fits, A

LEMMA SumIsSumOf == ASSUME NEW f, NEW S PROVE Report!Sum(f, S) = SumOf(f, S)
BY DEF Report!Sum, SumOf, Report!MapThenSumSet, Report!MapThenFoldSet, MapThenSumSet,
       MapThenFoldSet

\* Debits are credits, where nothing negative was cut off.
LEMMA AmountsBalance ==
  ASSUME NEW row \in PostableRecord,
         row.kind \in {"sale_return", "purchase", "purchase_return"} => row.tax <= row.total,
         row.kind = "purchase" => row.paid <= row.total
  PROVE  SumOf(AmountsOf(row), Report!Accounts) = 0
<1> DEFINE f == AmountsOf(row)
<1>1. /\ row.paid \in Int /\ row.total \in Int /\ row.tax \in Int /\ row.cost \in Int
      /\ row.kind \in Report!Posted
  BY DEF PostableRecord
<1>2. /\ SumOf(f, Report!Accounts)
           = f["cash"] + f["bank"] + f["receivable"] + f["inventory"] + f["taxReceivable"]
             + f["payable"] + f["taxPayable"] + f["revenue"] + f["cogs"] + f["expenses"]
  BY AmountsTyped, AccountsSum
<1>3. CASE row.kind \in {"collection", "payment"}
  BY <1>1, <1>2, <1>3, AccountsAre DEF AmountsOf, Report!Money
<1>4. CASE row.kind \in {"sale", "expense"}
  BY <1>1, <1>2, <1>4, AccountsAre DEF AmountsOf
<1>5. CASE row.kind = "sale_return"
  BY <1>1, <1>2, <1>5, AccountsAre DEF AmountsOf, Report!AtLeastZero
<1>6. CASE row.kind = "purchase"
  BY <1>1, <1>2, <1>6, AccountsAre DEF AmountsOf, Report!AtLeastZero
<1>7. CASE row.kind = "purchase_return"
  BY <1>1, <1>2, <1>7, AccountsAre DEF AmountsOf, Report!AtLeastZero
<1>8. QED
  BY <1>1, <1>3, <1>4, <1>5, <1>6, <1>7 DEF Report!Posted

LEMMA HalvesFit ==
  ASSUME NEW n \in Int, NEW h \in 0..2
  PROVE  /\ Report!Halved(n * h) \in Int /\ Report!Halved(n * (2 - h)) \in Int
         /\ Report!Halved(n * h) + Report!Halved(n * (2 - h)) - n \in -1..1
<1>1. Report!Halved(0) = 0
  BY DEF Report!Halved
<1>2. Report!Halved(n * 2) = n
  BY DEF Report!Halved
<1>3. Report!Halved(n) \in Int /\ Report!Halved(n) + Report!Halved(n) - n \in -1..1
  BY DEF Report!Halved
<1>4. CASE h = 0
  BY <1>1, <1>2, <1>4
<1>5. CASE h = 1
  <2>1. n * h = n /\ n * (2 - h) = n
    BY <1>5
  <2>2. QED
    BY <1>3, <2>1
<1>6. CASE h = 2
  BY <1>1, <1>2, <1>6
<1>7. QED
  BY <1>4, <1>5, <1>6

LEMMA AdjustmentMakes ==
  ASSUME NEW row, row.total \in Int, NEW h \in 0..2
  PROVE  /\ Report!AdjustmentLines(row, h) \in LineList
         /\ Len(Report!AdjustmentLines(row, h)) = 3
         /\ LET f == Made(Report!AdjustmentLines(row, h)) IN
            /\ f \in [Report!Accounts -> Int]
            /\ SumOf(f, Report!Accounts) \in -1..1
            /\ f["payable"] = -row.total
            /\ \A a \in Report!Accounts \ {"payable", "inventory", "cogs"} : f[a] = 0
<1> DEFINE ls == Report!AdjustmentLines(row, h)
           goods == Report!Halved(row.total * h)
           sold == Report!Halved(row.total * (2 - h))
           f == [a \in Report!Accounts |->
                   CASE a = "payable" -> -row.total [] a = "inventory" -> goods
                     [] a = "cogs" -> sold [] OTHER -> 0]
<1>0. goods \in Int /\ sold \in Int /\ goods + sold - row.total \in -1..1
  BY HalvesFit
<1>1. /\ Len(ls) = 3
      /\ ls[1] = Report!Line("payable", -row.total)
      /\ ls[2] = Report!Line("inventory", goods)
      /\ ls[3] = Report!Line("cogs", sold)
  BY DEF Report!AdjustmentLines
<1>2. ls \in Seq(LineRecord)
  BY <1>0, AccountsAre DEF Report!AdjustmentLines, Report!Line, LineRecord
<1> HIDE DEF goods, sold
<1>3. f \in [Report!Accounts -> Int]
  BY <1>0
<1>4. /\ f["payable"] = -row.total /\ f["inventory"] = goods /\ f["cogs"] = sold
      /\ \A a \in Report!Accounts \ {"payable", "inventory", "cogs"} : f[a] = 0
  BY AccountsAre
<1> HIDE DEF ls, f
<1>5. \A i, j \in 1..Len(ls) : ls[i].account = ls[j].account => i = j
  BY <1>1 DEF Report!Line
<1>6. \A i \in 1..Len(ls) : f[ls[i].account] = ls[i].amount
  BY <1>1, <1>4 DEF Report!Line
<1>7. \A a \in Report!Accounts : f[a] # 0 => \E i \in 1..Len(ls) : ls[i].account = a
  BY <1>1, <1>4 DEF Report!Line
<1>8. Makes(ls, f)
  BY <1>2, <1>3, <1>5, <1>6, <1>7, LinesMake
<1>9. SumOf(f, Report!Accounts) = goods + sold - row.total
  BY <1>0, <1>3, <1>4, AccountsSum, AccountsAre
<1>10. QED
  BY <1>0, <1>1, <1>3, <1>4, <1>8, <1>9 DEF ls, Makes

LEMMA RowIs ==
  ASSUME LedgerTyped, NEW d \in Report!Docs, doc[d] # NoDoc
  PROVE  /\ doc[d] \in Report!DocRecord /\ d \in Report!Rows
         /\ PostedFrom(d).kind = doc[d].kind
         /\ doc[d].kind \in Report!Posted => PostedFrom(d) \in PostableRecord
BY DEF LedgerTyped, Report!Rows, PostedFrom, PostableRecord, AsofRecord, Report!DocRecord

LEMMA LinesAlike ==
  ASSUME NEW d, NEW row, d.kind \in Report!Posted,
         d.kind = row.kind, d.total = row.total, d.tax = row.tax, d.cost = row.cost,
         d.paid = row.paid, d.banked = row.banked
  PROVE  Report!Lines(d) = Report!Lines(row)
BY DEF Report!Posted, Report!Lines, Report!SaleLines, Report!SaleReturnLines,
       Report!CollectionLines, Report!PurchaseLines, Report!PurchaseReturnLines,
       Report!SupplierPaymentLines, Report!ExpenseLines, Report!Money

\* What a posting notes of its amounts.
LEMMA NotedIs ==
  ASSUME LedgerTyped, NEW d \in Report!Docs, doc[d] # NoDoc, NEW whole \in BOOLEAN
  PROVE  LET noted == Report!Noted(d, whole) IN
         /\ noted \in AsofRecord /\ noted.posted /\ noted.whole = whole
         /\ ~noted.mixed => /\ noted.total = doc[d].total /\ noted.tax = doc[d].tax
                            /\ noted.paid = doc[d].paid
                            /\ asof[d].posted => ~asof[d].mixed /\ asof[d].total = doc[d].total
                                 /\ asof[d].tax = doc[d].tax /\ asof[d].paid = doc[d].paid
         /\ ~asof[d].posted => /\ noted.total = doc[d].total
                               /\ noted.tax = doc[d].tax /\ noted.paid = doc[d].paid
         /\ asof[d].posted => /\ noted.total = asof[d].total /\ noted.tax = asof[d].tax
                              /\ noted.paid = asof[d].paid
<1>1. asof[d] \in AsofRecord /\ doc[d] \in Report!DocRecord
  BY RowIs DEF LedgerTyped
<1>2. doc[d].total \in Int /\ doc[d].tax \in Int /\ doc[d].paid \in Int
  BY <1>1 DEF Report!DocRecord
<1>3. CASE asof[d].posted
  BY <1>1, <1>2, <1>3 DEF Report!Noted, AsofRecord
<1>4. CASE ~asof[d].posted
  BY <1>1, <1>2, <1>4 DEF Report!Noted, AsofRecord
<1>5. QED
  BY <1>3, <1>4

Returns == {"sale_return", "purchase_return"}

\* A row keeps what its lines are made of besides its amounts.
SameEntry(x) ==
  /\ doc'[x] # NoDoc /\ doc'[x].kind = doc[x].kind
  /\ doc'[x].cost = doc[x].cost /\ doc'[x].banked = doc[x].banked
  /\ doc[x].kind \in Returns => doc'[x].total = doc[x].total /\ doc'[x].tax = doc[x].tax

LEMMA EntryRests ==
  ASSUME NEW x \in Report!Docs, EntryInv(x), ledger'[x] = ledger[x], asof'[x] = asof[x],
         doc[x] # NoDoc => SameEntry(x),
         doc[x] = NoDoc /\ doc'[x] # NoDoc /\ doc'[x].kind \in Returns => doc'[x].tax <= doc'[x].total,
         x \in direct' => x \in direct \/ doc[x] = NoDoc
  PROVE  EntryInv(x)'
<1>1. x \in Report!Rows => PostedFrom(x)' = PostedFrom(x)
  BY DEF SameEntry, PostedFrom, Report!Rows
<1>2. \A kinds : x \in Report!Rows => (x \in Report!Of(kinds)' <=> x \in Report!Of(kinds))
  BY DEF SameEntry, Report!Of, Report!Rows
<1>3. CASE x \in Report!Rows
  <2>1. x \in Report!Rows' /\ (x \in direct' => x \in direct)
    BY <1>3 DEF SameEntry, Report!Rows
  <2>2. LinesOf(x) => LinesOf(x)'
    BY <1>1, <1>3 DEF LinesOf
  <2>3. x \in Report!Of(Returns) => doc'[x].total = doc[x].total /\ doc'[x].tax = doc[x].tax
    BY <1>3 DEF SameEntry, Report!Of, Report!Rows
  <2>4. QED
    BY <1>1, <1>2, <1>3, <2>1, <2>2, <2>3 DEF EntryInv, Returns
<1>4. CASE x \notin Report!Rows
  <2>1. /\ ~asof[x].posted /\ ledger[x] = Report!Unwritten /\ ~asof[x].whole
        /\ Report!Unwritten' = Report!Unwritten
    BY <1>4 DEF EntryInv, Report!Unwritten, Report!Accounts, Report!Assets,
                Report!Liabilities, Report!Revenues, Report!Costs
  <2>2. x \in Report!Of(Returns)' => doc'[x].tax <= doc'[x].total
    BY <1>4 DEF Report!Rows, Report!Of
  <2>3. QED
    BY <1>4, <2>1, <2>2 DEF EntryInv, Returns
<1>5. QED
  BY <1>3, <1>4

LEMMA FreshIs ==
  ASSUME LedgerTyped, NEW d, Report!Fresh(d)
  PROVE  /\ d \in Report!Docs => doc[d] = NoDoc /\ d \notin Report!Rows
         /\ \E n \in 0 .. MaxDocs : Report!Rows = 1 .. n /\ d = n + 1
<1>1. PICK n \in 0 .. MaxDocs : Report!Rows = 1 .. n
  BY DEF LedgerTyped, RowsInOrder
<1>2. n \in Nat
  BY OfficeConstants DEF Report!LedgerConstants
<1>3. Cardinality(1 .. n) = n
  BY <1>2, FS_Interval
<1>4. d = n + 1
  BY <1>1, <1>3, SameCardinality DEF Report!Fresh
<1>5. d \notin Report!Rows
  BY <1>1, <1>2, <1>4
<1>6. QED
  BY <1>1, <1>4, <1>5 DEF Report!Rows

LEMMA DocsChange ==
  ASSUME EntriesInv, UNCHANGED <<side, ledger, asof, stops>>,
         doc' \in [Report!Docs -> Report!DocRecord \cup {NoDoc}],
         \A x \in Report!Docs : doc[x] # NoDoc => SameEntry(x),
         \A x \in Report!Docs : doc[x] = NoDoc /\ doc'[x] # NoDoc =>
           /\ Report!Fresh(x)
           /\ doc'[x].kind \in Returns => doc'[x].tax <= doc'[x].total,
         \A x \in due' \ due : x \in Report!Docs /\ doc'[x] # NoDoc /\ doc'[x].kind \in Report!Posted,
         \A x \in direct' \ direct :
           x \in Report!Docs /\ doc[x] = NoDoc /\ doc'[x] # NoDoc /\ doc'[x].kind = "adjustment"
  PROVE  EntriesInv'
<1>1. LedgerTyped
  BY DEF EntriesInv
<1>2. Report!Rows \subseteq Report!Docs /\ Report!Rows' \subseteq Report!Docs
  BY DEF Report!Rows, Report!Docs
<1>3. RowsInOrder'
  <2>1. CASE \E x \in Report!Docs : doc[x] = NoDoc /\ doc'[x] # NoDoc
    <3>1. PICK d \in Report!Docs : doc[d] = NoDoc /\ doc'[d] # NoDoc
      BY <2>1
    <3>2. PICK n \in 0 .. MaxDocs : Report!Rows = 1 .. n /\ d = n + 1
      BY <1>1, <3>1, FreshIs
    <3>3. Report!Rows' = Report!Rows \cup {d}
      BY <1>1, <3>1, <3>2, FreshIs DEF Report!Rows, SameEntry, Report!Docs
    <3>4. n \in Nat /\ n + 1 \in 0 .. MaxDocs /\ 1 .. (n + 1) = (1 .. n) \cup {n + 1}
      BY <3>1, <3>2, OfficeConstants DEF Report!LedgerConstants, Report!Docs
    <3>5. Report!Rows' = 1 .. (n + 1)
      BY <3>2, <3>3, <3>4
    <3>6. QED
      BY <3>4, <3>5 DEF RowsInOrder
  <2>2. CASE ~ \E x \in Report!Docs : doc[x] = NoDoc /\ doc'[x] # NoDoc
    <3>1. Report!Rows' = Report!Rows
      BY <2>2 DEF Report!Rows, SameEntry, Report!Docs
    <3>2. QED
      BY <1>1, <3>1 DEF LedgerTyped, RowsInOrder
  <2>3. QED
    BY <2>1, <2>2
<1>4. \A kinds : Report!Of(kinds) \subseteq Report!Of(kinds)'
  BY DEF Report!Of, Report!Rows, SameEntry, Report!Docs
<1>5. due' \subseteq Report!Of(Report!Posted)'
  BY <1>1, <1>4 DEF LedgerTyped, Report!Of, Report!Rows, Report!Docs, Report!Posted
<1>6. direct' \subseteq Report!Of({"adjustment"})'
  BY <1>1, <1>4 DEF LedgerTyped, Report!Of, Report!Rows, Report!Docs
<1>7. /\ Report!Accounts' = Report!Accounts /\ Report!Docs' = Report!Docs
      /\ Report!DocRecord' = Report!DocRecord /\ AsofRecord' = AsofRecord
  BY DEF Report!Accounts, Report!Docs, Report!DocRecord, AsofRecord, Report!Posted,
         Report!Assets, Report!Liabilities, Report!Revenues, Report!Costs
<1>8. LedgerTyped'
  BY <1>1, <1>3, <1>5, <1>6, <1>7 DEF LedgerTyped
<1>9. ASSUME NEW x \in Report!Docs PROVE EntryInv(x)'
  BY EntryRests DEF EntriesInv
<1>10. QED
  BY <1>7, <1>8, <1>9 DEF EntriesInv

LEMMA LinesListed ==
  ASSUME LedgerTyped, NEW d \in Report!Of(Report!Posted)
  PROVE  Report!Lines(doc[d]) \in LineList
<1> DEFINE row == [kind |-> doc[d].kind, cost |-> doc[d].cost, banked |-> doc[d].banked,
                   total |-> doc[d].total, tax |-> doc[d].tax, paid |-> doc[d].paid]
<1>1. doc[d] \in Report!DocRecord /\ doc[d].kind \in Report!Posted
  BY RowIs DEF Report!Of, Report!Rows
<1>2. row \in PostableRecord
  BY <1>1 DEF PostableRecord, Report!DocRecord
<1>3. Report!Lines(doc[d]) = Report!Lines(row)
  BY <1>1, LinesAlike
<1>4. QED
  BY <1>2, <1>3, LinesMakeAmounts DEF Makes

LEMMA InsertTyped ==
  ASSUME NEW ls \in LineList, NEW k \in 0..Len(ls), NEW w \in [Report!Accounts -> Int]
  PROVE  Report!Insert(w, SubSeq(ls, 1, k)) \in [Report!Accounts -> Int]
<1> DEFINE got == Report!Insert(w, SubSeq(ls, 1, k))
<1>1. got = [a \in Report!Accounts |-> got[a]]
  BY InsertFills
<1>2. \A a \in Report!Accounts : got[a] \in Int
  BY InsertIs
<1> HIDE DEF got
<1>3. got \in [Report!Accounts -> Int]
  BY <1>1, <1>2
<1>4. QED
  BY <1>3 DEF got

\* What a posting of d leaves alone.
LEMMA OthersEntries ==
  ASSUME EntriesInv, NEW d \in Report!Docs, UNCHANGED <<side, doc>>,
         due' \subseteq due, direct' \subseteq direct, stops' \in Nat,
         NEW written \in [Report!Accounts -> Int], NEW noted \in AsofRecord,
         ledger' = [ledger EXCEPT ![d] = written], asof' = [asof EXCEPT ![d] = noted]
  PROVE  /\ LedgerTyped'
         /\ \A x \in Report!Docs \ {d} : EntryInv(x)'
         /\ ledger'[d] = written /\ asof'[d] = noted
<1>1. LedgerTyped
  BY DEF EntriesInv
<1>2. /\ Report!Accounts' = Report!Accounts /\ Report!Docs' = Report!Docs
      /\ Report!DocRecord' = Report!DocRecord /\ AsofRecord' = AsofRecord
      /\ Report!Rows' = Report!Rows /\ Report!Posted' = Report!Posted
      /\ \A kinds : Report!Of(kinds)' = Report!Of(kinds)
  BY DEF Report!Accounts, Report!Docs, Report!DocRecord, AsofRecord, Report!Posted,
         Report!Assets, Report!Liabilities, Report!Revenues, Report!Costs, Report!Rows,
         Report!Of
<1>3. /\ ledger' \in [Report!Docs -> [Report!Accounts -> Int]]
      /\ asof' \in [Report!Docs -> AsofRecord]
      /\ ledger'[d] = written /\ asof'[d] = noted
      /\ \A x \in Report!Docs \ {d} : ledger'[x] = ledger[x] /\ asof'[x] = asof[x]
  BY <1>1 DEF LedgerTyped
<1>4. LedgerTyped'
  BY <1>1, <1>2, <1>3 DEF LedgerTyped, RowsInOrder
<1>5. ASSUME NEW x \in Report!Docs \ {d}
      PROVE  EntryInv(x)'
  <2>1. doc[x] # NoDoc => SameEntry(x)
    BY DEF SameEntry
  <2>2. EntryInv(x)
    BY DEF EntriesInv
  <2>3. QED
    BY <1>3, <2>1, <2>2, EntryRests
<1>6. QED
  BY <1>3, <1>4, <1>5

\* A walk inserts the first k lines of d, all of them if it posts it whole.
LEMMA WalkPosts ==
  ASSUME EntriesInv, NEW d \in Report!Docs, d \in due, NEW whole \in BOOLEAN,
         NEW k \in 0..Len(Report!Lines(doc[d])), whole => k = Len(Report!Lines(doc[d])),
         ledger' = [ledger EXCEPT ![d] = Report!Insert(@, SubSeq(Report!Lines(doc[d]), 1, k))],
         asof' = [asof EXCEPT ![d] = Report!Noted(d, whole)],
         due' \subseteq due, stops' \in Nat, UNCHANGED <<side, doc, direct>>
  PROVE  EntriesInv'
<1> DEFINE ls == Report!Lines(doc[d])
           got == Report!Insert(ledger[d], SubSeq(ls, 1, k))
           noted == Report!Noted(d, whole)
<1>1. LedgerTyped /\ EntryInv(d) /\ ledger[d] \in [Report!Accounts -> Int]
  BY DEF EntriesInv, LedgerTyped
<1>2. /\ d \in Report!Of(Report!Posted) /\ doc[d] # NoDoc /\ doc[d].kind \in Report!Posted
      /\ d \notin direct /\ d \in Report!Rows
  <2>1. d \in Report!Of(Report!Posted)
    BY <1>1 DEF LedgerTyped
  <2>2. direct \subseteq Report!Of({"adjustment"})
    BY <1>1 DEF LedgerTyped
  <2>3. QED
    BY <2>1, <2>2 DEF Report!Of, Report!Rows, Report!Posted
<1>3. ls \in LineList
  BY <1>1, <1>2, LinesListed
<1>4. got \in [Report!Accounts -> Int]
  BY <1>1, <1>3, InsertTyped
<1>5. /\ noted \in AsofRecord /\ noted.posted /\ noted.whole = whole
      /\ ~noted.mixed => /\ noted.total = doc[d].total /\ noted.tax = doc[d].tax
                         /\ noted.paid = doc[d].paid
                         /\ asof[d].posted => ~asof[d].mixed /\ asof[d].total = doc[d].total
                              /\ asof[d].tax = doc[d].tax /\ asof[d].paid = doc[d].paid
      /\ ~asof[d].posted => /\ noted.total = doc[d].total
                            /\ noted.tax = doc[d].tax /\ noted.paid = doc[d].paid
      /\ asof[d].posted => /\ noted.total = asof[d].total /\ noted.tax = asof[d].tax
                           /\ noted.paid = asof[d].paid
  BY <1>1, <1>2, NotedIs
<1>6. ledger' = [ledger EXCEPT ![d] = got] /\ asof' = [asof EXCEPT ![d] = noted]
  BY <1>1 DEF LedgerTyped
<1> HIDE DEF ls, got, noted
<1>7. /\ LedgerTyped'
      /\ \A x \in Report!Docs \ {d} : EntryInv(x)'
      /\ ledger'[d] = got /\ asof'[d] = noted
  <2>1. UNCHANGED <<side, doc>> /\ direct' \subseteq direct
    OBVIOUS
  <2>2. noted \in AsofRecord
    BY <1>5
  <2>3. QED
    BY <1>4, <1>6, <2>1, <2>2, OthersEntries
<1>8. ~noted.mixed => LinesOf(d)'
  <2> SUFFICES ASSUME ~noted.mixed PROVE LinesOf(d)'
    OBVIOUS
  <2>1. Report!Lines(PostedFrom(d)') = ls
    BY <1>2, <1>5, <1>7, LinesAlike DEF PostedFrom, ls
  <2>2. \A a \in Report!Accounts : ledger[d][a] \in {0, Made(ls)[a]}
    <3>1. CASE asof[d].posted
      <4>1. Report!Lines(PostedFrom(d)) = ls
        BY <1>2, <1>5, <3>1, LinesAlike DEF PostedFrom, ls
      <4>2. LinesOf(d)
        BY <1>1, <1>2, <1>5, <3>1 DEF EntryInv
      <4>3. QED
        BY <4>1, <4>2 DEF LinesOf
    <3>2. CASE ~asof[d].posted
      BY <1>1, <3>2 DEF EntryInv, Report!Unwritten
    <3>3. QED
      BY <3>1, <3>2
  <2>3. /\ \A a \in Report!Accounts : got[a] \in {0, Made(ls)[a]}
        /\ k = Len(ls) => got = Made(ls)
    BY <1>1, <1>3, <2>2, InsertAdds DEF got, ls
  <2>4. Report!Lines(PostedFrom(d))' = ls /\ Made(Report!Lines(PostedFrom(d)))' = Made(ls)
    BY <2>1
  <2>5. QED
    BY <1>5, <1>7, <2>3, <2>4 DEF LinesOf, ls
<1>9. EntryInv(d)'
  <2>1. ~(d \in Report!Of({"void"})') /\ ~(d \in Report!Of({"adjustment"})') /\ (d \in Report!Rows)'
    BY <1>2 DEF Report!Of, Report!Rows, Report!Posted
  <2>2. d \in Report!Of(Returns)' => d \in Report!Of(Returns)
    BY DEF Report!Of, Report!Rows, Returns
  <2>3. d \in Report!Of(Returns) => /\ doc[d].tax <= doc[d].total
                                    /\ asof'[d].tax <= asof'[d].total
    BY <1>1, <1>5, <1>7 DEF EntryInv, Returns
  <2>4. QED
    BY <1>2, <1>5, <1>7, <1>8, <2>1, <2>2, <2>3 DEF EntryInv, Returns
<1>10. QED
  BY <1>7, <1>9 DEF EntriesInv, Report!Docs

LEMMA PairBounds ==
  ASSUME NEW m \in Int, NEW n \in Int
  PROVE  /\ Report!Min({m, n}) \in {m, n} /\ Report!Max({m, n}) \in {m, n}
         /\ Report!Min({m, n}) <= m /\ Report!Min({m, n}) <= n
         /\ Report!Max({m, n}) >= m /\ Report!Max({m, n}) >= n
<1>1. \E x \in {m, n} : \A y \in {m, n} : x <= y
  OBVIOUS
<1>2. \E x \in {m, n} : \A y \in {m, n} : x >= y
  OBVIOUS
<1>3. QED
  BY <1>1, <1>2 DEF Report!Min, Report!Max

LEMMA AdjustmentPosts ==
  ASSUME EntriesInv, NEW d \in Report!Docs, NEW k, NEW h \in 0..2,
         Report!PostAdjustment(d, k, h)
  PROVE  EntriesInv'
<1> DEFINE ls == Report!AdjustmentLines(doc[d], h)
           got == Report!Insert(ledger[d], SubSeq(ls, 1, k))
           whole == (k = Len(ls))
           noted == Report!Noted(d, whole)
<1>1. LedgerTyped /\ EntryInv(d) /\ ledger[d] \in [Report!Accounts -> Int]
  BY DEF EntriesInv, LedgerTyped
<1>2. /\ doc[d] # NoDoc /\ doc[d].kind = "adjustment" /\ doc[d].total \in Int
      /\ d \in direct /\ d \in Report!Of({"adjustment"})
      /\ ~asof[d].posted /\ ledger[d] = Report!Unwritten
  <2>1. d \in Report!Of({"adjustment"})
    BY <1>1 DEF LedgerTyped, Report!PostAdjustment
  <2>2. doc[d] \in Report!DocRecord
    BY <1>1, <2>1, RowIs DEF Report!Of, Report!Rows
  <2>3. QED
    BY <1>1, <2>1, <2>2
       DEF Report!Of, Report!Rows, Report!DocRecord, EntryInv, Report!PostAdjustment
<1>3. ls \in LineList /\ Len(ls) = 3 /\ k \in 0..Len(ls)
  BY <1>2, AdjustmentMakes DEF Report!PostAdjustment
<1>4. got \in [Report!Accounts -> Int]
  BY <1>1, <1>3, InsertTyped
<1>5. /\ noted \in AsofRecord /\ noted.whole = whole /\ noted.posted
      /\ noted.total = doc[d].total
  BY <1>1, <1>2, NotedIs
<1>6. /\ ledger' = [ledger EXCEPT ![d] = got] /\ asof' = [asof EXCEPT ![d] = noted]
      /\ side' = side /\ doc' = doc /\ due' = due /\ direct' = direct \ {d} /\ stops' \in Nat
  BY <1>1, <1>3 DEF LedgerTyped, Report!PostAdjustment
<1> HIDE DEF ls, got, noted
<1>7. /\ LedgerTyped'
      /\ \A x \in Report!Docs \ {d} : EntryInv(x)'
      /\ ledger'[d] = got /\ asof'[d] = noted
  <2>1. UNCHANGED <<side, doc>> /\ direct' \subseteq direct /\ due' \subseteq due
    BY <1>6
  <2>2. noted \in AsofRecord
    BY <1>5
  <2>3. QED
    BY <1>4, <1>6, <2>1, <2>2, OthersEntries
<1>8. whole => got = Made(Report!AdjustmentLines(PostedFrom(d)', h))
  <2> SUFFICES ASSUME whole PROVE got = Made(Report!AdjustmentLines(PostedFrom(d)', h))
    OBVIOUS
  <2>1. got = Made(ls)
    BY <1>2, <1>3, InsertAll DEF got, Made
  <2>2. PostedFrom(d)'.total = doc[d].total
    BY <1>5, <1>7 DEF PostedFrom
  <2>3. Report!AdjustmentLines(PostedFrom(d)', h) = ls
    BY <2>2 DEF ls, Report!AdjustmentLines
  <2>4. QED
    BY <2>1, <2>3
<1>9. EntryInv(d)'
  <2>1. (d \in Report!Rows)' /\ ~(d \in direct)' /\ ~(d \in Report!Of({"void"}))'
    BY <1>2, <1>6 DEF Report!Of, Report!Rows
  <2>2. ~(d \in Report!Of(Report!Posted))' /\ ~(d \in Report!Of(Returns))'
    BY <1>2, <1>6 DEF Report!Of, Report!Rows, Report!Posted, Returns
  <2>3. asof'[d].whole => \E i \in 0..2 : ledger'[d] = Made(Report!AdjustmentLines(PostedFrom(d)', i))
    BY <1>5, <1>7, <1>8
  <2>4. asof'[d].whole => \E i \in 0..2 : ledger'[d] = Made(Report!AdjustmentLines(PostedFrom(d), i))'
    BY <2>3
  <2>5. QED
    BY <1>5, <1>7, <2>1, <2>2, <2>4 DEF EntryInv, Returns
<1>10. QED
  BY <1>7, <1>9 DEF EntriesInv, Report!Docs

----------------------------------------------------------------------------
(* What the services of the documents do to the rows.                      *)

\* What was paid of a sale after its creation, less what collections and refund invoices
\* say that they paid or took back; likewise of a purchase and payments, and of what
\* adjustments changed.  Each adds up to nothing.
SaleGap(row) ==
  IF row = NoDoc THEN 0
  ELSE CASE row.kind = "sale"       -> (IF row.total < 0 THEN 0 ELSE row.paid) - row.first
         [] row.kind = "collection" -> -row.paid
         [] OTHER                   -> 0
PurchaseGap(row) ==
  IF row = NoDoc THEN 0
  ELSE CASE row.kind = "purchase" -> row.paid - row.first
         [] row.kind = "payment"  -> -row.paid
         [] OTHER                 -> 0
AdjustedGap(row) ==
  IF row = NoDoc THEN 0
  ELSE CASE row.kind = "purchase"   -> row.adjusted
         [] row.kind = "adjustment" -> -row.total
         [] OTHER                   -> 0

SaleGaps     == [d \in Report!Docs |-> SaleGap(doc[d])]
PurchaseGaps == [d \in Report!Docs |-> PurchaseGap(doc[d])]
AdjustedGaps == [d \in Report!Docs |-> AdjustedGap(doc[d])]

Settled ==
  /\ SumOf(SaleGaps, Report!Docs) = 0
  /\ SumOf(PurchaseGaps, Report!Docs) = 0
  /\ SumOf(AdjustedGaps, Report!Docs) = 0

\* What a row can look like, and that only a purchase with adjustments is adjusted.
RowFits(row) ==
  /\ row.deleted => row.kind \in {"collection", "purchase"}
  /\ row.quick => row.kind = "sale" /\ row.total > 0
  /\ row.kind # "purchase" => row.adjusted = 0
  /\ row.kind = "void" => row.paid = 0
  /\ row.kind = "purchase" => row.tax <= row.total - row.adjusted
RowSound(d) == doc[d] # NoDoc =>
  /\ RowFits(doc[d])
  /\ doc[d].adjusted # 0 => \E a \in Report!Of({"adjustment"}) : doc[a].of = d

LedgerInv == EntriesInv /\ Settled /\ \A d \in Report!Docs : RowSound(d)

\* A row takes new amounts and nothing else of it that its lines are made of.
Amended(s, now) ==
  /\ s \in Report!Docs /\ doc[s] # NoDoc /\ now \in Report!DocRecord
  /\ now.kind = doc[s].kind /\ now.cost = doc[s].cost /\ now.banked = doc[s].banked
  /\ now.of = doc[s].of /\ RowFits(now)
  /\ doc[s].kind \in Returns => now.total = doc[s].total /\ now.tax = doc[s].tax

\* A row that may be created.
Creatable(row) ==
  /\ row \in Report!DocRecord /\ RowFits(row) /\ row.adjusted = 0
  /\ row.kind \in Returns => row.tax <= row.total

\* Two rows settle what one did.
Settles(row, now, was) ==
  /\ SaleGap(row) + SaleGap(now) = SaleGap(was)
  /\ PurchaseGap(row) + PurchaseGap(now) = PurchaseGap(was)
  /\ AdjustedGap(row) + AdjustedGap(now) = AdjustedGap(was)
SameGaps(row, was) ==
  SaleGap(row) = SaleGap(was) /\ PurchaseGap(row) = PurchaseGap(was)
  /\ AdjustedGap(row) = AdjustedGap(was)

\* The queues take a new row: the outbox one that it posts, a direct posting an adjustment.
Queued(d, row) ==
  /\ due' \subseteq due \cup IF row.kind \in Report!Posted THEN {d} ELSE {}
  /\ direct' \subseteq direct \cup IF row.kind = "adjustment" THEN {d} ELSE {}

LEMMA DocRecordIs == ASSUME NEW row \in Report!DocRecord PROVE row # NoDoc
BY OfficeConstants DEF Report!LedgerConstants

LEMMA DocsFinite == IsFiniteSet(Report!Docs)
BY OfficeConstants, FS_Interval DEF Report!LedgerConstants, Report!Docs

LEMMA GapsTyped ==
  ASSUME NEW row \in Report!DocRecord \cup {NoDoc}
  PROVE  SaleGap(row) \in Int /\ PurchaseGap(row) \in Int /\ AdjustedGap(row) \in Int
<1>1. CASE row = NoDoc
  BY <1>1 DEF SaleGap, PurchaseGap, AdjustedGap
<1>2. CASE row # NoDoc
  <2>1. /\ row.total \in Int /\ row.paid \in Int /\ row.first \in Int /\ row.adjusted \in Int
    BY <1>2 DEF Report!DocRecord
  <2>2. QED
    BY <1>2, <2>1 DEF SaleGap, PurchaseGap, AdjustedGap
<1>3. QED
  BY <1>1, <1>2

LEMMA PairSum ==
  ASSUME NEW f \in [Report!Docs -> Int], NEW g \in [Report!Docs -> Int],
         NEW d \in Report!Docs, NEW s \in Report!Docs, d # s,
         \A x \in Report!Docs \ {d, s} : g[x] = f[x], g[d] + g[s] = f[d] + f[s]
  PROVE  SumOf(g, Report!Docs) = SumOf(f, Report!Docs)
<1> DEFINE h == [f EXCEPT ![d] = g[d]]
<1>1. /\ \A x \in Report!Docs : f[x] \in Int /\ h[x] \in Int /\ g[x] \in Int
      /\ \A x \in Report!Docs \ {d} : f[x] = h[x]
      /\ \A x \in Report!Docs \ {s} : h[x] = g[x]
      /\ h[d] = g[d] /\ h[s] = f[s]
  OBVIOUS
<1> HIDE DEF h
<1>2. SumOf(h, Report!Docs) = SumOf(f, Report!Docs) + h[d] - f[d]
  BY <1>1, DocsFinite, SumChange
<1>3. SumOf(g, Report!Docs) = SumOf(h, Report!Docs) + g[s] - h[s]
  BY <1>1, DocsFinite, SumChange
<1>4. SumOf(f, Report!Docs) \in Int
  BY <1>1, DocsFinite, SumType
<1>5. f[d] \in Int /\ f[s] \in Int /\ g[d] \in Int /\ g[s] \in Int
  BY <1>1
<1>6. QED
  BY <1>1, <1>2, <1>3, <1>4, <1>5

LEMMA SettledStays ==
  ASSUME Settled, doc \in [Report!Docs -> Report!DocRecord \cup {NoDoc}],
         doc' \in [Report!Docs -> Report!DocRecord \cup {NoDoc}],
         \/ \A x \in Report!Docs : SameGaps(doc'[x], doc[x])
         \/ \E d, s \in Report!Docs :
              /\ d # s /\ doc[d] = NoDoc /\ Settles(doc'[d], doc'[s], doc[s])
              /\ \A x \in Report!Docs \ {d, s} : doc'[x] = doc[x]
  PROVE  Settled'
<1>1. /\ SaleGaps \in [Report!Docs -> Int] /\ SaleGaps' \in [Report!Docs -> Int]
      /\ PurchaseGaps \in [Report!Docs -> Int] /\ PurchaseGaps' \in [Report!Docs -> Int]
      /\ AdjustedGaps \in [Report!Docs -> Int] /\ AdjustedGaps' \in [Report!Docs -> Int]
  BY GapsTyped DEF SaleGaps, PurchaseGaps, AdjustedGaps, Report!Docs
<1>2. \A x \in Report!Docs :
         /\ SaleGaps[x] = SaleGap(doc[x]) /\ SaleGaps'[x] = SaleGap(doc'[x])
         /\ PurchaseGaps[x] = PurchaseGap(doc[x]) /\ PurchaseGaps'[x] = PurchaseGap(doc'[x])
         /\ AdjustedGaps[x] = AdjustedGap(doc[x]) /\ AdjustedGaps'[x] = AdjustedGap(doc'[x])
  BY DEF SaleGaps, PurchaseGaps, AdjustedGaps, Report!Docs
<1>3. CASE \A x \in Report!Docs : SameGaps(doc'[x], doc[x])
  <2>1. \A x \in Report!Docs : /\ SaleGaps'[x] = SaleGaps[x]
           /\ PurchaseGaps'[x] = PurchaseGaps[x] /\ AdjustedGaps'[x] = AdjustedGaps[x]
    BY <1>2, <1>3 DEF SameGaps
  <2>2. /\ SumOf(SaleGaps', Report!Docs) = SumOf(SaleGaps, Report!Docs)
        /\ SumOf(PurchaseGaps', Report!Docs) = SumOf(PurchaseGaps, Report!Docs)
        /\ SumOf(AdjustedGaps', Report!Docs) = SumOf(AdjustedGaps, Report!Docs)
    BY <2>1, DocsFinite, SumSame
  <2>3. QED
    BY <2>2 DEF Settled, Report!Docs
<1>4. ASSUME NEW d \in Report!Docs, NEW s \in Report!Docs, d # s, doc[d] = NoDoc,
             Settles(doc'[d], doc'[s], doc[s]),
             \A x \in Report!Docs \ {d, s} : doc'[x] = doc[x]
      PROVE  Settled'
  <2>1. SaleGap(doc[d]) = 0 /\ PurchaseGap(doc[d]) = 0 /\ AdjustedGap(doc[d]) = 0
    BY <1>4 DEF SaleGap, PurchaseGap, AdjustedGap
  <2>2. SumOf(SaleGaps', Report!Docs) = SumOf(SaleGaps, Report!Docs)
    <3>1. SaleGaps \in [Report!Docs -> Int] /\ SaleGaps' \in [Report!Docs -> Int]
      BY <1>1
    <3>2. SaleGaps'[d] + SaleGaps'[s] = SaleGaps[d] + SaleGaps[s]
      BY <1>2, <1>4, <2>1, <3>1 DEF Settles
    <3>3. \A x \in Report!Docs \ {d, s} : SaleGaps'[x] = SaleGaps[x]
      BY <1>2, <1>4
    <3>4. d # s
      BY <1>4
    <3>5. QED
      BY <3>1, <3>2, <3>3, <3>4, PairSum
  <2>3. SumOf(PurchaseGaps', Report!Docs) = SumOf(PurchaseGaps, Report!Docs)
    <3>1. PurchaseGaps \in [Report!Docs -> Int] /\ PurchaseGaps' \in [Report!Docs -> Int]
      BY <1>1
    <3>2. PurchaseGaps'[d] + PurchaseGaps'[s] = PurchaseGaps[d] + PurchaseGaps[s]
      BY <1>2, <1>4, <2>1, <3>1 DEF Settles
    <3>3. \A x \in Report!Docs \ {d, s} : PurchaseGaps'[x] = PurchaseGaps[x]
      BY <1>2, <1>4
    <3>4. d # s
      BY <1>4
    <3>5. QED
      BY <3>1, <3>2, <3>3, <3>4, PairSum
  <2>4. SumOf(AdjustedGaps', Report!Docs) = SumOf(AdjustedGaps, Report!Docs)
    <3>1. AdjustedGaps \in [Report!Docs -> Int] /\ AdjustedGaps' \in [Report!Docs -> Int]
      BY <1>1
    <3>2. AdjustedGaps'[d] + AdjustedGaps'[s] = AdjustedGaps[d] + AdjustedGaps[s]
      BY <1>2, <1>4, <2>1, <3>1 DEF Settles
    <3>3. \A x \in Report!Docs \ {d, s} : AdjustedGaps'[x] = AdjustedGaps[x]
      BY <1>2, <1>4
    <3>4. d # s
      BY <1>4
    <3>5. QED
      BY <3>1, <3>2, <3>3, <3>4, PairSum
  <2>5. QED
    BY <2>2, <2>3, <2>4 DEF Settled, Report!Docs
<1>5. QED
  BY <1>3, <1>4

LEMMA RowsStay ==
  ASSUME \A x \in Report!Docs : RowSound(x), NEW d \in Report!Docs,
         doc[d] = NoDoc => doc'[d] = NoDoc \/ Creatable(doc'[d]),
         \A x \in Report!Docs \ {d} : doc[x] = NoDoc => doc'[x] = NoDoc,
         \A x \in Report!Docs : doc[x] # NoDoc =>
           /\ doc'[x] # NoDoc /\ RowFits(doc'[x])
           /\ doc'[x].kind = doc[x].kind /\ doc'[x].of = doc[x].of
           /\ \/ doc'[x].adjusted = doc[x].adjusted
              \/ doc'[d] # NoDoc /\ doc'[d].kind = "adjustment" /\ doc'[d].of = x
  PROVE  \A x \in Report!Docs : RowSound(x)'
<1> SUFFICES ASSUME NEW x \in Report!Docs, doc'[x] # NoDoc PROVE RowSound(x)'
  BY DEF RowSound
<1>1. CASE doc[x] = NoDoc
  BY <1>1 DEF RowSound, Creatable
<1>2. CASE doc[x] # NoDoc
  <2>1. RowSound(x)
    OBVIOUS
  <2>2. CASE doc'[x].adjusted = doc[x].adjusted
    <3>1. ASSUME doc[x].adjusted # 0
          PROVE  \E a \in Report!Of({"adjustment"})' : doc'[a].of = x
      <4>1. PICK a \in Report!Of({"adjustment"}) : doc[a].of = x
        BY <1>2, <2>1, <3>1 DEF RowSound
      <4>2. a \in Report!Docs /\ doc[a] # NoDoc /\ doc[a].kind = "adjustment"
        BY DEF Report!Of, Report!Rows
      <4>3. a \in Report!Of({"adjustment"})'
        BY <4>2 DEF Report!Of, Report!Rows, Report!Docs
      <4>4. QED
        BY <4>1, <4>2, <4>3
    <3>2. QED
      BY <1>2, <2>2, <3>1 DEF RowSound
  <2>3. CASE doc'[d] # NoDoc /\ doc'[d].kind = "adjustment" /\ doc'[d].of = x
    <3>1. d \in Report!Of({"adjustment"})'
      BY <2>3 DEF Report!Of, Report!Rows, Report!Docs
    <3>2. QED
      BY <1>2, <2>3, <3>1 DEF RowSound
  <2>4. QED
    BY <1>2, <2>2, <2>3
<1>3. QED
  BY <1>1, <1>2

LEMMA RowAdded ==
  ASSUME LedgerInv, NEW d \in Report!Docs, Report!Fresh(d), NEW row, Creatable(row),
         SameGaps(row, NoDoc), doc' = [doc EXCEPT ![d] = row], Queued(d, row),
         UNCHANGED <<side, ledger, asof, stops>>
  PROVE  LedgerInv'
<1>1. LedgerTyped /\ doc[d] = NoDoc /\ row \in Report!DocRecord /\ row # NoDoc
  BY FreshIs, DocRecordIs DEF LedgerInv, EntriesInv, Creatable
<1>2. /\ doc' \in [Report!Docs -> Report!DocRecord \cup {NoDoc}]
      /\ doc'[d] = row /\ \A x \in Report!Docs \ {d} : doc'[x] = doc[x]
  BY <1>1 DEF LedgerTyped
<1>3. \A x \in Report!Docs : doc[x] # NoDoc => SameEntry(x)
  BY <1>1, <1>2 DEF SameEntry
<1>4. \A x \in Report!Docs : doc[x] = NoDoc /\ doc'[x] # NoDoc =>
         /\ Report!Fresh(x)
         /\ doc'[x].kind \in Returns => doc'[x].tax <= doc'[x].total
  BY <1>2 DEF Creatable
<1>5. /\ \A x \in due' \ due :
           x \in Report!Docs /\ doc'[x] # NoDoc /\ doc'[x].kind \in Report!Posted
      /\ \A x \in direct' \ direct :
           x \in Report!Docs /\ doc[x] = NoDoc /\ doc'[x] # NoDoc /\ doc'[x].kind = "adjustment"
  BY <1>1, <1>2 DEF Queued
<1>6. EntriesInv'
  BY <1>2, <1>3, <1>4, <1>5, DocsChange DEF LedgerInv
<1>7. Settled'
  <2>1. \A x \in Report!Docs : SameGaps(doc'[x], doc[x])
    BY <1>1, <1>2 DEF SameGaps
  <2>2. QED
    BY <1>1, <1>2, <2>1, SettledStays DEF LedgerInv, LedgerTyped
<1>8. \A x \in Report!Docs : RowSound(x)'
  <2>1. \A x \in Report!Docs : RowSound(x)
    BY DEF LedgerInv
  <2>2. \A x \in Report!Docs : doc[x] # NoDoc => doc'[x] = doc[x] /\ RowFits(doc[x])
    BY <1>1, <1>2, <2>1 DEF RowSound
  <2>3. \A x \in Report!Docs \ {d} : doc[x] = NoDoc => doc'[x] = NoDoc
    BY <1>2
  <2>4. QED
    BY <1>2, <2>1, <2>2, <2>3, RowsStay
<1>9. QED
  BY <1>6, <1>7, <1>8 DEF LedgerInv, Report!Docs

LEMMA RowAmended ==
  ASSUME LedgerInv, NEW s, NEW now, Amended(s, now), now.adjusted = doc[s].adjusted,
         SameGaps(now, doc[s]), doc' = [doc EXCEPT ![s] = now],
         UNCHANGED <<side, ledger, due, direct, asof, stops>>
  PROVE  LedgerInv'
<1>1. /\ LedgerTyped /\ now \in Report!DocRecord /\ now # NoDoc
      /\ s \in Report!Docs /\ doc[s] # NoDoc
  BY DocRecordIs DEF LedgerInv, EntriesInv, Amended
<1>2. /\ doc' \in [Report!Docs -> Report!DocRecord \cup {NoDoc}]
      /\ doc'[s] = now /\ \A x \in Report!Docs \ {s} : doc'[x] = doc[x]
  BY <1>1 DEF LedgerTyped
<1>3. \A x \in Report!Docs : doc[x] # NoDoc => SameEntry(x)
  BY <1>1, <1>2 DEF SameEntry, Amended
<1>4. \A x \in Report!Docs : doc[x] = NoDoc => doc'[x] = NoDoc
  BY <1>1, <1>2
<1>5. due' = due /\ direct' = direct /\ UNCHANGED <<side, ledger, asof, stops>>
  OBVIOUS
<1>6. EntriesInv'
  BY <1>2, <1>3, <1>4, <1>5, DocsChange DEF LedgerInv
<1>7. Settled'
  <2>1. \A x \in Report!Docs : SameGaps(doc'[x], doc[x])
    BY <1>1, <1>2 DEF SameGaps
  <2>2. QED
    BY <1>1, <1>2, <2>1, SettledStays DEF LedgerInv, LedgerTyped
<1>8. \A x \in Report!Docs : RowSound(x)'
  <2>1. \A x \in Report!Docs : RowSound(x)
    BY DEF LedgerInv
  <2>2. \A x \in Report!Docs : doc[x] # NoDoc =>
          /\ doc'[x] # NoDoc /\ RowFits(doc'[x]) /\ doc'[x].kind = doc[x].kind
          /\ doc'[x].of = doc[x].of /\ doc'[x].adjusted = doc[x].adjusted
    BY <1>1, <1>2, <2>1 DEF RowSound, Amended
  <2>3. QED
    BY <1>1, <1>4, <2>1, <2>2, RowsStay
<1>9. QED
  BY <1>6, <1>7, <1>8 DEF LedgerInv, Report!Docs

LEMMA RowAddedTo ==
  ASSUME LedgerInv, NEW d \in Report!Docs, Report!Fresh(d), NEW row, Creatable(row),
         NEW s, NEW now, Amended(s, now), Settles(row, now, doc[s]),
         now.adjusted = doc[s].adjusted \/ (row.kind = "adjustment" /\ row.of = s),
         doc' = [doc EXCEPT ![d] = row, ![s] = now], Queued(d, row),
         UNCHANGED <<side, ledger, asof, stops>>
  PROVE  LedgerInv'
<1>1. /\ LedgerTyped /\ doc[d] = NoDoc /\ row \in Report!DocRecord /\ row # NoDoc
      /\ now \in Report!DocRecord /\ now # NoDoc /\ s \in Report!Docs /\ doc[s] # NoDoc
      /\ d # s
  BY FreshIs, DocRecordIs DEF LedgerInv, EntriesInv, Creatable, Amended
<1>2. /\ doc' \in [Report!Docs -> Report!DocRecord \cup {NoDoc}]
      /\ doc'[d] = row /\ doc'[s] = now
      /\ \A x \in Report!Docs \ {d, s} : doc'[x] = doc[x]
  BY <1>1 DEF LedgerTyped
<1>3. \A x \in Report!Docs : doc[x] # NoDoc => SameEntry(x)
  BY <1>1, <1>2 DEF SameEntry, Amended
<1>4. \A x \in Report!Docs : doc[x] = NoDoc /\ doc'[x] # NoDoc =>
         /\ Report!Fresh(x)
         /\ doc'[x].kind \in Returns => doc'[x].tax <= doc'[x].total
  BY <1>1, <1>2 DEF Creatable
<1>5. /\ \A x \in due' \ due :
           x \in Report!Docs /\ doc'[x] # NoDoc /\ doc'[x].kind \in Report!Posted
      /\ \A x \in direct' \ direct :
           x \in Report!Docs /\ doc[x] = NoDoc /\ doc'[x] # NoDoc /\ doc'[x].kind = "adjustment"
  BY <1>1, <1>2 DEF Queued
<1>6. EntriesInv'
  BY <1>2, <1>3, <1>4, <1>5, DocsChange DEF LedgerInv
<1>7. Settled'
  BY <1>1, <1>2, SettledStays DEF LedgerInv, LedgerTyped
<1>8. \A x \in Report!Docs : RowSound(x)'
  <2>1. \A x \in Report!Docs : RowSound(x)
    BY DEF LedgerInv
  <2>2. \A x \in Report!Docs : doc[x] # NoDoc =>
          /\ doc'[x] # NoDoc /\ RowFits(doc'[x])
          /\ doc'[x].kind = doc[x].kind /\ doc'[x].of = doc[x].of
          /\ \/ doc'[x].adjusted = doc[x].adjusted
             \/ doc'[d] # NoDoc /\ doc'[d].kind = "adjustment" /\ doc'[d].of = x
    <3> SUFFICES ASSUME NEW x \in Report!Docs, doc[x] # NoDoc
                 PROVE  /\ doc'[x] # NoDoc /\ RowFits(doc'[x])
                        /\ doc'[x].kind = doc[x].kind /\ doc'[x].of = doc[x].of
                        /\ \/ doc'[x].adjusted = doc[x].adjusted
                           \/ doc'[d] # NoDoc /\ doc'[d].kind = "adjustment" /\ doc'[d].of = x
      OBVIOUS
    <3>1. CASE x = s
      BY <1>1, <1>2, <3>1 DEF Amended
    <3>2. CASE x # s
      BY <1>1, <1>2, <2>1, <3>2 DEF RowSound
    <3>3. QED
      BY <3>1, <3>2
  <2>3. \A x \in Report!Docs \ {d} : doc[x] = NoDoc => doc'[x] = NoDoc
    BY <1>1, <1>2
  <2>4. QED
    BY <1>2, <2>1, <2>2, <2>3, RowsStay
<1>9. QED
  BY <1>6, <1>7, <1>8 DEF LedgerInv, Report!Docs

\* A row as it is created, and what it settles.
Fields(row, kind, total, tax, got) ==
  /\ row \in Report!DocRecord /\ row.kind = kind /\ row.total = total /\ row.tax = tax
  /\ row.paid = got /\ row.first = got /\ row.adjusted = 0 /\ ~row.deleted
Created(row, kind, total, tax, got) == Fields(row, kind, total, tax, got) /\ ~row.quick

LEMMA RowOf ==
  ASSUME NEW kind \in Report!Posted \cup {"void", "adjustment"}, NEW total \in Int,
         NEW tax \in Int, NEW got \in Int
  PROVE  Created(Report!Row(kind, total, tax, got), kind, total, tax, got)
BY DEF Report!Row, Report!DocRecord, Created, Fields

LEMMA FieldsFit ==
  ASSUME NEW row, NEW kind, NEW total \in Int, NEW tax \in Int, NEW got \in Int,
         Fields(row, kind, total, tax, got), row.quick => kind = "sale" /\ total > 0,
         kind = "void" => got = 0, kind \in Returns \cup {"purchase"} => tax <= total
  PROVE  /\ Creatable(row)
         /\ SaleGap(row) = CASE kind = "sale"       -> IF total < 0 THEN -got ELSE 0
                             [] kind = "collection" -> -got
                             [] OTHER               -> 0
         /\ PurchaseGap(row) = IF kind = "payment" THEN -got ELSE 0
         /\ AdjustedGap(row) = IF kind = "adjustment" THEN -total ELSE 0
<1>1. row # NoDoc
  BY DocRecordIs DEF Fields
<1>2. Creatable(row)
  BY DEF Fields, Creatable, RowFits
<1>3. QED
  BY <1>1, <1>2 DEF Fields, SaleGap, PurchaseGap, AdjustedGap

LEMMA NoGap == SaleGap(NoDoc) = 0 /\ PurchaseGap(NoDoc) = 0 /\ AdjustedGap(NoDoc) = 0
BY DEF SaleGap, PurchaseGap, AdjustedGap

\* The rows of the documents found by Of and Kept.
LEMMA RowsFound ==
  ASSUME LedgerInv, NEW kinds, NEW s, s \in Report!Of(kinds) \/ s \in Report!Kept(kinds)
  PROVE  /\ s \in Report!Docs /\ doc[s] # NoDoc /\ doc[s] \in Report!DocRecord
         /\ doc[s].kind \in kinds
         /\ doc[s].total \in Int /\ doc[s].tax \in Int /\ doc[s].paid \in Int
         /\ doc[s].first \in Int /\ doc[s].cost \in Int /\ doc[s].adjusted \in Int
         /\ RowSound(s) /\ RowFits(doc[s])
<1>1. s \in Report!Of(kinds)
  BY DEF Report!Kept
<1>2. s \in Report!Docs /\ doc[s] # NoDoc /\ doc[s].kind \in kinds
  BY <1>1 DEF Report!Of, Report!Rows
<1>3. doc[s] \in Report!DocRecord
  BY <1>2, RowIs DEF LedgerInv, EntriesInv
<1>4. RowSound(s) /\ RowFits(doc[s])
  BY <1>2 DEF LedgerInv, RowSound
<1>5. QED
  BY <1>2, <1>3, <1>4 DEF Report!DocRecord

LEMMA SoldFound == ASSUME NEW s \in Report!Sold PROVE s \in Report!Of({"sale"}) /\ doc[s].total > 0
BY DEF Report!Sold

LEMMA AmountsFit ==
  /\ \A t \in Totals : t \in Int /\ t > 0
  /\ \A x \in Taxes : x \in Int /\ x >= 0
  /\ \A t \in Totals, x \in Taxes : x < t
BY OfficeConstants DEF Report!LedgerConstants

\* Each operation of the documents' services, and the postings.
LEMMA SalesKeep == ASSUME LedgerInv, NEW d \in Report!Docs, Report!SalesStep(d) PROVE LedgerInv'
<1>1. LedgerTyped
  BY DEF LedgerInv, EntriesInv
<1>2. ASSUME NEW t \in Totals, NEW x \in Taxes, NEW n \in 0..t, Report!CreateSale(d, t, x, n)
      PROVE  LedgerInv'
  <2> DEFINE row == Report!Row("sale", t, x, n)
  <2>1. Created(row, "sale", t, x, n) /\ t \in Int /\ x \in Int /\ n \in Int /\ t > 0
    BY AmountsFit, RowOf DEF Report!Posted
  <2>2. /\ doc' = [doc EXCEPT ![d] = row] /\ due' = due \cup {d} /\ Report!Fresh(d)
        /\ UNCHANGED <<side, ledger, direct, asof, stops>>
    BY <1>2 DEF Report!CreateSale, Report!New
  <2> HIDE DEF row
  <2>3. Creatable(row) /\ SameGaps(row, NoDoc)
    BY <2>1, FieldsFit, NoGap DEF Created, SameGaps, Returns
  <2>4. Queued(d, row)
    BY <2>1, <2>2 DEF Queued, Created, Fields, Report!Posted
  <2>5. QED
    BY <2>2, <2>3, <2>4, RowAdded
<1>3. ASSUME NEW t \in Totals, NEW x \in Taxes, Report!CreateQuickSale(d, t, x)
      PROVE  LedgerInv'
  <2> DEFINE plain == Report!Row("sale", t, x, 0)
             row == [plain EXCEPT !.quick = TRUE]
  <2>1. Created(plain, "sale", t, x, 0) /\ t \in Int /\ x \in Int /\ t > 0
    BY AmountsFit, RowOf DEF Report!Posted
  <2>2. /\ doc' = [doc EXCEPT ![d] = row] /\ due' = due \cup {d} /\ Report!Fresh(d)
        /\ UNCHANGED <<side, ledger, direct, asof, stops>>
    BY <1>3 DEF Report!CreateQuickSale, Report!New
  <2> HIDE DEF plain
  <2>3. Fields(row, "sale", t, x, 0)
    BY <2>1 DEF Created, Fields, Report!DocRecord
  <2> HIDE DEF row
  <2>4. Creatable(row) /\ SameGaps(row, NoDoc)
    BY <2>1, <2>3, FieldsFit, NoGap DEF SameGaps, Returns
  <2>5. Queued(d, row)
    BY <2>2, <2>3 DEF Queued, Fields, Report!Posted
  <2>6. QED
    BY <2>2, <2>4, <2>5, RowAdded
<1>4. ASSUME Report!MarkQuickSale(d)
      PROVE  LedgerInv'
  <2> DEFINE first == doc[d].first + doc[d].total - doc[d].paid
             now == [doc[d] EXCEPT !.quick = FALSE, !.paid = doc[d].total, !.first = first]
  <2>1. /\ doc[d] # NoDoc /\ doc[d] \in Report!DocRecord /\ doc[d].kind = "sale"
        /\ doc[d].total \in Int /\ doc[d].paid \in Int /\ doc[d].first \in Int
        /\ RowFits(doc[d]) /\ doc[d].quick
    <3>1. d \in Report!Of({"sale"}) /\ doc[d].quick
      BY <1>4 DEF Report!MarkQuickSale
    <3>2. QED
      BY <3>1, RowsFound
  <2>2. doc' = [doc EXCEPT ![d] = now] /\ UNCHANGED <<side, ledger, due, direct, asof, stops>>
    BY <1>1, <1>4 DEF Report!MarkQuickSale, LedgerTyped
  <2>3. first \in Int /\ doc[d].total - first = doc[d].paid - doc[d].first /\ doc[d].total > 0
    BY <2>1 DEF RowFits
  <2> HIDE DEF first
  <2>4. /\ now \in Report!DocRecord /\ now.kind = "sale" /\ ~now.quick
        /\ now.total = doc[d].total /\ now.paid = doc[d].total /\ now.first = first
        /\ now.adjusted = doc[d].adjusted /\ now.of = doc[d].of /\ now.cost = doc[d].cost
        /\ now.banked = doc[d].banked /\ now.deleted = doc[d].deleted
    BY <2>1, <2>3 DEF Report!DocRecord
  <2> HIDE DEF now
  <2>5. Amended(d, now)
    BY <2>1, <2>4 DEF Amended, Returns, RowFits
  <2>6. SameGaps(now, doc[d])
    BY <2>1, <2>3, <2>4, DocRecordIs DEF SameGaps, SaleGap, PurchaseGap, AdjustedGap
  <2>7. QED
    BY <2>2, <2>4, <2>5, <2>6, RowAmended
<1>5. ASSUME Report!DeleteCollection(d)
      PROVE  LedgerInv'
  <2> DEFINE now == [doc[d] EXCEPT !.deleted = TRUE]
  <2>1. /\ doc[d] # NoDoc /\ doc[d] \in Report!DocRecord /\ doc[d].kind = "collection"
        /\ RowFits(doc[d])
    <3>1. d \in Report!Kept({"collection"})
      BY <1>5 DEF Report!DeleteCollection
    <3>2. QED
      BY <3>1, RowsFound
  <2>2. doc' = [doc EXCEPT ![d] = now] /\ UNCHANGED <<side, ledger, due, direct, asof, stops>>
    BY <1>1, <1>5 DEF Report!DeleteCollection, LedgerTyped
  <2>3. /\ now \in Report!DocRecord /\ now.kind = "collection" /\ now.quick = doc[d].quick
        /\ now.total = doc[d].total /\ now.paid = doc[d].paid /\ now.first = doc[d].first
        /\ now.adjusted = doc[d].adjusted /\ now.of = doc[d].of /\ now.cost = doc[d].cost
        /\ now.banked = doc[d].banked
    BY <2>1 DEF Report!DocRecord
  <2> HIDE DEF now
  <2>4. Amended(d, now)
    BY <2>1, <2>3 DEF Amended, Returns, RowFits
  <2>5. SameGaps(now, doc[d])
    BY <2>1, <2>3, DocRecordIs DEF SameGaps, SaleGap, PurchaseGap, AdjustedGap
  <2>6. QED
    BY <2>2, <2>3, <2>4, <2>5, RowAmended
<1>6. ASSUME NEW s \in Report!Docs, NEW n \in Totals, NEW b \in BOOLEAN,
             Report!CreateCollection(d, s, n, b)
      PROVE  LedgerInv'
  <2> DEFINE open == Report!AtLeastZero(doc[s].total - doc[s].paid)
             applied == Report!Min({n, open})
             plain == Report!Row("collection", n, 0, applied)
             row == [plain EXCEPT !.of = s, !.banked = b]
             more == doc[s].paid + applied
             now == [doc[s] EXCEPT !.paid = more]
  <2>1. /\ doc[s] # NoDoc /\ doc[s] \in Report!DocRecord /\ doc[s].kind = "sale"
        /\ doc[s].total \in Int /\ doc[s].paid \in Int /\ doc[s].first \in Int
        /\ doc[s].total > 0 /\ RowFits(doc[s])
    <3>1. s \in Report!Of({"sale"}) /\ doc[s].total > 0
      BY <1>6, SoldFound DEF Report!CreateCollection
    <3>2. QED
      BY <3>1, RowsFound
  <2>2. n \in Int /\ applied \in Int
    <3>1. open \in Int /\ n \in Int
      BY <2>1, AmountsFit DEF Report!AtLeastZero
    <3> HIDE DEF open
    <3>2. QED
      BY <3>1, PairBounds
  <2>3. /\ doc' = [doc EXCEPT ![d] = row, ![s] = now] /\ due' = due \cup {d}
        /\ Report!Fresh(d) /\ UNCHANGED <<side, ledger, direct, asof, stops>>
    <3>1. doc[d] = NoDoc /\ d # s
      BY <1>1, <1>6, <2>1, FreshIs DEF Report!CreateCollection
    <3>2. QED
      BY <1>1, <1>6, <3>1 DEF Report!CreateCollection, LedgerTyped
  <2> HIDE DEF applied
  <2>4. Created(plain, "collection", n, 0, applied) /\ more \in Int
        /\ more = doc[s].paid + applied
    BY <2>1, <2>2, RowOf DEF Report!Posted
  <2> HIDE DEF plain, more
  <2>5. Created(row, "collection", n, 0, applied)
    BY <2>4 DEF Created, Fields, Report!DocRecord
  <2>6. /\ now \in Report!DocRecord /\ now.kind = "sale" /\ now.quick = doc[s].quick
        /\ now.total = doc[s].total /\ now.paid = more /\ now.first = doc[s].first
        /\ now.adjusted = doc[s].adjusted /\ now.of = doc[s].of /\ now.cost = doc[s].cost
        /\ now.banked = doc[s].banked /\ now.deleted = doc[s].deleted
    BY <2>1, <2>4 DEF Report!DocRecord
  <2> HIDE DEF row, now
  <2>7. Creatable(row) /\ SaleGap(row) = -applied /\ PurchaseGap(row) = 0 /\ AdjustedGap(row) = 0
    BY <2>2, <2>5, FieldsFit DEF Created, Returns
  <2>8. Amended(s, now)
    BY <2>1, <2>6 DEF Amended, Returns, RowFits
  <2>9. Settles(row, now, doc[s])
    <3>1. /\ SaleGap(now) = more - doc[s].first
          /\ SaleGap(doc[s]) = doc[s].paid - doc[s].first
      BY <2>1, <2>6, DocRecordIs DEF SaleGap
    <3>2. /\ PurchaseGap(now) = 0 /\ AdjustedGap(now) = 0
          /\ PurchaseGap(doc[s]) = 0 /\ AdjustedGap(doc[s]) = 0
      BY <2>1, <2>6 DEF PurchaseGap, AdjustedGap
    <3>3. QED
      BY <2>1, <2>2, <2>4, <2>7, <3>1, <3>2 DEF Settles
  <2>10. Queued(d, row)
    BY <2>3, <2>5 DEF Queued, Created, Fields, Report!Posted
  <2>11. QED
    BY <2>3, <2>6, <2>7, <2>8, <2>9, <2>10, RowAddedTo
<1>7. ASSUME NEW s \in Report!Docs, NEW x \in Taxes, Report!CreateSaleReturn(d, s, x)
      PROVE  LedgerInv'
  <2> DEFINE plain == Report!Row("sale_return", 1, x, 0)
             row == [plain EXCEPT !.of = s]
  <2>1. Created(plain, "sale_return", 1, x, 0) /\ x \in Int
    BY AmountsFit, RowOf DEF Report!Posted
  <2>2. /\ doc' = [doc EXCEPT ![d] = row] /\ due' = due \cup {d} /\ Report!Fresh(d)
        /\ UNCHANGED <<side, ledger, direct, asof, stops>> /\ x <= 1
    BY <1>7 DEF Report!CreateSaleReturn
  <2> HIDE DEF plain
  <2>3. Created(row, "sale_return", 1, x, 0)
    BY <2>1 DEF Created, Fields, Report!DocRecord
  <2> HIDE DEF row
  <2>4. Creatable(row) /\ SameGaps(row, NoDoc)
    BY <2>1, <2>2, <2>3, FieldsFit, NoGap DEF Created, SameGaps
  <2>5. Queued(d, row)
    BY <2>2, <2>3 DEF Queued, Created, Fields, Report!Posted
  <2>6. QED
    BY <2>2, <2>4, <2>5, RowAdded
<1>8. ASSUME NEW s \in Report!Docs, Report!CreateRefundInvoice(d, s)
      PROVE  LedgerInv'
  <2> DEFINE back == Report!AtLeastZero(Report!Min({doc[s].paid, doc[s].total}))
             plain == Report!Row("sale", -doc[s].total, -doc[s].tax, -back)
             cost == -doc[s].cost
             row == [plain EXCEPT !.cost = cost, !.of = s]
             less == doc[s].paid - back
             now == [doc[s] EXCEPT !.paid = less]
  <2>1. /\ doc[s] # NoDoc /\ doc[s] \in Report!DocRecord /\ doc[s].kind = "sale"
        /\ doc[s].total \in Int /\ doc[s].paid \in Int /\ doc[s].tax \in Int
        /\ doc[s].cost \in Int /\ doc[s].first \in Int /\ doc[s].total > 0 /\ RowFits(doc[s])
    <3>1. s \in Report!Of({"sale"}) /\ doc[s].total > 0
      BY <1>8, SoldFound DEF Report!CreateRefundInvoice
    <3>2. QED
      BY <3>1, RowsFound
  <2>2. back \in Int
    <3>1. Report!Min({doc[s].paid, doc[s].total}) \in {doc[s].paid, doc[s].total}
      BY <2>1, PairBounds
    <3>2. QED
      BY <2>1, <3>1 DEF Report!AtLeastZero
  <2>3. /\ doc' = [doc EXCEPT ![d] = row, ![s] = now] /\ due' = due \cup {d}
        /\ Report!Fresh(d) /\ UNCHANGED <<side, ledger, direct, asof, stops>>
    <3>1. doc[d] = NoDoc /\ d # s
      BY <1>1, <1>8, <2>1, FreshIs DEF Report!CreateRefundInvoice
    <3>2. QED
      BY <1>1, <1>8, <3>1 DEF Report!CreateRefundInvoice, LedgerTyped
  <2> HIDE DEF back
  <2>4. /\ -doc[s].total \in Int /\ -doc[s].tax \in Int /\ -back \in Int /\ cost \in Int
        /\ less \in Int /\ less = doc[s].paid - back /\ -doc[s].total < 0
    BY <2>1, <2>2
  <2>5. Created(plain, "sale", -doc[s].total, -doc[s].tax, -back)
    BY <2>4, RowOf DEF Report!Posted
  <2> HIDE DEF plain, cost, less
  <2>6. Created(row, "sale", -doc[s].total, -doc[s].tax, -back)
    BY <2>4, <2>5 DEF Created, Fields, Report!DocRecord
  <2>7. /\ now \in Report!DocRecord /\ now.kind = "sale" /\ now.quick = doc[s].quick
        /\ now.total = doc[s].total /\ now.paid = less /\ now.first = doc[s].first
        /\ now.adjusted = doc[s].adjusted /\ now.of = doc[s].of /\ now.cost = doc[s].cost
        /\ now.banked = doc[s].banked /\ now.deleted = doc[s].deleted
    BY <2>1, <2>4 DEF Report!DocRecord
  <2> HIDE DEF row, now
  <2>8. Creatable(row) /\ SaleGap(row) = -(-back) /\ PurchaseGap(row) = 0 /\ AdjustedGap(row) = 0
    BY <2>4, <2>6, FieldsFit DEF Created, Returns
  <2>9. Amended(s, now)
    BY <2>1, <2>7 DEF Amended, Returns, RowFits
  <2>10. Settles(row, now, doc[s])
    <3>1. /\ SaleGap(now) = less - doc[s].first
          /\ SaleGap(doc[s]) = doc[s].paid - doc[s].first
      BY <2>1, <2>7, DocRecordIs DEF SaleGap
    <3>2. /\ PurchaseGap(now) = 0 /\ AdjustedGap(now) = 0
          /\ PurchaseGap(doc[s]) = 0 /\ AdjustedGap(doc[s]) = 0
      BY <2>1, <2>7 DEF PurchaseGap, AdjustedGap
    <3>3. QED
      BY <2>1, <2>2, <2>4, <2>8, <3>1, <3>2 DEF Settles
  <2>11. Queued(d, row)
    BY <2>3, <2>6 DEF Queued, Created, Fields, Report!Posted
  <2>12. QED
    BY <2>3, <2>7, <2>8, <2>9, <2>10, <2>11, RowAddedTo
<1>9. ASSUME NEW s \in Report!Docs, Report!VoidSale(d, s)
      PROVE  LedgerInv'
  <2> DEFINE plain == Report!Row("void", -doc[s].total, -doc[s].tax, 0)
             row == [plain EXCEPT !.of = s]
  <2>1. -doc[s].total \in Int /\ -doc[s].tax \in Int
    <3>1. s \in Report!Of({"sale"})
      BY <1>9, SoldFound DEF Report!VoidSale
    <3>2. QED
      BY <3>1, RowsFound
  <2>2. /\ doc' = [doc EXCEPT ![d] = row] /\ Report!Fresh(d)
        /\ UNCHANGED <<side, ledger, due, direct, asof, stops>>
    BY <1>9 DEF Report!VoidSale
  <2>3. Created(plain, "void", -doc[s].total, -doc[s].tax, 0)
    <3>1. \A total, tax \in Int :
             Created(Report!Row("void", total, tax, 0), "void", total, tax, 0)
      BY RowOf
    <3>2. QED
      BY <2>1, <3>1
  <2> HIDE DEF plain
  <2>4. Created(row, "void", -doc[s].total, -doc[s].tax, 0)
    BY <2>3 DEF Created, Fields, Report!DocRecord
  <2> HIDE DEF row
  <2>5. Creatable(row) /\ SameGaps(row, NoDoc)
    BY <2>1, <2>4, FieldsFit, NoGap DEF Created, SameGaps, Returns
  <2>6. Queued(d, row)
    BY <2>2 DEF Queued
  <2>7. QED
    BY <2>2, <2>5, <2>6, RowAdded
<1>10. QED
  BY <1>2, <1>3, <1>4, <1>5, <1>6, <1>7, <1>8, <1>9 DEF Report!SalesStep

LEMMA PurchasesKeep ==
  ASSUME LedgerInv, NEW d \in Report!Docs, Report!PurchasesStep(d) PROVE LedgerInv'
<1>1. LedgerTyped
  BY DEF LedgerInv, EntriesInv
<1>2. ASSUME NEW t \in Totals, NEW x \in Taxes, NEW n \in Int, Report!CreatePurchase(d, t, x, n)
      PROVE  LedgerInv'
  <2> DEFINE row == Report!Row("purchase", t, x, n)
  <2>1. Created(row, "purchase", t, x, n) /\ t \in Int /\ x \in Int /\ x <= t
    BY AmountsFit, RowOf DEF Report!Posted
  <2>2. /\ doc' = [doc EXCEPT ![d] = row] /\ due' = due \cup {d} /\ Report!Fresh(d)
        /\ UNCHANGED <<side, ledger, direct, asof, stops>>
    BY <1>2 DEF Report!CreatePurchase, Report!New
  <2> HIDE DEF row
  <2>3. Creatable(row) /\ SameGaps(row, NoDoc)
    BY <2>1, FieldsFit, NoGap DEF Created, SameGaps, Returns
  <2>4. Queued(d, row)
    BY <2>1, <2>2 DEF Queued, Created, Fields, Report!Posted
  <2>5. QED
    BY <2>2, <2>3, <2>4, RowAdded
<1>3. ASSUME NEW n \in Totals, Report!CreateExpense(d, n)
      PROVE  LedgerInv'
  <2> DEFINE row == Report!Row("expense", n, 0, 0)
  <2>1. Created(row, "expense", n, 0, 0) /\ n \in Int
    BY AmountsFit, RowOf DEF Report!Posted
  <2>2. /\ doc' = [doc EXCEPT ![d] = row] /\ due' = due \cup {d} /\ Report!Fresh(d)
        /\ UNCHANGED <<side, ledger, direct, asof, stops>>
    BY <1>3 DEF Report!CreateExpense, Report!New
  <2> HIDE DEF row
  <2>3. Creatable(row) /\ SameGaps(row, NoDoc)
    BY <2>1, FieldsFit, NoGap DEF Created, SameGaps, Returns
  <2>4. Queued(d, row)
    BY <2>1, <2>2 DEF Queued, Created, Fields, Report!Posted
  <2>5. QED
    BY <2>2, <2>3, <2>4, RowAdded
<1>4. ASSUME NEW p \in Report!Docs \cup {NoDoc}, NEW n \in Totals, NEW b \in BOOLEAN,
             Report!CreatePayment(d, p, n, b)
      PROVE  LedgerInv'
  <2> DEFINE counted == IF p = NoDoc THEN 0 ELSE n
             plain == Report!Row("payment", n, 0, counted)
             row == [plain EXCEPT !.of = p, !.banked = b]
             more == doc[p].paid + n
             now == [doc[p] EXCEPT !.paid = more]
  <2>1. n \in Int /\ counted \in Int /\ (p = NoDoc => counted = 0) /\ (p # NoDoc => counted = n)
    BY AmountsFit
  <2>2. /\ due' = due \cup {d} /\ Report!Fresh(d) /\ UNCHANGED <<side, ledger, direct, asof, stops>>
        /\ p = NoDoc => doc' = [doc EXCEPT ![d] = row]
        /\ p # NoDoc => doc' = [doc EXCEPT ![d] = row, ![p].paid = @ + n]
    BY <1>4 DEF Report!CreatePayment
  <2> HIDE DEF counted
  <2>3. Created(plain, "payment", n, 0, counted)
    BY <2>1, RowOf DEF Report!Posted
  <2> HIDE DEF plain
  <2>4. Created(row, "payment", n, 0, counted)
    BY <2>3 DEF Created, Fields, Report!DocRecord
  <2> HIDE DEF row
  <2>5. /\ Creatable(row) /\ SaleGap(row) = 0 /\ PurchaseGap(row) = -counted
        /\ AdjustedGap(row) = 0
    BY <2>1, <2>4, FieldsFit DEF Created, Returns
  <2>6. Queued(d, row)
    BY <2>2, <2>4 DEF Queued, Created, Fields, Report!Posted
  <2>7. CASE p = NoDoc
    <3>1. SameGaps(row, NoDoc)
      <4>1. counted = 0
        BY <2>1, <2>7
      <4>2. -counted = 0 - counted
        BY <2>1
      <4>3. PurchaseGap(row) = 0
        BY <2>5, <4>1, <4>2
      <4>4. QED
        BY <2>5, <4>3, NoGap DEF SameGaps
    <3>2. QED
      BY <2>2, <2>5, <2>6, <2>7, <3>1, RowAdded
  <2>8. CASE p # NoDoc
    <3>1. /\ p \in Report!Docs /\ doc[p] # NoDoc /\ doc[p] \in Report!DocRecord
          /\ doc[p].kind = "purchase" /\ doc[p].paid \in Int /\ doc[p].first \in Int
          /\ doc[p].adjusted \in Int /\ RowFits(doc[p])
      <4>1. p \in Report!Kept({"purchase"})
        BY <1>4, <2>8 DEF Report!CreatePayment
      <4>2. QED
        BY <4>1, RowsFound
    <3>2. doc' = [doc EXCEPT ![d] = row, ![p] = now]
      <4>1. d # p
        BY <1>1, <2>2, <3>1, FreshIs
      <4>2. QED
        BY <1>1, <2>2, <2>8, <3>1, <4>1 DEF LedgerTyped
    <3>3. more \in Int /\ more = doc[p].paid + n
      BY <2>1, <3>1
    <3> HIDE DEF more
    <3>4. /\ now \in Report!DocRecord /\ now.kind = "purchase" /\ now.quick = doc[p].quick
          /\ now.total = doc[p].total /\ now.paid = more /\ now.first = doc[p].first
          /\ now.adjusted = doc[p].adjusted /\ now.of = doc[p].of /\ now.cost = doc[p].cost
          /\ now.banked = doc[p].banked /\ now.deleted = doc[p].deleted
          /\ now.tax = doc[p].tax
      BY <3>1, <3>3 DEF Report!DocRecord
    <3> HIDE DEF now
    <3>5. Amended(p, now)
      BY <3>1, <3>4 DEF Amended, Returns, RowFits
    <3>6. Settles(row, now, doc[p])
      <4>1. /\ PurchaseGap(now) = more - doc[p].first
            /\ PurchaseGap(doc[p]) = doc[p].paid - doc[p].first
        BY <3>1, <3>4, DocRecordIs DEF PurchaseGap
      <4>2. /\ SaleGap(now) = 0 /\ AdjustedGap(now) = doc[p].adjusted
            /\ SaleGap(doc[p]) = 0 /\ AdjustedGap(doc[p]) = doc[p].adjusted
        BY <3>1, <3>4, DocRecordIs DEF SaleGap, AdjustedGap
      <4>3. QED
        BY <2>1, <2>5, <2>8, <3>1, <3>3, <4>1, <4>2 DEF Settles
    <3>7. QED
      BY <2>2, <2>5, <2>6, <3>2, <3>4, <3>5, <3>6, RowAddedTo
  <2>9. QED
    BY <2>7, <2>8
<1>5. ASSUME NEW p \in Report!Docs, NEW x \in Taxes, Report!CreatePurchaseReturn(d, p, x)
      PROVE  LedgerInv'
  <2> DEFINE plain == Report!Row("purchase_return", 1, x, 0)
             row == [plain EXCEPT !.of = p]
  <2>1. Created(plain, "purchase_return", 1, x, 0) /\ x \in Int
    BY AmountsFit, RowOf DEF Report!Posted
  <2>2. /\ doc' = [doc EXCEPT ![d] = row] /\ due' = due \cup {d} /\ Report!Fresh(d)
        /\ UNCHANGED <<side, ledger, direct, asof, stops>> /\ x <= 1
    BY <1>5 DEF Report!CreatePurchaseReturn
  <2> HIDE DEF plain
  <2>3. Created(row, "purchase_return", 1, x, 0)
    BY <2>1 DEF Created, Fields, Report!DocRecord
  <2> HIDE DEF row
  <2>4. Creatable(row) /\ SameGaps(row, NoDoc)
    BY <2>1, <2>2, <2>3, FieldsFit, NoGap DEF Created, SameGaps
  <2>5. Queued(d, row)
    BY <2>2, <2>3 DEF Queued, Created, Fields, Report!Posted
  <2>6. QED
    BY <2>2, <2>4, <2>5, RowAdded
<1>6. ASSUME NEW p \in Report!Docs, NEW n \in {-1, 1}, Report!CreateAdjustment(d, p, n)
      PROVE  LedgerInv'
  <2> DEFINE plain == Report!Row("adjustment", n, 0, 0)
             row == [plain EXCEPT !.of = p]
             total == doc[p].total + n
             adjusted == doc[p].adjusted + n
             now == [doc[p] EXCEPT !.total = total, !.adjusted = adjusted]
  <2>1. /\ doc[p] # NoDoc /\ doc[p] \in Report!DocRecord /\ doc[p].kind = "purchase"
        /\ doc[p].total \in Int /\ doc[p].adjusted \in Int /\ doc[p].tax \in Int
        /\ doc[p].paid \in Int /\ doc[p].first \in Int /\ RowFits(doc[p])
    <3>1. p \in Report!Kept({"purchase"})
      BY <1>6 DEF Report!CreateAdjustment
    <3>2. QED
      BY <3>1, RowsFound
  <2>2. Created(plain, "adjustment", n, 0, 0) /\ n \in Int
    <3>1. n \in Int
      OBVIOUS
    <3>2. QED
      BY <3>1, RowOf
  <2>3. Report!Fresh(d) /\ UNCHANGED <<side, ledger, due, asof, stops>> /\ direct' = direct \cup {d}
    BY <1>6 DEF Report!CreateAdjustment
  <2>4. d # p /\ doc[d] = NoDoc
    BY <1>1, <2>1, <2>3, FreshIs
  <2>5. doc' = [doc EXCEPT ![d] = row, ![p] = now]
    BY <1>1, <1>6, <2>1, <2>4 DEF Report!CreateAdjustment, LedgerTyped
  <2> HIDE DEF plain
  <2>6. Created(row, "adjustment", n, 0, 0) /\ row.of = p
    BY <2>2 DEF Created, Fields, Report!DocRecord
  <2>7. /\ total \in Int /\ adjusted \in Int /\ adjusted = doc[p].adjusted + n
        /\ total - adjusted = doc[p].total - doc[p].adjusted
    BY <2>1, <2>2
  <2> HIDE DEF total, adjusted
  <2>8. /\ now \in Report!DocRecord /\ now.kind = "purchase" /\ now.quick = doc[p].quick
        /\ now.total = total /\ now.paid = doc[p].paid /\ now.first = doc[p].first
        /\ now.adjusted = adjusted /\ now.of = doc[p].of /\ now.cost = doc[p].cost
        /\ now.banked = doc[p].banked /\ now.deleted = doc[p].deleted
        /\ now.tax = doc[p].tax
    BY <2>1, <2>7 DEF Report!DocRecord
  <2> HIDE DEF row, now
  <2>9. /\ Creatable(row) /\ SaleGap(row) = 0 /\ PurchaseGap(row) = 0 /\ AdjustedGap(row) = -n
    BY <2>2, <2>6, FieldsFit DEF Created, Returns
  <2>10. Amended(p, now)
    BY <2>1, <2>7, <2>8 DEF Amended, Returns, RowFits
  <2>11. Settles(row, now, doc[p])
    <3>1. AdjustedGap(now) = adjusted /\ AdjustedGap(doc[p]) = doc[p].adjusted
      BY <2>1, <2>8, DocRecordIs DEF AdjustedGap
    <3>2. /\ SaleGap(now) = 0 /\ PurchaseGap(now) = doc[p].paid - doc[p].first
          /\ SaleGap(doc[p]) = 0 /\ PurchaseGap(doc[p]) = doc[p].paid - doc[p].first
      BY <2>1, <2>8, DocRecordIs DEF SaleGap, PurchaseGap
    <3>3. QED
      BY <2>1, <2>2, <2>7, <2>9, <3>1, <3>2 DEF Settles
  <2>12. Queued(d, row) /\ row.kind = "adjustment"
    BY <2>3, <2>6 DEF Queued, Created, Fields
  <2>13. QED
    BY <2>3, <2>5, <2>6, <2>9, <2>10, <2>11, <2>12, RowAddedTo
<1>7. ASSUME NEW t \in Totals, NEW x \in Taxes, Report!UpdatePurchase(d, t, x)
      PROVE  LedgerInv'
  <2> DEFINE now == [doc[d] EXCEPT !.total = t, !.tax = x]
  <2>1. /\ doc[d] # NoDoc /\ doc[d] \in Report!DocRecord /\ doc[d].kind = "purchase"
        /\ doc[d].adjusted = 0 /\ RowFits(doc[d])
    <3>1. d \in Report!Kept({"purchase"}) /\ ~\E a \in Report!Of({"adjustment"}) : doc[a].of = d
      BY <1>7 DEF Report!UpdatePurchase
    <3>2. /\ doc[d] # NoDoc /\ doc[d] \in Report!DocRecord /\ doc[d].kind \in {"purchase"}
          /\ RowSound(d) /\ RowFits(doc[d])
      BY <3>1, RowsFound
    <3>3. QED
      BY <3>1, <3>2 DEF RowSound
  <2>2. doc' = [doc EXCEPT ![d] = now] /\ UNCHANGED <<side, ledger, due, direct, asof, stops>>
    BY <1>1, <1>7 DEF Report!UpdatePurchase, LedgerTyped
  <2>3. /\ now \in Report!DocRecord /\ now.kind = "purchase" /\ now.quick = doc[d].quick
        /\ now.total = t /\ now.tax = x /\ now.paid = doc[d].paid /\ now.first = doc[d].first
        /\ now.adjusted = doc[d].adjusted /\ now.of = doc[d].of /\ now.cost = doc[d].cost
        /\ now.banked = doc[d].banked /\ now.deleted = doc[d].deleted
    BY <2>1, AmountsFit DEF Report!DocRecord
  <2> HIDE DEF now
  <2>4. t \in Int /\ x \in Int /\ x <= t - 0
    BY AmountsFit
  <2>5. Amended(d, now)
    BY <2>1, <2>3, <2>4 DEF Amended, Returns, RowFits
  <2>6. SameGaps(now, doc[d])
    BY <2>1, <2>3, DocRecordIs DEF SameGaps, SaleGap, PurchaseGap, AdjustedGap
  <2>7. QED
    BY <2>2, <2>3, <2>5, <2>6, RowAmended
<1>8. ASSUME Report!DeletePurchase(d)
      PROVE  LedgerInv'
  <2> DEFINE now == [doc[d] EXCEPT !.deleted = TRUE]
  <2>1. /\ doc[d] # NoDoc /\ doc[d] \in Report!DocRecord /\ doc[d].kind = "purchase"
        /\ RowFits(doc[d])
    <3>1. d \in Report!Kept({"purchase"})
      BY <1>8 DEF Report!DeletePurchase
    <3>2. QED
      BY <3>1, RowsFound
  <2>2. doc' = [doc EXCEPT ![d] = now] /\ UNCHANGED <<side, ledger, due, direct, asof, stops>>
    BY <1>1, <1>8 DEF Report!DeletePurchase, LedgerTyped
  <2>3. /\ now \in Report!DocRecord /\ now.kind = "purchase" /\ now.quick = doc[d].quick
        /\ now.total = doc[d].total /\ now.tax = doc[d].tax /\ now.paid = doc[d].paid
        /\ now.first = doc[d].first
        /\ now.adjusted = doc[d].adjusted /\ now.of = doc[d].of /\ now.cost = doc[d].cost
        /\ now.banked = doc[d].banked
    BY <2>1 DEF Report!DocRecord
  <2> HIDE DEF now
  <2>4. Amended(d, now)
    BY <2>1, <2>3 DEF Amended, Returns, RowFits
  <2>5. SameGaps(now, doc[d])
    BY <2>1, <2>3, DocRecordIs DEF SameGaps, SaleGap, PurchaseGap, AdjustedGap
  <2>6. QED
    BY <2>2, <2>3, <2>4, <2>5, RowAmended
<1>9. \A n \in 0..Report!Max(Totals) : n \in Int
  OBVIOUS
<1>10. QED
  BY <1>2, <1>3, <1>4, <1>5, <1>6, <1>7, <1>8, <1>9 DEF Report!PurchasesStep


\* The documents rest.
LEMMA RowsUnchanged == ASSUME LedgerInv, EntriesInv', doc' = doc PROVE LedgerInv'
<1>1. Settled'
  BY DEF LedgerInv, Settled, SaleGaps, PurchaseGaps, AdjustedGaps, Report!Docs
<1>2. ASSUME NEW d \in Report!Docs PROVE RowSound(d)'
  BY DEF LedgerInv, RowSound, Report!Of, Report!Rows, Report!Docs
<1>3. QED
  BY <1>1, <1>2 DEF LedgerInv, Report!Docs

LEMMA PostingsKeep ==
  ASSUME LedgerInv, NEW d \in Report!Docs,
         \/ Report!Post(d)
         \/ \E k \in 1..5 : Report!StopPosting(d, k)
         \/ \E k \in 0..3, h \in 0..2 : Report!PostAdjustment(d, k, h)
  PROVE  LedgerInv'
<1> DEFINE ls == Report!Lines(doc[d])
<1>0. LedgerTyped /\ EntriesInv
  BY DEF LedgerInv, EntriesInv
<1>1. d \in due => ls \in LineList /\ Len(ls) \in Nat
  <2>1. d \in due => ls \in LineList
    BY <1>0, LinesListed DEF LedgerTyped
  <2> HIDE DEF ls
  <2>2. QED
    BY <2>1 DEF LineList
<1>2. ASSUME Report!Post(d)
      PROVE  EntriesInv' /\ doc' = doc
  <2>1. d \in due /\ ls \in LineList /\ Len(ls) \in 0..Len(ls)
    BY <1>1, <1>2 DEF Report!Post
  <2>2. Report!Insert(ledger[d], ls) = Report!Insert(ledger[d], SubSeq(ls, 1, Len(ls)))
    BY <2>1, InsertAll
  <2>3. ledger' = [ledger EXCEPT ![d] = Report!Insert(@, SubSeq(ls, 1, Len(ls)))]
    BY <1>2, <2>2 DEF Report!Post
  <2>4. /\ asof' = [asof EXCEPT ![d] = Report!Noted(d, TRUE)] /\ due' \subseteq due
        /\ stops' \in Nat /\ UNCHANGED <<side, doc, direct>>
    BY <1>0, <1>2 DEF Report!Post, LedgerTyped
  <2>5. QED
    BY <1>0, <2>1, <2>3, <2>4, WalkPosts
<1>3. ASSUME NEW k \in 1..5, Report!StopPosting(d, k)
      PROVE  EntriesInv' /\ doc' = doc
  <2>1. d \in due /\ k \in 0..Len(ls)
    BY <1>1, <1>3 DEF Report!StopPosting
  <2>2. ledger' = [ledger EXCEPT ![d] = Report!Insert(@, SubSeq(ls, 1, k))]
    BY <1>3 DEF Report!StopPosting
  <2>3. /\ asof' = [asof EXCEPT ![d] = Report!Noted(d, FALSE)] /\ due' \subseteq due
        /\ stops' \in Nat /\ UNCHANGED <<side, doc, direct>>
    BY <1>0, <1>3 DEF Report!StopPosting, LedgerTyped
  <2>4. QED
    BY <1>0, <2>1, <2>2, <2>3, WalkPosts
<1>4. ASSUME NEW k \in 0..3, NEW h \in 0..2, Report!PostAdjustment(d, k, h)
      PROVE  EntriesInv' /\ doc' = doc
  BY <1>0, <1>4, AdjustmentPosts DEF Report!PostAdjustment
<1>5. EntriesInv' /\ doc' = doc
  BY <1>2, <1>3, <1>4
<1>6. QED
  BY <1>5, RowsUnchanged

LEMMA LedgerStays == LedgerInv /\ [Report!LedgerNext]_reports => LedgerInv'
<1> SUFFICES ASSUME LedgerInv, [Report!LedgerNext]_reports PROVE LedgerInv'
  OBVIOUS
<1>1. CASE UNCHANGED reports
  <2>0. LedgerTyped /\ EntriesInv
    BY DEF LedgerInv, EntriesInv
  <2>1. doc' \in [Report!Docs -> Report!DocRecord \cup {NoDoc}]
    BY <1>1, <2>0 DEF reports, LedgerTyped
  <2>2. \A x \in Report!Docs : doc[x] # NoDoc => SameEntry(x)
    BY <1>1 DEF reports, SameEntry
  <2>3. /\ UNCHANGED <<side, ledger, asof, stops>> /\ doc' = doc /\ due' = due
        /\ direct' = direct
    BY <1>1 DEF reports
  <2>4. EntriesInv'
    BY <2>0, <2>1, <2>2, <2>3, DocsChange
  <2>5. QED
    BY <2>3, <2>4, RowsUnchanged
<1>2. CASE Report!LedgerNext
  <2>1. PICK d \in Report!Docs :
          \/ Report!SalesStep(d) \/ Report!PurchasesStep(d) \/ Report!Post(d)
          \/ \E k \in 1..5 : Report!StopPosting(d, k)
          \/ \E k \in 0..3, h \in 0..2 : Report!PostAdjustment(d, k, h)
    BY <1>2 DEF Report!LedgerNext
  <2>2. QED
    BY <2>1, SalesKeep, PurchasesKeep, PostingsKeep
<1>3. QED
  BY <1>1, <1>2

LEMMA LedgerSound == OfficeSpec => []LedgerInv
<1>1. OfficeInit => LedgerInv
  <2> SUFFICES ASSUME Report!LedgerInit PROVE LedgerInv
    BY DEF OfficeInit
  <2>1. /\ \A d \in Report!Docs : doc[d] = NoDoc /\ ledger[d] = Report!Unwritten
             /\ asof[d] = Report!Unposted
        /\ due = {} /\ direct = {} /\ stops = 0 /\ Report!Rows = {}
    BY DEF Report!LedgerInit, Report!Rows
  <2>2. /\ Report!Unwritten \in [Report!Accounts -> Int] /\ Report!Unposted \in AsofRecord
        /\ ~Report!Unposted.posted /\ ~Report!Unposted.whole
    BY DEF Report!Unwritten, Report!Unposted, AsofRecord
  <2>3. RowsInOrder
    <3>1. Report!Rows = 1 .. 0 /\ 0 \in 0 .. MaxDocs
      BY <2>1, OfficeConstants DEF Report!LedgerConstants
    <3>2. QED
      BY <3>1 DEF RowsInOrder
  <2>4. LedgerTyped
    BY <2>1, <2>2, <2>3 DEF LedgerTyped, Report!LedgerInit
  <2>5. EntriesInv
    BY <2>1, <2>2, <2>4 DEF EntriesInv, EntryInv, Report!Of
  <2>6. Settled
    <3>1. \A d \in Report!Docs : /\ SaleGaps[d] = 0 /\ PurchaseGaps[d] = 0 /\ AdjustedGaps[d] = 0
      BY <2>1, NoGap DEF SaleGaps, PurchaseGaps, AdjustedGaps
    <3>2. QED
      BY <3>1, DocsFinite, SumOfZeros DEF Settled
  <2>7. QED
    BY <2>1, <2>5, <2>6 DEF LedgerInv, RowSound
<1>2. ASSUME [OfficeNext]_OfficeVars PROVE [Report!LedgerNext]_reports
  BY <1>2 DEF OfficeNext, OfficeVars
<1>3. LedgerInv /\ [OfficeNext]_OfficeVars => LedgerInv'
  BY <1>2, LedgerStays
<1>4. QED
  BY <1>1, <1>3, PTL DEF OfficeSpec, OfficeVars

\* What a document was posted as from amounts that did not change balances, but for a cent
\* of a cost adjustment and for a purchase left less than its tax or its payment
\* (RecordSale to RecordPurchaseCostAdjustment, insertEntryIfMissing).
THEOREM EntriesAlwaysBalance == OfficeSpec => []EntriesBalance
<1>1. ASSUME LedgerInv PROVE Report!EntriesBalance
  <2> SUFFICES ASSUME NEW d \in Report!Rows, asof[d].whole, ~asof[d].mixed,
                      doc[d].kind = "purchase" =>
                        ~(asof[d].total < Report!Max({asof[d].paid, asof[d].tax}))
               PROVE  Report!Sum(ledger[d], Report!Accounts)
                        \in -Report!RoundingOf(d)..Report!RoundingOf(d)
    BY DEF Report!EntriesBalance
  <2>1. /\ d \in Report!Docs /\ doc[d] # NoDoc /\ doc[d] \in Report!DocRecord
        /\ doc[d].kind \in Report!Posted \cup {"void", "adjustment"} /\ EntryInv(d)
        /\ asof[d] \in AsofRecord
    BY <1>1, RowIs DEF LedgerInv, EntriesInv, LedgerTyped, Report!Rows, Report!DocRecord
  <2>2. asof[d].total \in Int /\ asof[d].tax \in Int /\ asof[d].paid \in Int /\ asof[d].posted
    BY <2>1 DEF AsofRecord, EntryInv
  <2>3. Report!Sum(ledger[d], Report!Accounts) = SumOf(ledger[d], Report!Accounts)
    BY SumIsSumOf
  <2>4. CASE doc[d].kind = "void"
    BY <2>1, <2>2, <2>4 DEF EntryInv, Report!Of
  <2>5. CASE doc[d].kind = "adjustment"
    <3>1. PICK h \in 0..2 : ledger[d] = Made(Report!AdjustmentLines(PostedFrom(d), h))
      BY <2>1, <2>5 DEF EntryInv, Report!Of
    <3>2. PostedFrom(d).total \in Int
      BY <2>2 DEF PostedFrom
    <3>3. SumOf(ledger[d], Report!Accounts) \in -1..1
      BY <3>1, <3>2, AdjustmentMakes
    <3>4. QED
      BY <2>3, <2>5, <3>3 DEF Report!RoundingOf
  <2>6. CASE doc[d].kind \in Report!Posted
    <3> DEFINE row == PostedFrom(d)
    <3>1. /\ row \in PostableRecord /\ row.kind = doc[d].kind /\ row.total = asof[d].total
          /\ row.tax = asof[d].tax /\ row.paid = asof[d].paid
      BY <1>1, <2>1, <2>6, RowIs DEF LedgerInv, EntriesInv, PostedFrom
    <3>2. ledger[d] = Made(Report!Lines(row))
      BY <2>1, <2>2, <2>6 DEF EntryInv, LinesOf, Report!Of
    <3>3. Made(Report!Lines(row)) = AmountsOf(row)
      BY <3>1, LinesMakeAmounts DEF Makes
    <3>4. doc[d].kind \in {"sale_return", "purchase_return"} => asof[d].tax <= asof[d].total
      BY <2>1, <2>2 DEF EntryInv, Report!Of
    <3>5. doc[d].kind = "purchase" => /\ asof[d].tax <= asof[d].total
                                      /\ asof[d].paid <= asof[d].total
      <4>1. /\ Report!Max({asof[d].paid, asof[d].tax}) \in {asof[d].paid, asof[d].tax}
            /\ Report!Max({asof[d].paid, asof[d].tax}) >= asof[d].paid
            /\ Report!Max({asof[d].paid, asof[d].tax}) >= asof[d].tax
        BY <2>2, PairBounds
      <4>2. QED
        BY <2>2, <4>1
    <3> HIDE DEF row
    <3>6. SumOf(AmountsOf(row), Report!Accounts) = 0
      BY <3>1, <3>4, <3>5, AmountsBalance
    <3>7. QED
      BY <2>3, <2>6, <3>2, <3>3, <3>6 DEF Report!RoundingOf, Report!Posted
  <2>7. QED
    BY <2>1, <2>4, <2>5, <2>6
<1>2. LedgerInv => EntriesBalance
  BY <1>1 DEF EntriesBalance
<1>3. QED
  BY <1>2, LedgerSound, PTL

----------------------------------------------------------------------------
(* What the reports say of the ledger and of the documents.                *)

\* What the ledger says of a document posted from the amounts it was created with.
LEMMA FaithfulEntry ==
  ASSUME LedgerInv, NEW d \in Report!Docs, doc[d] # NoDoc => Report!Faithful(d)
  PROVE  LET row  == doc[d]
             kind == IF doc[d] = NoDoc THEN "none" ELSE doc[d].kind
             f    == ledger[d] IN
         /\ f \in [Report!Accounts -> Int]
         /\ kind \in Report!Posted \cup {"none", "void", "adjustment"}
         /\ f["receivable"] = CASE kind = "sale" -> row.total - row.first
                                [] kind \in {"sale_return", "collection"} -> -row.total
                                [] OTHER -> 0
         /\ f["payable"] = CASE kind = "purchase" -> row.first + row.adjusted - row.total
                             [] kind \in {"purchase_return", "payment"} -> row.total
                             [] kind = "adjustment" -> -row.total
                             [] OTHER -> 0
         /\ f["taxPayable"] = CASE kind = "sale" -> -row.tax [] kind = "sale_return" -> row.tax
                                [] OTHER -> 0
         /\ f["taxReceivable"] = CASE kind = "purchase" -> row.tax
                                   [] kind = "purchase_return" -> -row.tax [] OTHER -> 0
         /\ f["expenses"] = CASE kind = "expense" -> row.total [] OTHER -> 0
         /\ f["cash"] + f["bank"] = CASE kind = "sale" -> row.first
                                      [] kind = "collection" -> row.total
                                      [] kind = "purchase" -> -row.first
                                      [] kind \in {"payment", "expense"} -> -row.total
                                      [] OTHER -> 0
         /\ SumOf(f, Report!Accounts) \in -1..1
         /\ kind # "adjustment" => SumOf(f, Report!Accounts) = 0
<1>1. LedgerTyped /\ EntryInv(d) /\ ledger[d] \in [Report!Accounts -> Int]
      /\ asof[d] \in AsofRecord
  BY DEF LedgerInv, EntriesInv, LedgerTyped
<1>2. IsFiniteSet(Report!Accounts)
  <2>1. Report!Unwritten \in [Report!Accounts -> Int]
    BY DEF Report!Unwritten
  <2>2. QED
    BY <2>1, AccountsSum
<1>3. ASSUME ledger[d] = Report!Unwritten
      PROVE  /\ \A a \in Report!Accounts : ledger[d][a] = 0
             /\ SumOf(ledger[d], Report!Accounts) = 0
  <2>1. \A a \in Report!Accounts : ledger[d][a] = 0
    BY <1>3 DEF Report!Unwritten
  <2>2. QED
    BY <1>2, <2>1, SumOfZeros
<1>4. CASE doc[d] = NoDoc
  <2>1. ledger[d] = Report!Unwritten
    BY <1>1, <1>4 DEF EntryInv, Report!Rows
  <2>2. QED
    BY <1>1, <1>3, <1>4, <2>1, AccountsAre
<1>5. CASE doc[d] # NoDoc /\ doc[d].kind = "void"
  <2>1. ledger[d] = Report!Unwritten
    BY <1>1, <1>5 DEF EntryInv, Report!Of, Report!Rows
  <2>2. QED
    BY <1>1, <1>3, <1>5, <2>1, AccountsAre
<1>6. ASSUME doc[d] # NoDoc, doc[d].kind # "void"
      PROVE  /\ doc[d].kind \in Report!Posted \cup {"adjustment"}
             /\ doc[d].total \in Int /\ doc[d].tax \in Int /\ doc[d].first \in Int
             /\ doc[d].adjusted \in Int /\ RowFits(doc[d])
             /\ d \in Report!Of({doc[d].kind})
             /\ asof[d].posted /\ asof[d].whole /\ ~asof[d].mixed /\ asof[d].paid = doc[d].first
             /\ asof[d].total = doc[d].total - doc[d].adjusted /\ asof[d].tax = doc[d].tax
             /\ asof[d].paid <= asof[d].total
  <2>1. /\ asof[d].whole /\ ~asof[d].mixed /\ asof[d].paid = doc[d].first
        /\ asof[d].total = doc[d].total - doc[d].adjusted /\ asof[d].tax = doc[d].tax
        /\ asof[d].total >= asof[d].paid
    BY <1>6 DEF Report!Faithful
  <2>2. asof[d].posted /\ asof[d].total \in Int /\ asof[d].paid \in Int
    BY <1>1, <2>1 DEF EntryInv, AsofRecord
  <2>3. doc[d] \in Report!DocRecord /\ d \in Report!Rows
    BY <1>1, <1>6, RowIs
  <2>4. RowFits(doc[d])
    BY <1>6 DEF LedgerInv, RowSound
  <2>5. QED
    BY <1>6, <2>1, <2>2, <2>3, <2>4 DEF Report!DocRecord, Report!Of
<1>7. CASE doc[d] # NoDoc /\ doc[d].kind = "adjustment"
  <2>1. PICK h \in 0..2 : ledger[d] = Made(Report!AdjustmentLines(PostedFrom(d), h))
    BY <1>1, <1>6, <1>7 DEF EntryInv
  <2>2. PostedFrom(d).total = doc[d].total /\ doc[d].total \in Int
    BY <1>6, <1>7 DEF PostedFrom, RowFits
  <2>3. /\ SumOf(ledger[d], Report!Accounts) \in -1..1
        /\ ledger[d]["payable"] = -doc[d].total
        /\ \A a \in Report!Accounts \ {"payable", "inventory", "cogs"} : ledger[d][a] = 0
    BY <2>1, <2>2, AdjustmentMakes
  <2>4. QED
    BY <1>1, <1>7, <2>3, AccountsAre
<1>8. CASE doc[d] # NoDoc /\ doc[d].kind \in Report!Posted
  <2> DEFINE row == PostedFrom(d)
  <2>0. /\ doc[d].kind # "void" /\ doc[d].kind # "adjustment"
        /\ d \in Report!Of(Report!Posted)
    BY <1>1, <1>8, RowIs DEF Report!Posted, Report!Of
  <2>1. /\ row \in PostableRecord /\ row.kind = doc[d].kind /\ row.total = asof[d].total
        /\ row.tax = doc[d].tax /\ row.paid = doc[d].first
    BY <1>1, <1>6, <1>8, <2>0, RowIs DEF PostedFrom
  <2>2. ledger[d] = AmountsOf(row)
    <3>1. ledger[d] = Made(Report!Lines(row))
      BY <1>1, <1>6, <1>8, <2>0 DEF EntryInv, LinesOf
    <3>2. QED
      BY <2>1, <3>1, LinesMakeAmounts DEF Makes
  <2>3. doc[d].kind # "purchase" => row.total = doc[d].total
    BY <1>6, <1>8, <2>0, <2>1 DEF RowFits
  <2>4. doc[d].kind = "purchase" => /\ row.total = doc[d].total - doc[d].adjusted
                                    /\ row.tax <= row.total /\ row.paid <= row.total
    BY <1>6, <1>8, <2>0, <2>1 DEF RowFits
  <2>5. doc[d].kind \in {"sale_return", "purchase_return"} => row.tax <= row.total
    <3>1. doc[d].kind \in {"sale_return", "purchase_return"} =>
            d \in Report!Of({"sale_return", "purchase_return"})
      BY <1>1, <1>8, RowIs DEF Report!Of
    <3>2. QED
      BY <1>1, <1>6, <1>8, <2>0, <2>1, <3>1 DEF EntryInv
  <2> HIDE DEF row
  <2>6. SumOf(ledger[d], Report!Accounts) = 0
    BY <2>1, <2>2, <2>4, <2>5, AmountsBalance
  <2>7. /\ doc[d].total \in Int /\ doc[d].first \in Int /\ doc[d].adjusted \in Int
        /\ doc[d].tax \in Int
    BY <1>6, <1>8, <2>0
  <2>8. ledger[d]["payable"] = CASE doc[d].kind = "purchase" -> -(row.total - row.paid)
                                 [] doc[d].kind \in {"purchase_return", "payment"} -> row.total
                                 [] OTHER -> 0
    BY <2>1, <2>2, <2>4, <2>7, AccountsAre DEF AmountsOf, Report!AtLeastZero
  <2>9. ledger[d]["cash"] + ledger[d]["bank"] =
          CASE doc[d].kind = "sale" -> row.paid
            [] doc[d].kind = "collection" -> row.total
            [] doc[d].kind = "purchase" -> -row.paid
            [] doc[d].kind \in {"payment", "expense"} -> -row.total
            [] OTHER -> 0
    <3>1. Report!Money(row) \in {"cash", "bank"}
      BY DEF Report!Money
    <3>2. row.total \in Int /\ row.paid \in Int
      BY <2>1 DEF PostableRecord
    <3>3. QED
      BY <2>1, <2>2, <3>1, <3>2, AccountsAre DEF AmountsOf
  <2>10. /\ ledger[d]["receivable"] =
              CASE doc[d].kind = "sale" -> row.total - row.paid
                [] doc[d].kind \in {"sale_return", "collection"} -> -row.total
                [] OTHER -> 0
         /\ ledger[d]["taxPayable"] =
              CASE doc[d].kind = "sale" -> -row.tax [] doc[d].kind = "sale_return" -> row.tax
                [] OTHER -> 0
         /\ ledger[d]["taxReceivable"] =
              CASE doc[d].kind = "purchase" -> row.tax
                [] doc[d].kind = "purchase_return" -> -row.tax [] OTHER -> 0
         /\ ledger[d]["expenses"] = CASE doc[d].kind = "expense" -> row.total [] OTHER -> 0
    BY <2>1, <2>2, AccountsAre DEF AmountsOf
  <2>11. QED
    BY <1>1, <1>8, <2>0, <2>1, <2>3, <2>4, <2>6, <2>7, <2>8, <2>9, <2>10
<1>9. QED
  BY <1>4, <1>5, <1>6, <1>7, <1>8

\* Every document was posted from the amounts it was created with.
AllFaithful == LedgerInv /\ \A d \in Report!Rows : Report!Faithful(d)

KindOf(d) == IF doc[d] = NoDoc THEN "none" ELSE doc[d].kind
Kinds     == Report!Posted \cup {"void", "adjustment"}

\* The lines of an account, and what a report adds up of rows of some kinds, by document.
Column(a)       == [d \in Report!Docs |-> ledger[d][a]]
Shown(f, kinds) == [d \in Report!Docs |-> IF KindOf(d) \in kinds THEN f[d] ELSE 0]
Nothing         == [d \in Report!Docs |-> 0]

LEMMA KindIs ==
  ASSUME AllFaithful, NEW d \in Report!Docs
  PROVE  LET kind == KindOf(d)
             row  == doc[d] IN
         /\ kind \in Kinds \cup {"none"}
         /\ d \in Report!Rows <=> kind # "none"
         /\ \A kinds : d \in Report!Of(kinds) <=> kind \in kinds \ {"none"}
         /\ \A kinds : Report!Kept(kinds) = Report!Of(kinds)
         /\ kind # "none" =>
              /\ row.total \in Int /\ row.tax \in Int /\ row.paid \in Int /\ row.first \in Int
              /\ row.adjusted \in Int /\ RowFits(row)
              /\ Report!Total[d] = row.total /\ Report!Tax[d] = row.tax
              /\ Report!First[d] = row.first /\ Report!Paid[d] = row.paid
              /\ Report!Unpaid[d] = row.total - row.paid
<1>1. LedgerTyped
  BY DEF AllFaithful, LedgerInv, EntriesInv
<1>2. \A kinds : Report!Kept(kinds) = Report!Of(kinds)
  <2> SUFFICES ASSUME NEW kinds, NEW x \in Report!Of(kinds) PROVE ~doc[x].deleted
    BY DEF Report!Kept
  <2>1. x \in Report!Docs /\ doc[x] # NoDoc /\ x \in Report!Rows
    BY DEF Report!Of, Report!Rows
  <2>2. RowFits(doc[x]) /\ Report!Faithful(x)
    BY <2>1 DEF AllFaithful, LedgerInv, RowSound
  <2>3. QED
    BY <2>2 DEF RowFits, Report!Faithful
<1>3. CASE doc[d] = NoDoc
  BY <1>2, <1>3 DEF KindOf, Report!Rows, Report!Of, Kinds, Report!Posted
<1>4. CASE doc[d] # NoDoc
  <2>1. doc[d] \in Report!DocRecord /\ d \in Report!Rows /\ RowFits(doc[d])
    BY <1>1, <1>4, RowIs DEF AllFaithful, LedgerInv, RowSound
  <2>2. /\ doc[d].kind \in Kinds /\ doc[d].total \in Int /\ doc[d].tax \in Int
        /\ doc[d].paid \in Int /\ doc[d].first \in Int /\ doc[d].adjusted \in Int
    BY <2>1 DEF Report!DocRecord, Kinds
  <2>3. doc[d].kind # "none" /\ KindOf(d) = doc[d].kind
    BY <1>4, <2>2 DEF Kinds, Report!Posted, KindOf
  <2>4. /\ Report!Total[d] = doc[d].total /\ Report!Tax[d] = doc[d].tax
        /\ Report!First[d] = doc[d].first /\ Report!Paid[d] = doc[d].paid
        /\ Report!Unpaid[d] = doc[d].total - doc[d].paid
    BY <2>1 DEF Report!Total, Report!Tax, Report!First, Report!Paid, Report!Unpaid
  <2>5. \A kinds : d \in Report!Of(kinds) <=> doc[d].kind \in kinds
    BY <2>1 DEF Report!Of
  <2>6. QED
    BY <1>2, <2>1, <2>2, <2>3, <2>4, <2>5
<1>5. QED
  BY <1>3, <1>4

LEMMA NothingIs == SumOf(Nothing, Report!Docs) = 0 /\ \A d \in Report!Docs : Nothing[d] = 0
BY DocsFinite, SumOfZeros DEF Nothing

LEMMA ColumnIs ==
  ASSUME LedgerInv, NEW a \in Report!Accounts
  PROVE  /\ Report!Balance[a] = SumOf(Column(a), Report!Docs) /\ Report!Balance[a] \in Int
         /\ \A d \in Report!Docs : Column(a)[d] = ledger[d][a] /\ Column(a)[d] \in Int
<1>1. \A d \in Report!Docs : Column(a)[d] = ledger[d][a] /\ Column(a)[d] \in Int
  BY DEF LedgerInv, EntriesInv, LedgerTyped, Column
<1>2. Report!Balance[a] = SumOf(Column(a), Report!Docs)
  BY SumIsSumOf DEF Report!Balance, Column
<1>3. QED
  BY <1>1, <1>2, DocsFinite, SumType

LEMMA PartIs ==
  ASSUME NEW f, NEW W \in SUBSET Report!Docs, \A d \in W : f[d] \in Int,
         NEW g, \A d \in Report!Docs : g[d] = IF d \in W THEN f[d] ELSE 0
  PROVE  Report!Sum(f, W) = SumOf(g, Report!Docs) /\ Report!Sum(f, W) \in Int
<1>1. SumOf(f, W) = SumOf(Within(f, W, Report!Docs), Report!Docs)
  BY DocsFinite, SumPart
<1>2. SumOf(Within(f, W, Report!Docs), Report!Docs) = SumOf(g, Report!Docs)
  <2>1. \A d \in Report!Docs : Within(f, W, Report!Docs)[d] = g[d]
    BY DEF Within
  <2>2. QED
    BY <2>1, DocsFinite, SumSame
<1>3. IsFiniteSet(W)
  BY DocsFinite, FS_Subset
<1>4. QED
  BY <1>1, <1>2, <1>3, SumIsSumOf, SumType

LEMMA ShownIs ==
  ASSUME AllFaithful, NEW kinds \in SUBSET Kinds,
         NEW f \in {Report!Total, Report!Tax, Report!First, Report!Paid, Report!Unpaid}
  PROVE  /\ Report!Sum(f, Report!Of(kinds)) = SumOf(Shown(f, kinds), Report!Docs)
         /\ Report!Kept(kinds) = Report!Of(kinds)
         /\ Report!Sum(f, Report!Of(kinds)) \in Int
         /\ \A d \in Report!Docs : /\ Shown(f, kinds)[d] = IF KindOf(d) \in kinds THEN f[d] ELSE 0
                                   /\ Shown(f, kinds)[d] \in Int
<1>1. Report!Of(kinds) \in SUBSET Report!Docs /\ "none" \notin kinds
  BY DEF Report!Of, Report!Rows, Kinds, Report!Posted
<1>2. ASSUME NEW d \in Report!Docs, KindOf(d) # "none" PROVE f[d] \in Int
  <2>1. /\ doc[d].total \in Int /\ doc[d].tax \in Int /\ doc[d].paid \in Int
        /\ doc[d].first \in Int
        /\ Report!Total[d] = doc[d].total /\ Report!Tax[d] = doc[d].tax
        /\ Report!First[d] = doc[d].first /\ Report!Paid[d] = doc[d].paid
        /\ Report!Unpaid[d] = doc[d].total - doc[d].paid
    BY <1>2, KindIs
  <2>2. QED
    BY <2>1
<1>3. \A d \in Report!Docs : d \in Report!Of(kinds) <=> KindOf(d) \in kinds
  BY <1>1, KindIs
<1>4. \A d \in Report!Docs : /\ Shown(f, kinds)[d] = IF KindOf(d) \in kinds THEN f[d] ELSE 0
                             /\ Shown(f, kinds)[d] \in Int
  BY <1>1, <1>2 DEF Shown
<1>5. /\ Report!Sum(f, Report!Of(kinds)) = SumOf(Shown(f, kinds), Report!Docs)
      /\ Report!Sum(f, Report!Of(kinds)) \in Int
  <2>1. \A d \in Report!Of(kinds) : f[d] \in Int
    BY <1>1, <1>2, <1>3
  <2>2. \A d \in Report!Docs : Shown(f, kinds)[d] = IF d \in Report!Of(kinds) THEN f[d] ELSE 0
    BY <1>3, <1>4
  <2>3. QED
    BY <1>1, <2>1, <2>2, PartIs
<1>6. Report!Kept(kinds) = Report!Of(kinds)
  <2>1. ASSUME NEW d \in Report!Docs PROVE Report!Kept(kinds) = Report!Of(kinds)
    BY KindIs
  <2>2. Report!Docs = {} => Report!Kept(kinds) = {} /\ Report!Of(kinds) = {}
    BY DEF Report!Kept, Report!Of, Report!Rows
  <2>3. QED
    BY <2>1, <2>2
<1>7. QED
  BY <1>4, <1>5, <1>6

\* The gaps of a row, and that they add up to nothing.
LEMMA GapsAre ==
  ASSUME AllFaithful
  PROVE  /\ SumOf(SaleGaps, Report!Docs) = 0 /\ SumOf(PurchaseGaps, Report!Docs) = 0
         /\ SumOf(AdjustedGaps, Report!Docs) = 0
         /\ \A d \in Report!Docs :
              LET kind == KindOf(d)
                  row  == doc[d] IN
              /\ SaleGaps[d] = CASE kind = "sale" -> (IF row.total < 0 THEN 0 ELSE row.paid) - row.first
                                 [] kind = "collection" -> -row.paid
                                 [] OTHER -> 0
              /\ PurchaseGaps[d] = CASE kind = "purchase" -> row.paid - row.first
                                     [] kind = "payment" -> -row.paid
                                     [] OTHER -> 0
              /\ AdjustedGaps[d] = CASE kind = "purchase" -> row.adjusted
                                     [] kind = "adjustment" -> -row.total
                                     [] OTHER -> 0
              /\ SaleGaps[d] \in Int /\ PurchaseGaps[d] \in Int /\ AdjustedGaps[d] \in Int
<1>1. Settled /\ LedgerTyped
  BY DEF AllFaithful, LedgerInv, EntriesInv
<1>2. ASSUME NEW d \in Report!Docs
      PROVE  /\ SaleGaps[d] = SaleGap(doc[d]) /\ PurchaseGaps[d] = PurchaseGap(doc[d])
             /\ AdjustedGaps[d] = AdjustedGap(doc[d])
             /\ SaleGaps[d] \in Int /\ PurchaseGaps[d] \in Int /\ AdjustedGaps[d] \in Int
  <2>1. doc[d] \in Report!DocRecord \cup {NoDoc}
    BY <1>1 DEF LedgerTyped
  <2>2. QED
    BY <2>1, GapsTyped DEF SaleGaps, PurchaseGaps, AdjustedGaps
<1>3. ASSUME NEW d \in Report!Docs
      PROVE  /\ SaleGap(doc[d]) = CASE KindOf(d) = "sale" ->
                                         (IF doc[d].total < 0 THEN 0 ELSE doc[d].paid) - doc[d].first
                                    [] KindOf(d) = "collection" -> -doc[d].paid
                                    [] OTHER -> 0
             /\ PurchaseGap(doc[d]) = CASE KindOf(d) = "purchase" -> doc[d].paid - doc[d].first
                                        [] KindOf(d) = "payment" -> -doc[d].paid
                                        [] OTHER -> 0
             /\ AdjustedGap(doc[d]) = CASE KindOf(d) = "purchase" -> doc[d].adjusted
                                        [] KindOf(d) = "adjustment" -> -doc[d].total
                                        [] OTHER -> 0
  <2>1. CASE doc[d] = NoDoc
    BY <2>1, NoGap DEF KindOf
  <2>2. CASE doc[d] # NoDoc
    BY <2>2 DEF KindOf, SaleGap, PurchaseGap, AdjustedGap
  <2>3. QED
    BY <2>1, <2>2
<1>4. QED
  BY <1>1, <1>2, <1>3 DEF Settled

\* What the ledger says of it, by the kind of the document.
LEMMA EntryShown ==
  ASSUME AllFaithful, NEW d \in Report!Docs
  PROVE  LET kind == KindOf(d)
             row  == doc[d]
             f    == ledger[d] IN
         /\ f["receivable"] = CASE kind = "sale" -> row.total - row.first
                                [] kind \in {"sale_return", "collection"} -> -row.total
                                [] OTHER -> 0
         /\ f["payable"] = CASE kind = "purchase" -> row.first + row.adjusted - row.total
                             [] kind \in {"purchase_return", "payment"} -> row.total
                             [] kind = "adjustment" -> -row.total
                             [] OTHER -> 0
         /\ f["taxPayable"] = CASE kind = "sale" -> -row.tax [] kind = "sale_return" -> row.tax
                                [] OTHER -> 0
         /\ f["taxReceivable"] = CASE kind = "purchase" -> row.tax
                                   [] kind = "purchase_return" -> -row.tax [] OTHER -> 0
         /\ f["expenses"] = CASE kind = "expense" -> row.total [] OTHER -> 0
         /\ f["cash"] + f["bank"] = CASE kind = "sale" -> row.first
                                      [] kind = "collection" -> row.total
                                      [] kind = "purchase" -> -row.first
                                      [] kind \in {"payment", "expense"} -> -row.total
                                      [] OTHER -> 0
         /\ f \in [Report!Accounts -> Int]
         /\ SumOf(f, Report!Accounts) \in -1..1
         /\ kind # "adjustment" => SumOf(f, Report!Accounts) = 0
<1>1. LedgerInv /\ (doc[d] # NoDoc => Report!Faithful(d))
  BY DEF AllFaithful, Report!Rows
<1>2. QED
  BY <1>1, FaithfulEntry DEF KindOf

\* Receivables.
LEMMA ReceivablesReconcile ==
  ASSUME AllFaithful
  PROVE  Report!Balance["receivable"] =
           Report!SalesOutstanding - Report!Unapplied("collection")
           - Report!ReturnsTotal("sale_return")
           + Report!Sum(Report!Paid, Report!Refunds)
           - Report!Sum(Report!Total, Report!Of({"void"}))
<1> DEFINE open == Shown(Report!Unpaid, {"sale", "void"})
           advance == Shown(Report!Unpaid, {"collection"})
           back == Shown(Report!Total, {"sale_return"})
           void == Shown(Report!Total, {"void"})
           repaid == [d \in Report!Docs |->
                        IF KindOf(d) = "sale" /\ doc[d].total < 0 THEN doc[d].paid ELSE 0]
           line == Column("receivable")
<1>0. {"sale", "void"} \in SUBSET Kinds /\ {"collection"} \in SUBSET Kinds
      /\ {"sale_return"} \in SUBSET Kinds /\ {"void"} \in SUBSET Kinds
  BY DEF Kinds, Report!Posted
<1>1. /\ Report!SalesOutstanding = SumOf(open, Report!Docs)
      /\ Report!SalesOutstanding \in Int
      /\ \A d \in Report!Docs : open[d] = IF KindOf(d) \in {"sale", "void"} THEN Report!Unpaid[d] ELSE 0
      /\ \A d \in Report!Docs : open[d] \in Int
  BY <1>0, ShownIs DEF Report!SalesOutstanding, Report!Invoices
<1>2. /\ Report!Unapplied("collection") = SumOf(advance, Report!Docs)
      /\ Report!Unapplied("collection") \in Int
      /\ \A d \in Report!Docs : advance[d] = IF KindOf(d) \in {"collection"} THEN Report!Unpaid[d] ELSE 0
      /\ \A d \in Report!Docs : advance[d] \in Int
  BY <1>0, ShownIs DEF Report!Unapplied
<1>3. /\ Report!ReturnsTotal("sale_return") = SumOf(back, Report!Docs)
      /\ Report!ReturnsTotal("sale_return") \in Int
      /\ \A d \in Report!Docs : back[d] = IF KindOf(d) \in {"sale_return"} THEN Report!Total[d] ELSE 0
      /\ \A d \in Report!Docs : back[d] \in Int
  BY <1>0, ShownIs DEF Report!ReturnsTotal
<1>4. /\ Report!Sum(Report!Total, Report!Of({"void"})) = SumOf(void, Report!Docs)
      /\ Report!Sum(Report!Total, Report!Of({"void"})) \in Int
      /\ \A d \in Report!Docs : void[d] = IF KindOf(d) \in {"void"} THEN Report!Total[d] ELSE 0
      /\ \A d \in Report!Docs : void[d] \in Int
  BY <1>0, ShownIs
<1>5. /\ Report!Sum(Report!Paid, Report!Refunds) = SumOf(repaid, Report!Docs)
      /\ Report!Sum(Report!Paid, Report!Refunds) \in Int
      /\ \A d \in Report!Docs : repaid[d] \in Int
  <2>1. Report!Refunds \in SUBSET Report!Docs
    BY DEF Report!Refunds, Report!Of, Report!Rows
  <2>2. ASSUME NEW d \in Report!Docs
        PROVE  /\ d \in Report!Refunds <=> KindOf(d) = "sale" /\ doc[d].total < 0
               /\ KindOf(d) = "sale" => doc[d].paid \in Int /\ Report!Paid[d] = doc[d].paid
    BY KindIs DEF Report!Refunds
  <2>3. /\ \A d \in Report!Refunds : Report!Paid[d] \in Int
        /\ \A d \in Report!Docs :
             repaid[d] = IF d \in Report!Refunds THEN Report!Paid[d] ELSE 0
        /\ \A d \in Report!Docs : repaid[d] \in Int
    BY <2>1, <2>2
  <2> HIDE DEF repaid
  <2>4. QED
    BY <2>1, <2>3, PartIs
<1>6. /\ Report!Balance["receivable"] = SumOf(line, Report!Docs)
      /\ Report!Balance["receivable"] \in Int
      /\ \A d \in Report!Docs : line[d] = ledger[d]["receivable"] /\ line[d] \in Int
  BY AccountsAre, ColumnIs DEF AllFaithful
<1>7. \A d \in Report!Docs :
         repaid[d] = IF KindOf(d) = "sale" /\ doc[d].total < 0 THEN doc[d].paid ELSE 0
  OBVIOUS
<1> HIDE DEF open, advance, back, void, repaid, line
<1>8. ASSUME NEW d \in Report!Docs
      PROVE  line[d] + advance[d] + back[d] + void[d]
               = open[d] + repaid[d] + SaleGaps[d] + Nothing[d]
  <2> DEFINE kind == KindOf(d)
  <2>1. /\ kind \in Report!Posted \cup {"void", "adjustment", "none"}
        /\ kind # "none" =>
              /\ doc[d].total \in Int /\ doc[d].paid \in Int /\ doc[d].first \in Int
              /\ kind = "void" => doc[d].paid = 0
              /\ Report!Total[d] = doc[d].total
              /\ Report!Unpaid[d] = doc[d].total - doc[d].paid
    BY KindIs DEF RowFits, Kinds, KindOf
  <2>2. line[d] = CASE kind = "sale" -> doc[d].total - doc[d].first
                    [] kind \in {"sale_return", "collection"} -> -doc[d].total
                    [] OTHER -> 0
    BY <1>6, EntryShown
  <2>3. SaleGaps[d] = CASE kind = "sale" ->
                             (IF doc[d].total < 0 THEN 0 ELSE doc[d].paid) - doc[d].first
                        [] kind = "collection" -> -doc[d].paid
                        [] OTHER -> 0
    BY GapsAre
  <2>4. /\ open[d] = IF kind \in {"sale", "void"} THEN Report!Unpaid[d] ELSE 0
        /\ advance[d] = IF kind \in {"collection"} THEN Report!Unpaid[d] ELSE 0
        /\ back[d] = IF kind \in {"sale_return"} THEN Report!Total[d] ELSE 0
        /\ void[d] = IF kind \in {"void"} THEN Report!Total[d] ELSE 0
        /\ repaid[d] = IF kind = "sale" /\ doc[d].total < 0 THEN doc[d].paid ELSE 0
        /\ Nothing[d] = 0
    BY <1>1, <1>2, <1>3, <1>4, <1>7, NothingIs
  <2> HIDE DEF kind
  <2>5. QED
    BY <2>1, <2>2, <2>3, <2>4 DEF Report!Posted
<1>9. SumOf(line, Report!Docs) + SumOf(advance, Report!Docs) + SumOf(back, Report!Docs)
        + SumOf(void, Report!Docs)
      = SumOf(open, Report!Docs) + SumOf(repaid, Report!Docs) + SumOf(SaleGaps, Report!Docs)
        + SumOf(Nothing, Report!Docs)
  <2>1. \A d \in Report!Docs : /\ line[d] \in Int /\ advance[d] \in Int /\ back[d] \in Int
                               /\ void[d] \in Int /\ open[d] \in Int /\ repaid[d] \in Int
                               /\ SaleGaps[d] \in Int /\ Nothing[d] \in Int
    BY <1>1, <1>2, <1>3, <1>4, <1>5, <1>6, GapsAre, NothingIs
  <2>2. QED
    BY <1>8, <2>1, DocsFinite, SumsAgree
<1>10. QED
  BY <1>1, <1>2, <1>3, <1>4, <1>5, <1>6, <1>9, GapsAre, NothingIs

\* Payables.
LEMMA PayablesReconcile ==
  ASSUME AllFaithful
  PROVE  -Report!Balance["payable"] =
           Report!PurchasesOutstanding - Report!Unapplied("payment")
           - Report!ReturnsTotal("purchase_return")
<1> DEFINE open == Shown(Report!Unpaid, {"purchase"})
           advance == Shown(Report!Unpaid, {"payment"})
           back == Shown(Report!Total, {"purchase_return"})
           line == Column("payable")
<1>0. /\ {"purchase"} \in SUBSET Kinds /\ {"payment"} \in SUBSET Kinds
      /\ {"purchase_return"} \in SUBSET Kinds
  BY DEF Kinds, Report!Posted
<1>1. /\ Report!PurchasesOutstanding = SumOf(open, Report!Docs)
      /\ Report!PurchasesOutstanding \in Int
      /\ \A d \in Report!Docs : open[d] = IF KindOf(d) \in {"purchase"} THEN Report!Unpaid[d] ELSE 0
      /\ \A d \in Report!Docs : open[d] \in Int
  BY <1>0, ShownIs DEF Report!PurchasesOutstanding
<1>2. /\ Report!Unapplied("payment") = SumOf(advance, Report!Docs)
      /\ Report!Unapplied("payment") \in Int
      /\ \A d \in Report!Docs : advance[d] = IF KindOf(d) \in {"payment"} THEN Report!Unpaid[d] ELSE 0
      /\ \A d \in Report!Docs : advance[d] \in Int
  BY <1>0, ShownIs DEF Report!Unapplied
<1>3. /\ Report!ReturnsTotal("purchase_return") = SumOf(back, Report!Docs)
      /\ Report!ReturnsTotal("purchase_return") \in Int
      /\ \A d \in Report!Docs : back[d] = IF KindOf(d) \in {"purchase_return"} THEN Report!Total[d] ELSE 0
      /\ \A d \in Report!Docs : back[d] \in Int
  BY <1>0, ShownIs DEF Report!ReturnsTotal
<1>4. /\ Report!Balance["payable"] = SumOf(line, Report!Docs)
      /\ Report!Balance["payable"] \in Int
      /\ \A d \in Report!Docs : line[d] = ledger[d]["payable"] /\ line[d] \in Int
  BY AccountsAre, ColumnIs DEF AllFaithful
<1> HIDE DEF open, advance, back, line
<1>5. ASSUME NEW d \in Report!Docs
      PROVE  line[d] + open[d] + PurchaseGaps[d] + Nothing[d]
               = advance[d] + back[d] + AdjustedGaps[d] + Nothing[d]
  <2> DEFINE kind == KindOf(d)
  <2>1. /\ kind \in Report!Posted \cup {"void", "adjustment", "none"}
        /\ kind # "none" =>
              /\ doc[d].total \in Int /\ doc[d].paid \in Int /\ doc[d].first \in Int
              /\ doc[d].adjusted \in Int
              /\ Report!Total[d] = doc[d].total
              /\ Report!Unpaid[d] = doc[d].total - doc[d].paid
    BY KindIs DEF Kinds, KindOf
  <2>2. line[d] = CASE kind = "purchase" -> doc[d].first + doc[d].adjusted - doc[d].total
                    [] kind \in {"purchase_return", "payment"} -> doc[d].total
                    [] kind = "adjustment" -> -doc[d].total
                    [] OTHER -> 0
    BY <1>4, EntryShown
  <2>3. /\ PurchaseGaps[d] = CASE kind = "purchase" -> doc[d].paid - doc[d].first
                               [] kind = "payment" -> -doc[d].paid
                               [] OTHER -> 0
        /\ AdjustedGaps[d] = CASE kind = "purchase" -> doc[d].adjusted
                               [] kind = "adjustment" -> -doc[d].total
                               [] OTHER -> 0
    BY GapsAre
  <2>4. /\ open[d] = IF kind \in {"purchase"} THEN Report!Unpaid[d] ELSE 0
        /\ advance[d] = IF kind \in {"payment"} THEN Report!Unpaid[d] ELSE 0
        /\ back[d] = IF kind \in {"purchase_return"} THEN Report!Total[d] ELSE 0
        /\ Nothing[d] = 0
    BY <1>1, <1>2, <1>3, NothingIs
  <2> HIDE DEF kind
  <2>5. QED
    BY <2>1, <2>2, <2>3, <2>4 DEF Report!Posted
<1>6. SumOf(line, Report!Docs) + SumOf(open, Report!Docs) + SumOf(PurchaseGaps, Report!Docs)
        + SumOf(Nothing, Report!Docs)
      = SumOf(advance, Report!Docs) + SumOf(back, Report!Docs) + SumOf(AdjustedGaps, Report!Docs)
        + SumOf(Nothing, Report!Docs)
  <2>1. \A d \in Report!Docs : /\ line[d] \in Int /\ advance[d] \in Int /\ back[d] \in Int
                               /\ open[d] \in Int /\ PurchaseGaps[d] \in Int
                               /\ AdjustedGaps[d] \in Int /\ Nothing[d] \in Int
    BY <1>1, <1>2, <1>3, <1>4, GapsAre, NothingIs
  <2>2. QED
    BY <1>5, <2>1, DocsFinite, SumsAgree
<1>7. QED
  BY <1>1, <1>2, <1>3, <1>4, <1>6, GapsAre, NothingIs

\* Taxes, of both sides.
LEMMA TaxesReconcile ==
  ASSUME AllFaithful
  PROVE  /\ -Report!Balance["taxPayable"] =
              Report!OutputTax - Report!ReturnsTax("sale_return")
              - Report!Sum(Report!Tax, Report!Of({"void"}))
         /\ Report!Balance["taxReceivable"] =
              Report!InputTax - Report!ReturnsTax("purchase_return")
<1> DEFINE owed == Shown(Report!Tax, {"sale", "void"})
           back == Shown(Report!Tax, {"sale_return"})
           void == Shown(Report!Tax, {"void"})
           line == Column("taxPayable")
           owedIn == Shown(Report!Tax, {"purchase"})
           backIn == Shown(Report!Tax, {"purchase_return"})
           lineIn == Column("taxReceivable")
<1>0. /\ {"sale", "void"} \in SUBSET Kinds /\ {"purchase"} \in SUBSET Kinds
      /\ {"sale_return"} \in SUBSET Kinds /\ {"void"} \in SUBSET Kinds
      /\ {"purchase_return"} \in SUBSET Kinds
  BY DEF Kinds, Report!Posted
<1>1. /\ Report!OutputTax = SumOf(owed, Report!Docs) /\ Report!OutputTax \in Int
      /\ \A d \in Report!Docs : owed[d] = IF KindOf(d) \in {"sale", "void"} THEN Report!Tax[d] ELSE 0
      /\ \A d \in Report!Docs : owed[d] \in Int
  BY <1>0, ShownIs DEF Report!OutputTax, Report!Invoices
<1>2. /\ Report!ReturnsTax("sale_return") = SumOf(back, Report!Docs)
      /\ Report!ReturnsTax("sale_return") \in Int
      /\ \A d \in Report!Docs : back[d] = IF KindOf(d) \in {"sale_return"} THEN Report!Tax[d] ELSE 0
      /\ \A d \in Report!Docs : back[d] \in Int
  BY <1>0, ShownIs DEF Report!ReturnsTax
<1>3. /\ Report!Sum(Report!Tax, Report!Of({"void"})) = SumOf(void, Report!Docs)
      /\ Report!Sum(Report!Tax, Report!Of({"void"})) \in Int
      /\ \A d \in Report!Docs : void[d] = IF KindOf(d) \in {"void"} THEN Report!Tax[d] ELSE 0
      /\ \A d \in Report!Docs : void[d] \in Int
  BY <1>0, ShownIs
<1>4. /\ Report!InputTax = SumOf(owedIn, Report!Docs) /\ Report!InputTax \in Int
      /\ \A d \in Report!Docs : owedIn[d] = IF KindOf(d) \in {"purchase"} THEN Report!Tax[d] ELSE 0
      /\ \A d \in Report!Docs : owedIn[d] \in Int
  BY <1>0, ShownIs DEF Report!InputTax
<1>5. /\ Report!ReturnsTax("purchase_return") = SumOf(backIn, Report!Docs)
      /\ Report!ReturnsTax("purchase_return") \in Int
      /\ \A d \in Report!Docs :
           backIn[d] = IF KindOf(d) \in {"purchase_return"} THEN Report!Tax[d] ELSE 0
      /\ \A d \in Report!Docs : backIn[d] \in Int
  BY <1>0, ShownIs DEF Report!ReturnsTax
<1>6. /\ Report!Balance["taxPayable"] = SumOf(line, Report!Docs)
      /\ Report!Balance["taxPayable"] \in Int
      /\ \A d \in Report!Docs : line[d] = ledger[d]["taxPayable"] /\ line[d] \in Int
  BY AccountsAre, ColumnIs DEF AllFaithful
<1>7. /\ Report!Balance["taxReceivable"] = SumOf(lineIn, Report!Docs)
      /\ Report!Balance["taxReceivable"] \in Int
      /\ \A d \in Report!Docs : lineIn[d] = ledger[d]["taxReceivable"] /\ lineIn[d] \in Int
  BY AccountsAre, ColumnIs DEF AllFaithful
<1> HIDE DEF owed, back, void, line, owedIn, backIn, lineIn
<1>8. ASSUME NEW d \in Report!Docs
      PROVE  /\ line[d] + owed[d] + Nothing[d] + Nothing[d]
                  = back[d] + void[d] + Nothing[d] + Nothing[d]
             /\ lineIn[d] + backIn[d] + Nothing[d] + Nothing[d]
                  = owedIn[d] + Nothing[d] + Nothing[d] + Nothing[d]
  <2> DEFINE kind == KindOf(d)
  <2>1. /\ kind \in Report!Posted \cup {"void", "adjustment", "none"}
        /\ kind # "none" => doc[d].tax \in Int /\ Report!Tax[d] = doc[d].tax
    BY KindIs DEF Kinds, KindOf
  <2>2. /\ line[d] = CASE kind = "sale" -> -doc[d].tax [] kind = "sale_return" -> doc[d].tax
                       [] OTHER -> 0
        /\ lineIn[d] = CASE kind = "purchase" -> doc[d].tax
                         [] kind = "purchase_return" -> -doc[d].tax [] OTHER -> 0
    BY <1>6, <1>7, EntryShown
  <2>3. /\ owed[d] = IF kind \in {"sale", "void"} THEN Report!Tax[d] ELSE 0
        /\ back[d] = IF kind \in {"sale_return"} THEN Report!Tax[d] ELSE 0
        /\ void[d] = IF kind \in {"void"} THEN Report!Tax[d] ELSE 0
        /\ owedIn[d] = IF kind \in {"purchase"} THEN Report!Tax[d] ELSE 0
        /\ backIn[d] = IF kind \in {"purchase_return"} THEN Report!Tax[d] ELSE 0
        /\ Nothing[d] = 0
    BY <1>1, <1>2, <1>3, <1>4, <1>5, NothingIs
  <2> HIDE DEF kind
  <2>4. QED
    BY <2>1, <2>2, <2>3 DEF Report!Posted
<1>9. /\ SumOf(line, Report!Docs) + SumOf(owed, Report!Docs) + SumOf(Nothing, Report!Docs)
           + SumOf(Nothing, Report!Docs)
         = SumOf(back, Report!Docs) + SumOf(void, Report!Docs) + SumOf(Nothing, Report!Docs)
           + SumOf(Nothing, Report!Docs)
      /\ SumOf(lineIn, Report!Docs) + SumOf(backIn, Report!Docs) + SumOf(Nothing, Report!Docs)
           + SumOf(Nothing, Report!Docs)
         = SumOf(owedIn, Report!Docs) + SumOf(Nothing, Report!Docs) + SumOf(Nothing, Report!Docs)
           + SumOf(Nothing, Report!Docs)
  <2>1. \A d \in Report!Docs : /\ line[d] \in Int /\ owed[d] \in Int /\ back[d] \in Int
                               /\ void[d] \in Int /\ Nothing[d] \in Int
    BY <1>1, <1>2, <1>3, <1>6, NothingIs
  <2>2. \A d \in Report!Docs : /\ lineIn[d] \in Int /\ owedIn[d] \in Int /\ backIn[d] \in Int
                               /\ Nothing[d] \in Int
    BY <1>4, <1>5, <1>7, NothingIs
  <2>3. /\ \A d \in Report!Docs : line[d] + owed[d] + Nothing[d] + Nothing[d]
                                    = back[d] + void[d] + Nothing[d] + Nothing[d]
        /\ \A d \in Report!Docs : lineIn[d] + backIn[d] + Nothing[d] + Nothing[d]
                                    = owedIn[d] + Nothing[d] + Nothing[d] + Nothing[d]
    BY <1>8
  <2>4. QED
    BY <2>1, <2>2, <2>3, DocsFinite, SumsAgree
<1>10. QED
  BY <1>1, <1>2, <1>3, <1>4, <1>5, <1>6, <1>7, <1>9, NothingIs

\* Expenses, and the cash and bank books.
LEMMA MoneyReconciles ==
  ASSUME AllFaithful
  PROVE  /\ Report!Balance["expenses"] = Report!ExpensesTotal
         /\ Report!CashBook + Report!BankBook =
              Report!Sum(Report!First, Report!Of({"sale"})) + Report!ReturnsTotal("collection")
              - Report!Sum(Report!First, Report!Of({"purchase"})) - Report!ReturnsTotal("payment")
              - Report!ExpensesTotal
<1> DEFINE sold == Shown(Report!First, {"sale"})
           collected == Shown(Report!Total, {"collection"})
           bought == Shown(Report!First, {"purchase"})
           settled == Shown(Report!Total, {"payment"})
           spent == Shown(Report!Total, {"expense"})
           line == Column("expenses")
           cash == Column("cash")
           atBank == Column("bank")
           money == Plus(cash, atBank, Report!Docs)
<1>0. /\ {"sale"} \in SUBSET Kinds /\ {"purchase"} \in SUBSET Kinds
      /\ {"collection"} \in SUBSET Kinds /\ {"payment"} \in SUBSET Kinds
      /\ {"expense"} \in SUBSET Kinds
  BY DEF Kinds, Report!Posted
<1>1. /\ Report!Sum(Report!First, Report!Of({"sale"})) = SumOf(sold, Report!Docs)
      /\ Report!Sum(Report!First, Report!Of({"sale"})) \in Int
      /\ \A d \in Report!Docs : sold[d] = IF KindOf(d) \in {"sale"} THEN Report!First[d] ELSE 0
      /\ \A d \in Report!Docs : sold[d] \in Int
  BY <1>0, ShownIs
<1>2. /\ Report!ReturnsTotal("collection") = SumOf(collected, Report!Docs)
      /\ Report!ReturnsTotal("collection") \in Int
      /\ \A d \in Report!Docs : collected[d] = IF KindOf(d) \in {"collection"} THEN Report!Total[d] ELSE 0
      /\ \A d \in Report!Docs : collected[d] \in Int
  BY <1>0, ShownIs DEF Report!ReturnsTotal
<1>3. /\ Report!Sum(Report!First, Report!Of({"purchase"})) = SumOf(bought, Report!Docs)
      /\ Report!Sum(Report!First, Report!Of({"purchase"})) \in Int
      /\ \A d \in Report!Docs : bought[d] = IF KindOf(d) \in {"purchase"} THEN Report!First[d] ELSE 0
      /\ \A d \in Report!Docs : bought[d] \in Int
  BY <1>0, ShownIs
<1>4. /\ Report!ReturnsTotal("payment") = SumOf(settled, Report!Docs)
      /\ Report!ReturnsTotal("payment") \in Int
      /\ \A d \in Report!Docs : settled[d] = IF KindOf(d) \in {"payment"} THEN Report!Total[d] ELSE 0
      /\ \A d \in Report!Docs : settled[d] \in Int
  BY <1>0, ShownIs DEF Report!ReturnsTotal
<1>5. /\ Report!ExpensesTotal = SumOf(spent, Report!Docs) /\ Report!ExpensesTotal \in Int
      /\ \A d \in Report!Docs : spent[d] = IF KindOf(d) \in {"expense"} THEN Report!Total[d] ELSE 0
      /\ \A d \in Report!Docs : spent[d] \in Int
  BY <1>0, ShownIs DEF Report!ExpensesTotal
<1>6. /\ Report!Balance["expenses"] = SumOf(line, Report!Docs)
      /\ Report!Balance["expenses"] \in Int
      /\ \A d \in Report!Docs : line[d] = ledger[d]["expenses"] /\ line[d] \in Int
  BY AccountsAre, ColumnIs DEF AllFaithful
<1>7. /\ Report!CashBook + Report!BankBook = SumOf(money, Report!Docs)
      /\ Report!CashBook + Report!BankBook \in Int
      /\ \A d \in Report!Docs : /\ money[d] = ledger[d]["cash"] + ledger[d]["bank"]
                                /\ money[d] \in Int
  <2>1. /\ Report!CashBook = SumOf(cash, Report!Docs) /\ Report!CashBook \in Int
        /\ \A d \in Report!Docs : cash[d] = ledger[d]["cash"] /\ cash[d] \in Int
    BY AccountsAre, ColumnIs DEF AllFaithful, Report!CashBook
  <2>2. /\ Report!BankBook = SumOf(atBank, Report!Docs) /\ Report!BankBook \in Int
        /\ \A d \in Report!Docs : atBank[d] = ledger[d]["bank"] /\ atBank[d] \in Int
    BY AccountsAre, ColumnIs DEF AllFaithful, Report!BankBook
  <2> HIDE DEF cash, atBank
  <2>3. SumOf(money, Report!Docs) = SumOf(cash, Report!Docs) + SumOf(atBank, Report!Docs)
    BY <2>1, <2>2, DocsFinite, SumPlus
  <2>4. QED
    BY <2>1, <2>2, <2>3 DEF Plus
<1> HIDE DEF sold, collected, bought, settled, spent, line, money
<1>8. ASSUME NEW d \in Report!Docs
      PROVE  /\ line[d] = spent[d]
             /\ money[d] + bought[d] + settled[d] + spent[d]
                  = sold[d] + collected[d] + Nothing[d] + Nothing[d]
  <2> DEFINE kind == KindOf(d)
  <2>1. /\ kind \in Report!Posted \cup {"void", "adjustment", "none"}
        /\ kind # "none" =>
              /\ doc[d].total \in Int /\ doc[d].first \in Int
              /\ Report!Total[d] = doc[d].total /\ Report!First[d] = doc[d].first
    BY KindIs DEF Kinds, KindOf
  <2>2. /\ line[d] = CASE kind = "expense" -> doc[d].total [] OTHER -> 0
        /\ money[d] = CASE kind = "sale" -> doc[d].first
                        [] kind = "collection" -> doc[d].total
                        [] kind = "purchase" -> -doc[d].first
                        [] kind \in {"payment", "expense"} -> -doc[d].total
                        [] OTHER -> 0
    BY <1>6, <1>7, EntryShown
  <2>3. /\ sold[d] = IF kind \in {"sale"} THEN Report!First[d] ELSE 0
        /\ collected[d] = IF kind \in {"collection"} THEN Report!Total[d] ELSE 0
        /\ bought[d] = IF kind \in {"purchase"} THEN Report!First[d] ELSE 0
        /\ settled[d] = IF kind \in {"payment"} THEN Report!Total[d] ELSE 0
        /\ spent[d] = IF kind \in {"expense"} THEN Report!Total[d] ELSE 0
        /\ Nothing[d] = 0
    BY <1>1, <1>2, <1>3, <1>4, <1>5, NothingIs
  <2> HIDE DEF kind
  <2>4. QED
    BY <2>1, <2>2, <2>3 DEF Report!Posted
<1>9. SumOf(line, Report!Docs) = SumOf(spent, Report!Docs)
  BY <1>8, DocsFinite, SumSame
<1>10. SumOf(money, Report!Docs) + SumOf(bought, Report!Docs) + SumOf(settled, Report!Docs)
         + SumOf(spent, Report!Docs)
       = SumOf(sold, Report!Docs) + SumOf(collected, Report!Docs) + SumOf(Nothing, Report!Docs)
         + SumOf(Nothing, Report!Docs)
  <2>1. \A d \in Report!Docs :
           /\ money[d] \in Int /\ bought[d] \in Int /\ settled[d] \in Int /\ spent[d] \in Int
           /\ sold[d] \in Int /\ collected[d] \in Int /\ Nothing[d] \in Int
    BY <1>1, <1>2, <1>3, <1>4, <1>5, <1>7, NothingIs
  <2>2. \A d \in Report!Docs : money[d] + bought[d] + settled[d] + spent[d]
                                 = sold[d] + collected[d] + Nothing[d] + Nothing[d]
    BY <1>8
  <2>3. QED
    BY <2>1, <2>2, DocsFinite, SumsAgree
<1>11. QED
  BY <1>1, <1>2, <1>3, <1>4, <1>5, <1>6, <1>7, <1>9, <1>10, NothingIs

\* The balance sheet is off by the profit, and by a cent of each adjustment at most.
LEMMA SheetReconciles ==
  ASSUME AllFaithful
  PROVE  Report!SheetDifference - Report!NetProfit \in
           -Report!Cardinality(Report!Of({"adjustment"}))
             ..Report!Cardinality(Report!Of({"adjustment"}))
<1> DEFINE A == Report!Accounts
           D == Report!Docs
           b == Report!Balance
           odd == Report!Of({"adjustment"})
           off == [d \in D |-> SumOf(ledger[d], A)]
           one == [d \in D |-> IF d \in odd THEN 1 ELSE 0]
           less == Minus(Nothing, one, D)
<1>1. b \in [A -> Int] /\ \A a \in A : b[a] = SumOf(Column(a), D)
  <2>1. b = [a \in A |-> b[a]]
    BY DEF Report!Balance
  <2>2. \A a \in A : b[a] \in Int /\ b[a] = SumOf(Column(a), D)
    BY ColumnIs DEF AllFaithful
  <2> HIDE DEF b
  <2>3. QED
    BY <2>1, <2>2
<1>2. IsFiniteSet(A) /\ SumOf(b, A)
        = b["cash"] + b["bank"] + b["receivable"] + b["inventory"] + b["taxReceivable"]
          + b["payable"] + b["taxPayable"] + b["revenue"] + b["cogs"] + b["expenses"]
  BY <1>1, AccountsSum
<1>3. ASSUME NEW W \in SUBSET A
      PROVE  LET g == Within(b, W, A) IN
             Report!BalanceOf(W)
               = g["cash"] + g["bank"] + g["receivable"] + g["inventory"] + g["taxReceivable"]
                 + g["payable"] + g["taxPayable"] + g["revenue"] + g["cogs"] + g["expenses"]
  <2> DEFINE g == Within(b, W, A)
  <2>1. Report!BalanceOf(W) = SumOf(b, W)
    BY SumIsSumOf DEF Report!BalanceOf
  <2>2. SumOf(b, W) = SumOf(g, A)
    BY <1>1, <1>2, SumPart
  <2>3. g \in [A -> Int]
    BY <1>1 DEF Within
  <2> HIDE DEF g
  <2>4. QED
    BY <2>1, <2>2, <2>3, AccountsSum DEF g
<1>4. Report!SheetDifference - Report!NetProfit = SumOf(b, A)
  <2> HIDE DEF b
  <2>1. /\ Report!Assets \in SUBSET A /\ Report!Liabilities \in SUBSET A
        /\ Report!Revenues \in SUBSET A /\ Report!Costs \in SUBSET A
    BY DEF Report!Accounts
  <2>2. \A a \in A : b[a] \in Int
    BY <1>1
  <2>3. Report!BalanceOf(Report!Assets)
          = b["cash"] + b["bank"] + b["receivable"] + b["inventory"] + b["taxReceivable"]
    BY <1>3, <2>1, <2>2, AccountsAre DEF Within, Report!Assets
  <2>4. Report!BalanceOf(Report!Liabilities) = b["payable"] + b["taxPayable"]
    BY <1>3, <2>1, <2>2, AccountsAre DEF Within, Report!Liabilities
  <2>5. Report!BalanceOf(Report!Revenues) = b["revenue"]
    BY <1>3, <2>1, <2>2, AccountsAre DEF Within, Report!Revenues
  <2>6. Report!BalanceOf(Report!Costs) = b["cogs"] + b["expenses"]
    BY <1>3, <2>1, <2>2, AccountsAre DEF Within, Report!Costs
  <2>7. QED
    BY <1>2, <2>2, <2>3, <2>4, <2>5, <2>6, AccountsAre
       DEF Report!SheetDifference, Report!NetProfit
<1>5. SumOf(b, A) = SumOf(off, D)
  <2>1. \A d \in D, a \in A : ledger[d][a] \in Int
    BY EntryShown
  <2>2. SumOf(off, D) = SumOf([a \in A |-> SumOf(Column(a), D)], A)
    BY <1>2, <2>1, DocsFinite, SumSwap DEF Column
  <2>3. b = [a \in A |-> SumOf(Column(a), D)]
    BY <1>1
  <2>4. QED
    BY <2>2, <2>3
<1>6. \A d \in D : /\ off[d] \in Int /\ one[d] \in Int /\ less[d] \in Int
                   /\ off[d] <= one[d] /\ less[d] <= off[d]
  <2> SUFFICES ASSUME NEW d \in D
               PROVE  /\ off[d] \in Int /\ one[d] \in Int /\ less[d] \in Int
                      /\ off[d] <= one[d] /\ less[d] <= off[d]
    OBVIOUS
  <2>1. /\ SumOf(ledger[d], A) \in -1..1
        /\ KindOf(d) # "adjustment" => SumOf(ledger[d], A) = 0
    BY EntryShown
  <2>2. d \in odd <=> KindOf(d) = "adjustment"
    BY KindIs
  <2>3. off[d] = SumOf(ledger[d], A) /\ one[d] = (IF d \in odd THEN 1 ELSE 0)
        /\ less[d] = 0 - one[d]
    BY NothingIs DEF Minus
  <2> HIDE DEF off, one, less, odd
  <2>4. QED
    BY <2>1, <2>2, <2>3
<1>7. SumOf(one, D) = Report!Cardinality(odd) /\ Report!Cardinality(odd) \in Nat
  <2>1. odd \in SUBSET D /\ IsFiniteSet(odd)
    BY DocsFinite, FS_Subset DEF Report!Of, Report!Rows
  <2>2. SumOf(one, odd) = Cardinality(odd)
    BY <2>1, SumOfOnes
  <2>3. SumOf(one, odd) = SumOf(Within(one, odd, D), D)
    BY <2>1, DocsFinite, SumPart
  <2>4. SumOf(Within(one, odd, D), D) = SumOf(one, D)
    <3>1. \A d \in D : Within(one, odd, D)[d] = one[d]
      BY DEF Within
    <3>2. QED
      BY <3>1, DocsFinite, SumSame
  <2>5. Cardinality(odd) \in Nat
    BY <2>1, FS_CardinalityType
  <2>6. QED
    BY <2>2, <2>3, <2>4, <2>5, SameCardinality
<1> HIDE DEF off, one, odd
<1>8. SumOf(less, D) = 0 - SumOf(one, D)
  BY <1>6, NothingIs, DocsFinite, SumMinus
<1> HIDE DEF less
<1>9. SumOf(off, D) <= SumOf(one, D) /\ SumOf(less, D) <= SumOf(off, D) /\ SumOf(off, D) \in Int
  BY <1>6, DocsFinite, SumMonotone, SumType
<1>10. QED
  BY <1>4, <1>5, <1>7, <1>8, <1>9 DEF odd

\* When each document has been posted from the amounts it was created with, what the reports
\* add up of the ledger is what they add up of the documents, but for the differences that
\* Reconciled names (reports_service.go, GetAccountBalances).
THEOREM ReportsReconcile == OfficeSpec => []Reconciled
<1>1. ASSUME LedgerInv, \A d \in Report!Rows : Report!Faithful(d)
      PROVE  Report!Reconciled
  <2>1. AllFaithful
    BY <1>1 DEF AllFaithful
  <2>2. QED
    BY <2>1, ReceivablesReconcile, PayablesReconcile, TaxesReconcile, MoneyReconciles,
       SheetReconciles
       DEF Report!Reconciled
<1>2. LedgerInv => Reconciled
  BY <1>1 DEF Reconciled, Report!Reconciled
<1>3. QED
  BY <1>2, LedgerSound, PTL
=============================================================================
