----------------------------- MODULE Numbering -----------------------------
(***************************************************************************)
(* Document numbers of one sequence ("sale") of one company: the server's  *)
(* counters (go_backend_rmt/internal/services/numbering_sequence_service.go) *)
(* and the blocks of numbers that devices reserve to print receipts        *)
(* offline (flutter_app/lib/core/offline_cache/offline_numbering.dart).    *)
(*                                                                         *)
(* A location draws from its own counter row if it has one, else from the  *)
(* company's global row, else it provisions a row of its own.  Online      *)
(* documents draw one number inside their own transaction, which may roll  *)
(* back; a device draws a block in a transaction of the server's.          *)
(*                                                                         *)
(* Simplifications:                                                        *)
(*   - all rows format numbers alike (the seeded and the auto-provisioned  *)
(*     row have the same prefix and length), so a number is a natural;     *)
(*   - the rows of a scope are a sequence in sequence_id order, of which   *)
(*     the last is used;                                                   *)
(*   - a client that gives up on a reservation does not start another one  *)
(*     in the same coroutine while the first is still on the server;       *)
(*   - whether a device is online only decides whether it asks, and it     *)
(*     stays at one location (it keeps one block per location).            *)
(*                                                                         *)
(* Operators named Fault_... are used by no action: each is a wrong form   *)
(* of the definition after it, and some property must refute it.           *)
(***************************************************************************)
EXTENDS Naturals, Sequences

CONSTANTS
  Locations,
  Clerks,        \* server requests that create online documents
  Devices,       \* tills that print receipts offline
  LocationOf,    \* the location of each clerk and device
  HasGlobal,     \* TRUE for a company seeded with a global row
  BlockSize,     \* 100 in the app
  LowWatermark,  \* 20 in the app
  MaxNumber,     \* bound: numbers handed out
  MaxAdmin,      \* bound: rows created or deleted by an administrator
  Global, NoScope

\* A device reserves from two coroutines: a sale that found its block used up,
\* and the background prefetch.
Coroutines == Devices \X {"sale", "prefetch"}
Procs == Clerks \cup Coroutines
DeviceOf(p) == p[1]
PlaceOf(p) == LocationOf[IF p \in Clerks THEN p ELSE DeviceOf(p)]
Scopes == Locations \cup {Global}
Numbers == 1..MaxNumber

ASSUME NumberingConstants ==
  /\ Clerks \cap (Devices \cup Coroutines) = {}
  /\ Devices \cap Coroutines = {}
  /\ LocationOf \in [Clerks \cup Devices -> Locations]
  /\ HasGlobal \in BOOLEAN
  /\ BlockSize \in Nat \ {0} /\ LowWatermark \in Nat
  /\ MaxNumber \in Nat /\ MaxAdmin \in Nat
  /\ Global \notin Locations
  /\ NoScope \notin Scopes

VARIABLES
  rows,      \* rows[s]: current_number of each committed row of scope s
  stage,     \* stage[p]: where p's server transaction is
  scope,     \* the scope whose row p's transaction has locked
  pos,       \* the index of that row in rows[scope[p]]
  fresh,     \* the transactions that provisioned that row themselves
  first,     \* the first number p's transaction has drawn
  waiting,   \* coroutines of devices that await a reservation
  reply,     \* reply[p]: first number of a block on its way back, 0 if none
  next, last, \* the unused block of each device (empty when next > last)
  printed,   \* printed[d]: receipts printed by d and not yet synced
  recorded,  \* recorded[l]: numbers of the documents the server has
  copies,    \* copies[l][n]: receipts and online documents numbered n at l
  admin

server  == <<stage, scope, pos, fresh, first>>
device  == <<waiting, reply, next, last, printed>>
vars == <<rows, stage, scope, pos, fresh, first, waiting, reply, next, last,
          printed, recorded, copies, admin>>

\* A new company, seeded with a global row or not.
Company(seeded) ==
  /\ rows = [s \in Scopes |-> IF s = Global /\ seeded THEN <<0>> ELSE <<>>]
  /\ stage = [p \in Procs |-> "idle"]
  /\ scope = [p \in Procs |-> NoScope]
  /\ pos = [p \in Procs |-> 0]
  /\ fresh = {}
  /\ first = [p \in Procs |-> 0]
  /\ waiting = {}
  /\ reply = [p \in Coroutines |-> 0]
  /\ next = [d \in Devices |-> 1]
  /\ last = [d \in Devices |-> 0]
  /\ printed = [d \in Devices |-> {}]
  /\ recorded = [l \in Locations |-> {}]
  /\ copies = [l \in Locations |-> [n \in Numbers |-> 0]]
  /\ admin = 0

Init == Company(HasGlobal)

----------------------------------------------------------------------------
(* lockOrCreateSequence, a statement at a time                             *)

Quantity(p) == IF p \in Clerks THEN 1 ELSE BlockSize

\* Fault: no advisory lock.
Fault_NoAdvisoryLock(p) == TRUE

\* The advisory lock of a location is held from the first statement on.
LocationFree(p) == \A q \in Procs : stage[q] # "idle" => PlaceOf(q) # PlaceOf(p)

\* Fault: SELECT without FOR UPDATE.
Fault_NoRowLock(s) == TRUE

\* SELECT ... FOR UPDATE locks every row of the scope until the commit.
ScopeFree(s) == \A q \in Procs : stage[q] = "drawn" => scope[q] # s

\* Lock row i of scope s, whose counter stands at n, and draw the numbers after it.
Draw(p, s, i, n) ==
  /\ n + Quantity(p) <= MaxNumber
  /\ stage' = [stage EXCEPT ![p] = "drawn"]
  /\ scope' = [scope EXCEPT ![p] = s]
  /\ pos' = [pos EXCEPT ![p] = i]
  /\ first' = [first EXCEPT ![p] = n + 1]
  /\ UNCHANGED <<rows, device, recorded, copies, admin>>

\* A request may enter: a clerk at any time, a coroutine when its client waits.
MayEnter(p) ==
  /\ stage[p] = "idle"
  /\ p \in Clerks \/ (p \in waiting /\ reply[p] = 0)
  /\ LocationFree(p)

\* The location has a row of its own.
DrawLocal(p) ==
  LET l == PlaceOf(p) IN
  /\ MayEnter(p)
  /\ rows[l] # <<>>
  /\ ScopeFree(l)
  /\ Draw(p, l, Len(rows[l]), rows[l][Len(rows[l])])
  /\ UNCHANGED fresh

\* It has none: on to the statement that looks for the global row.
FindNoLocal(p) ==
  /\ MayEnter(p)
  /\ rows[PlaceOf(p)] = <<>>
  /\ stage' = [stage EXCEPT ![p] = "global"]
  /\ UNCHANGED <<rows, scope, pos, fresh, first, device, recorded, copies, admin>>

DrawGlobal(p) ==
  /\ stage[p] = "global"
  /\ rows[Global] # <<>>
  /\ ScopeFree(Global)
  /\ Draw(p, Global, Len(rows[Global]), rows[Global][Len(rows[Global])])
  /\ UNCHANGED fresh

\* Neither: insert a row for the location, at 0, and select it.
Provision(p) ==
  LET l == PlaceOf(p) IN
  /\ stage[p] = "global"
  /\ rows[Global] = <<>>
  /\ Draw(p, l, Len(rows[l]) + 1, 0)
  /\ fresh' = fresh \cup {p}

----------------------------------------------------------------------------
(* The end of a transaction                                                *)

Finish(p) ==
  /\ stage' = [stage EXCEPT ![p] = "idle"]
  /\ scope' = [scope EXCEPT ![p] = NoScope]
  /\ pos' = [pos EXCEPT ![p] = 0]
  /\ fresh' = fresh \ {p}
  /\ first' = [first EXCEPT ![p] = 0]

\* The counter written by p's transaction becomes visible.
WriteCounter(p) ==
  LET s == scope[p]
      n == first[p] + Quantity(p) - 1
      r == rows[s]
  IN  rows' = [rows EXCEPT ![s] =
        IF p \in fresh
          THEN SubSeq(r, 1, pos[p] - 1) \o <<n>> \o SubSeq(r, pos[p], Len(r))
          ELSE [r EXCEPT ![pos[p]] = n]]

\* An online document commits with its number; the unique index on
\* (location_id, sale_number) lets it only if the number is free.
CommitDocument(p) ==
  LET l == PlaceOf(p) IN
  /\ p \in Clerks
  /\ stage[p] = "drawn"
  /\ first[p] \notin recorded[l]
  /\ recorded' = [recorded EXCEPT ![l] = @ \cup {first[p]}]
  /\ copies' = [copies EXCEPT ![l][first[p]] = @ + 1]
  /\ WriteCounter(p)
  /\ Finish(p)
  /\ UNCHANGED <<device, admin>>

\* ReserveNumberBlock commits and answers.
CommitReservation(p) ==
  /\ p \in Coroutines
  /\ stage[p] = "drawn"
  /\ reply' = [reply EXCEPT ![p] = IF p \in waiting THEN first[p] ELSE 0]
  /\ WriteCounter(p)
  /\ Finish(p)
  /\ UNCHANGED <<waiting, next, last, printed, recorded, copies, admin>>

\* A later statement of the transaction fails (out of stock, number taken,
\* connection lost, server stopped): nothing of it remains, and a device that
\* waits gets an error.
Rollback(p) ==
  /\ stage[p] # "idle"
  /\ waiting' = waiting \ {p}
  /\ Finish(p)
  /\ UNCHANGED <<rows, reply, next, last, printed, recorded, copies, admin>>

----------------------------------------------------------------------------
(* Devices                                                                 *)

Remaining(d) == last[d] + 1 - next[d]

\* Fault: the block is used one number beyond its end.
Fault_PrintPastEnd(d) ==
  /\ next[d] <= last[d] + 1
  /\ next[d] <= MaxNumber
  /\ next' = [next EXCEPT ![d] = @ + 1]
  /\ printed' = [printed EXCEPT ![d] = @ \cup {next[d]}]
  /\ copies' = [copies EXCEPT ![LocationOf[d]][next[d]] = @ + 1]
  /\ UNCHANGED <<rows, server, waiting, reply, last, recorded, admin>>

\* nextSaleNumber with numbers left: read, advance and write back the block.
PrintReceipt(d) ==
  /\ next[d] <= last[d]
  /\ next' = [next EXCEPT ![d] = @ + 1]
  /\ printed' = [printed EXCEPT ![d] = @ \cup {next[d]}]
  /\ copies' = [copies EXCEPT ![LocationOf[d]][next[d]] = @ + 1]
  /\ UNCHANGED <<rows, server, waiting, reply, last, recorded, admin>>

\* nextSaleNumber with the block used up, or the prefetch with few numbers left.
AskForBlock(p) ==
  /\ p \notin waiting
  /\ stage[p] = "idle"
  /\ Remaining(DeviceOf(p)) <= (IF p[2] = "sale" THEN 0 ELSE LowWatermark)
  /\ waiting' = waiting \cup {p}
  /\ UNCHANGED <<rows, server, reply, next, last, printed, recorded, copies, admin>>

\* The prefetch stores the block it was sent over whatever the device has now.
StoreBlock(p) ==
  LET d == DeviceOf(p) IN
  /\ p[2] = "prefetch"
  /\ reply[p] # 0
  /\ next' = [next EXCEPT ![d] = reply[p]]
  /\ last' = [last EXCEPT ![d] = reply[p] + BlockSize - 1]
  /\ waiting' = waiting \ {p}
  /\ reply' = [reply EXCEPT ![p] = 0]
  /\ UNCHANGED <<rows, server, printed, recorded, copies, admin>>

\* Fault: the sale takes the first number of its new block and stores all of it.
Fault_PrintFromReply(p) ==
  LET d == DeviceOf(p) IN
  /\ p[2] = "sale"
  /\ reply[p] # 0
  /\ printed' = [printed EXCEPT ![d] = @ \cup {reply[p]}]
  /\ copies' = [copies EXCEPT ![LocationOf[d]][reply[p]] = @ + 1]
  /\ next' = [next EXCEPT ![d] = reply[p]]
  /\ last' = [last EXCEPT ![d] = reply[p] + BlockSize - 1]
  /\ waiting' = waiting \ {p}
  /\ reply' = [reply EXCEPT ![p] = 0]
  /\ UNCHANGED <<rows, server, recorded, admin>>

\* The sale that asked prints the first number and stores the rest.
PrintFromReply(p) ==
  LET d == DeviceOf(p) IN
  /\ p[2] = "sale"
  /\ reply[p] # 0
  /\ printed' = [printed EXCEPT ![d] = @ \cup {reply[p]}]
  /\ copies' = [copies EXCEPT ![LocationOf[d]][reply[p]] = @ + 1]
  /\ next' = [next EXCEPT ![d] = reply[p] + 1]
  /\ last' = [last EXCEPT ![d] = reply[p] + BlockSize - 1]
  /\ waiting' = waiting \ {p}
  /\ reply' = [reply EXCEPT ![p] = 0]
  /\ UNCHANGED <<rows, server, recorded, admin>>

\* The request or its answer is lost, or the app is closed: the coroutine ends,
\* and what the server has reserved, or still reserves, for it is wasted.
GiveUp(p) ==
  /\ p \in waiting
  /\ waiting' = waiting \ {p}
  /\ reply' = [reply EXCEPT ![p] = 0]
  /\ UNCHANGED <<rows, server, next, last, printed, recorded, copies, admin>>

\* A queued receipt reaches the server, which records it if its number is free.
SyncReceipt(d, n) ==
  /\ n \in printed[d]
  /\ printed' = [printed EXCEPT ![d] = @ \ {n}]
  /\ recorded' = [recorded EXCEPT ![LocationOf[d]] = @ \cup {n}]
  /\ UNCHANGED <<rows, server, waiting, reply, next, last, copies, admin>>

----------------------------------------------------------------------------
(* Administration of the rows                                              *)

\* CreateNumberingSequence: a new row, whatever rows the scope has already.
CreateSequence(s, start) ==
  /\ admin < MaxAdmin
  /\ admin' = admin + 1
  /\ rows' = [rows EXCEPT ![s] = Append(@, start)]
  /\ UNCHANGED <<server, device, recorded, copies>>

DeleteSequence(s, i) ==
  /\ admin < MaxAdmin
  /\ i \in 1..Len(rows[s])
  /\ ScopeFree(s)
  /\ admin' = admin + 1
  /\ rows' = [rows EXCEPT ![s] = SubSeq(@, 1, i - 1) \o SubSeq(@, i + 1, Len(@))]
  /\ UNCHANGED <<server, device, recorded, copies>>

----------------------------------------------------------------------------

Transaction(p) ==
  \/ DrawLocal(p) \/ FindNoLocal(p) \/ DrawGlobal(p) \/ Provision(p)
  \/ CommitDocument(p) \/ CommitReservation(p) \/ Rollback(p)

Client ==
  \/ \E d \in Devices : PrintReceipt(d) \/ \E n \in Numbers : SyncReceipt(d, n)
  \/ \E p \in Coroutines :
       AskForBlock(p) \/ StoreBlock(p) \/ PrintFromReply(p) \/ GiveUp(p)

Next == (\E p \in Procs : Transaction(p)) \/ Client

Admin ==
  \E s \in Scopes :
    \/ \E start \in 0..MaxNumber : CreateSequence(s, start)
    \/ \E i \in 1..(MaxAdmin + 1) : DeleteSequence(s, i)

\* Day-to-day operation ...
Spec == Init /\ [][Next]_vars

\* ... of a company of either kind ...
EitherSpec == (\E seeded \in BOOLEAN : Company(seeded)) /\ [][Next]_vars

\* ... and with an administrator who manages the rows meanwhile.
AdminSpec == Init /\ [][Next \/ Admin]_vars

----------------------------------------------------------------------------
(* Properties                                                              *)

TypeOK ==
  /\ rows \in [Scopes -> Seq(Nat)]
  /\ stage \in [Procs -> {"idle", "global", "drawn"}]
  /\ scope \in [Procs -> Scopes \cup {NoScope}]
  /\ pos \in [Procs -> Nat]
  /\ fresh \subseteq Procs
  /\ first \in [Procs -> Nat]
  /\ \A p \in Procs : stage[p] = "drawn" =>
       /\ scope[p] \in {PlaceOf(p), Global}
       /\ first[p] \in 1..(MaxNumber + 1 - Quantity(p))
       /\ pos[p] \in 1..(Len(rows[scope[p]]) + 1)
       /\ pos[p] = Len(rows[scope[p]]) + 1 => p \in fresh
  /\ waiting \subseteq Coroutines
  /\ reply \in [Coroutines -> Nat]
  /\ \A p \in Coroutines : reply[p] # 0 =>
       p \in waiting /\ reply[p] + BlockSize <= MaxNumber + 1
  /\ next \in [Devices -> Nat \ {0}]
  /\ last \in [Devices -> 0..MaxNumber]
  /\ printed \in [Devices -> SUBSET Numbers]
  /\ recorded \in [Locations -> SUBSET Numbers]
  /\ copies \in [Locations -> [Numbers -> Nat]]
  /\ admin \in 0..MaxAdmin

\* pos_repository.dart:398, "numbers never collide across devices", at one
\* location: through rollbacks, lost answers, overlapping reservations and
\* prefetches, no number is given to two receipts or documents.
NoCollision == \A l \in Locations, n \in Numbers : copies[l][n] <= 1

\* A printed receipt that has not been synced yet finds its number free when it
\* is, and so does an online document when it commits: the unique index never
\* refuses one for its number.
NumberStillFree ==
  /\ \A d \in Devices : printed[d] \cap recorded[LocationOf[d]] = {}
  /\ \A p \in Clerks : stage[p] = "drawn" => first[p] \notin recorded[PlaceOf(p)]

\* A company seeded with a global counter shares it between its locations: no
\* number is used twice in the company.
NoCollisionInCompany ==
  \A l, m \in Locations : \A n \in Numbers :
    rows[Global] # <<>> /\ l # m => copies[l][n] + copies[m][n] <= 1
=============================================================================
