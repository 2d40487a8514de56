-------------------------- MODULE NumberingProofs --------------------------
(***************************************************************************)
(* Numbers of the "sale" sequence never collide while nobody administers   *)
(* its rows, for any set of locations, clerks and devices.                 *)
(*                                                                         *)
(* Locations that share a counter form a chain: every location of a        *)
(* company with a global row is in one chain, otherwise each location is   *)
(* its own.  The invariant says that a chain has one counter, that the     *)
(* transaction which has its row locked has drawn the numbers just above   *)
(* it, and that all numbers up to it are used, wasted, or in the hands of  *)
(* exactly one device or answer on its way.                                *)
(***************************************************************************)
EXTENDS Numbering, SequenceTheorems, TLAPS

\* The scope whose counter serves location l.
Source(l) == IF HasGlobal THEN Global ELSE l

Counter(s) == IF rows[s] = <<>> THEN 0 ELSE rows[s][1]

\* One row per chain: the global one, or one per location that has drawn.
OneRow ==
  /\ \A s \in Scopes : rows[s] = <<>> \/ \E n \in Nat : rows[s] = <<n>>
  /\ HasGlobal => rows[Global] # <<>> /\ \A l \in Locations : rows[l] = <<>>
  /\ ~HasGlobal => rows[Global] = <<>>

\* The locks: one transaction per location, one per locked row, which holds
\* the numbers just above the counter.
Locked ==
  /\ \A p, q \in Procs :
       p # q /\ stage[p] # "idle" /\ stage[q] # "idle" => PlaceOf(p) # PlaceOf(q)
  /\ \A p, q \in Procs :
       p # q /\ stage[p] = "drawn" /\ stage[q] = "drawn" => scope[p] # scope[q]
  /\ \A p \in Procs : stage[p] = "global" => rows[PlaceOf(p)] = <<>>
  /\ \A p \in fresh : stage[p] = "drawn"
  /\ \A p \in Procs : stage[p] = "drawn" =>
       /\ scope[p] = Source(PlaceOf(p))
       /\ pos[p] = 1
       /\ p \in fresh <=> rows[scope[p]] = <<>>
       /\ first[p] = Counter(scope[p]) + 1
  /\ \A p \in Coroutines : stage[p] # "idle" => reply[p] = 0

\* Who has numbers to hand out: a device its block, a coroutine its answer.
Holders == Devices \cup Coroutines
Site(h) == IF h \in Devices THEN LocationOf[h] ELSE PlaceOf(h)
Holds(h, n) ==
  IF h \in Devices THEN next[h] <= n /\ n <= last[h]
  ELSE reply[h] # 0 /\ reply[h] <= n /\ n < reply[h] + BlockSize

\* Numbers above the counter are untouched; one below it has at most one use.
Disjoint ==
  /\ \A l \in Locations, n \in Numbers : copies[l][n] > 0 => n <= Counter(Source(l))
  /\ \A h \in Holders, n \in Numbers : Holds(h, n) => n <= Counter(Source(Site(h)))
  /\ \A l \in Locations, n \in Numbers : copies[l][n] <= 1
  /\ \A l, m \in Locations, n \in Numbers :
       l # m /\ Source(l) = Source(m) => copies[l][n] = 0 \/ copies[m][n] = 0
  /\ \A h \in Holders, l \in Locations, n \in Numbers :
       Source(l) = Source(Site(h)) /\ Holds(h, n) => copies[l][n] = 0
  /\ \A g, h \in Holders, n \in Numbers :
       g # h /\ Source(Site(g)) = Source(Site(h)) => ~(Holds(g, n) /\ Holds(h, n))

NumberInv == TypeOK /\ OneRow /\ Locked /\ Disjoint

LEMMA Places ==
  /\ \A p \in Procs : PlaceOf(p) \in Locations /\ Quantity(p) \in Nat \ {0}
  /\ \A p \in Coroutines : /\ p \in Procs \ Clerks /\ p \notin Devices
                           /\ DeviceOf(p) \in Devices
                           /\ Site(p) = LocationOf[DeviceOf(p)]
                           /\ PlaceOf(p) = LocationOf[DeviceOf(p)]
                           /\ Quantity(p) = BlockSize
  /\ \A p \in Clerks : Quantity(p) = 1
  /\ \A d \in Devices : Site(d) = LocationOf[d]
  /\ \A h \in Holders : Site(h) \in Locations
  /\ \A l \in Locations : Source(l) \in Scopes /\ l \in Scopes /\ l # Global
  /\ Global \in Scopes
<1>1. \A p \in Coroutines : DeviceOf(p) \in Devices
  BY DEF Coroutines, DeviceOf
<1>2. \A p \in Coroutines : p \notin Clerks /\ p \notin Devices
  BY NumberingConstants
<1>3. LocationOf \in [Clerks \cup Devices -> Locations] /\ Global \notin Locations
      /\ BlockSize \in Nat \ {0}
  BY NumberingConstants
<1>4. \A p \in Coroutines : /\ PlaceOf(p) = LocationOf[DeviceOf(p)]
                            /\ Site(p) = LocationOf[DeviceOf(p)]
                            /\ Quantity(p) = BlockSize
  BY <1>2 DEF PlaceOf, Site, Quantity
<1>5. \A p \in Clerks : PlaceOf(p) = LocationOf[p] /\ Quantity(p) = 1
  BY DEF PlaceOf, Quantity
<1>6. \A d \in Devices : Site(d) = LocationOf[d]
  BY DEF Site
<1>7. \A l \in Locations : Source(l) \in Scopes /\ l \in Scopes /\ l # Global
  BY <1>3 DEF Source, Scopes
<1>8. Global \in Scopes
  BY DEF Scopes
<1>9. \A p \in Procs : PlaceOf(p) \in Locations /\ Quantity(p) \in Nat \ {0}
  BY <1>1, <1>3, <1>4, <1>5 DEF Procs
<1>10. \A h \in Holders : Site(h) \in Locations
  BY <1>1, <1>3, <1>4, <1>6 DEF Holders
<1>11. \A p \in Coroutines : p \in Procs
  BY DEF Procs
<1>12. QED
  BY <1>1, <1>2, <1>4, <1>5, <1>6, <1>7, <1>8, <1>9, <1>10, <1>11

\* The counter a commit leaves.
LEMMA CommittedRow ==
  ASSUME NumberInv, NEW p \in Procs, stage[p] = "drawn", WriteCounter(p)
  PROVE  LET s == Source(PlaceOf(p))
             n == first[p] + Quantity(p) - 1
         IN  /\ s \in Scopes
             /\ n \in Nat
             /\ rows' = [rows EXCEPT ![s] = <<n>>]
<1> DEFINE s == Source(PlaceOf(p))
           n == first[p] + Quantity(p) - 1
<1>1. s \in Scopes
  BY Places
<1>2. n \in Nat
  BY Places DEF NumberInv, TypeOK
<1>3. scope[p] = s /\ pos[p] = 1 /\ (p \in fresh <=> rows[s] = <<>>)
  BY DEF NumberInv, Locked
<1>4. CASE rows[s] = <<>>
  <2>1. SubSeq(rows[s], 1, pos[p] - 1) \o <<n>> \o SubSeq(rows[s], pos[p], Len(rows[s])) = <<n>>
    <3>1. SubSeq(<<>>, 1, 0) = <<>>
      BY SubSeqEmpty
    <3>2. <<n>> \in Seq(Nat)
      BY <1>2
    <3>3. <<>> \o <<n>> = <<n>> /\ <<n>> \o <<>> = <<n>>
      BY <3>2, ConcatEmptySeq
    <3>4. pos[p] - 1 = 0 /\ Len(rows[s]) = 0
      BY <1>3, <1>4
    <3>5. QED
      BY <1>3, <1>4, <3>1, <3>3, <3>4
  <2>2. QED
    BY <1>1, <1>2, <1>3, <1>4, <2>1 DEF WriteCounter
<1>5. CASE rows[s] # <<>>
  <2>1. PICK k \in Nat : rows[s] = <<k>>
    BY <1>1, <1>5 DEF NumberInv, OneRow
  <2>2. [rows[s] EXCEPT ![pos[p]] = n] = <<n>>
    BY <1>2, <1>3, <2>1
  <2>3. QED
    BY <1>1, <1>2, <1>3, <1>5, <2>2 DEF WriteCounter
<1>6. QED
  BY <1>4, <1>5

LEMMA NumberInit == Init => NumberInv
<1> SUFFICES ASSUME Init PROVE NumberInv
  OBVIOUS
<1>1. TypeOK
  BY NumberingConstants DEF Init, Company, TypeOK
<1>2. OneRow
  BY Places DEF Init, Company, OneRow
<1>3. Locked
  BY DEF Init, Company, Locked
<1>4. \A h \in Holders, n \in Numbers : ~Holds(h, n)
  BY DEF Init, Company, Holders, Holds, Numbers
<1>5. Disjoint
  BY <1>4 DEF Init, Company, Disjoint
<1>6. QED
  BY <1>1, <1>2, <1>3, <1>5 DEF NumberInv

\* A draw locks the counter of its chain and takes the numbers above it.
LEMMA DrawStays ==
  ASSUME NumberInv, NEW p \in Procs,
         DrawLocal(p) \/ DrawGlobal(p) \/ Provision(p)
  PROVE  NumberInv'
<1> DEFINE s == Source(PlaceOf(p))
<1>1. s \in Scopes /\ s # NoScope /\ s \in {PlaceOf(p), Global}
  BY Places, NumberingConstants DEF Source
<1>2. /\ stage' = [stage EXCEPT ![p] = "drawn"]
      /\ scope' = [scope EXCEPT ![p] = s]
      /\ pos' = [pos EXCEPT ![p] = 1]
      /\ fresh' = IF rows[s] = <<>> THEN fresh \cup {p} ELSE fresh
      /\ first' = [first EXCEPT ![p] = Counter(s) + 1]
      /\ Counter(s) \in Nat
      /\ Counter(s) + Quantity(p) <= MaxNumber
      /\ UNCHANGED <<rows, device, recorded, copies, admin>>
  <2>1. CASE DrawLocal(p)
    <3>1. rows[PlaceOf(p)] # <<>> /\ s = PlaceOf(p)
      BY <2>1, Places DEF DrawLocal, Source, NumberInv, OneRow
    <3>2. PICK k \in Nat : rows[s] = <<k>>
      BY <3>1, <1>1 DEF NumberInv, OneRow
    <3>3. Len(rows[s]) = 1 /\ rows[s][Len(rows[s])] = Counter(s) /\ Counter(s) = k
      BY <3>1, <3>2 DEF Counter
    <3>4. QED
      BY <2>1, <3>1, <3>2, <3>3 DEF DrawLocal, Draw
  <2>2. CASE DrawGlobal(p)
    <3>1. rows[Global] # <<>> /\ s = Global
      BY <2>2 DEF DrawGlobal, Source, NumberInv, OneRow
    <3>2. PICK k \in Nat : rows[s] = <<k>>
      BY <3>1, <1>1 DEF NumberInv, OneRow
    <3>3. Len(rows[s]) = 1 /\ rows[s][Len(rows[s])] = Counter(s) /\ Counter(s) = k
      BY <3>1, <3>2 DEF Counter
    <3>4. QED
      BY <2>2, <3>1, <3>2, <3>3 DEF DrawGlobal, Draw
  <2>3. CASE Provision(p)
    <3>1. rows[Global] = <<>> /\ rows[PlaceOf(p)] = <<>> /\ s = PlaceOf(p)
      BY <2>3 DEF Provision, Source, NumberInv, OneRow, Locked
    <3>2. Len(rows[PlaceOf(p)]) + 1 = 1 /\ Counter(s) = 0
      BY <3>1 DEF Counter
    <3>3. QED
      BY <2>3, <3>1, <3>2 DEF Provision, Draw
  <2>4. QED
    BY <2>1, <2>2, <2>3
<1>3. \A q \in Procs : stage[q] = "drawn" => scope[q] # s /\ q # p
  <2>1. CASE DrawLocal(p)
    BY <2>1, Places DEF DrawLocal, Source, NumberInv, OneRow, ScopeFree, MayEnter
  <2>2. CASE DrawGlobal(p)
    BY <2>2 DEF DrawGlobal, Source, NumberInv, OneRow, ScopeFree
  <2>3. CASE Provision(p)
    <3>1. s = PlaceOf(p) /\ ~HasGlobal /\ stage[p] = "global"
      BY <2>3 DEF Provision, Source, NumberInv, OneRow
    <3>2. ASSUME NEW q \in Procs, stage[q] = "drawn" PROVE scope[q] = PlaceOf(q) /\ PlaceOf(q) # PlaceOf(p)
      BY <3>1, <3>2 DEF NumberInv, Locked, Source
    <3>3. QED
      BY <3>1, <3>2
  <2>4. QED
    BY <2>1, <2>2, <2>3
<1>4. \A q \in Procs : q # p /\ stage[q] # "idle" => PlaceOf(q) # PlaceOf(p)
  BY DEF DrawLocal, DrawGlobal, Provision, MayEnter, LocationFree, NumberInv, Locked
<1>5. TypeOK'
  <2>1. /\ stage' \in [Procs -> {"idle", "global", "drawn"}]
        /\ scope' \in [Procs -> Scopes \cup {NoScope}]
        /\ pos' \in [Procs -> Nat]
        /\ fresh' \subseteq Procs
        /\ first' \in [Procs -> Nat]
    BY <1>1, <1>2 DEF NumberInv, TypeOK
  <2>2. Len(rows[s]) \in {0, 1} /\ (Len(rows[s]) = 0 => rows[s] = <<>>)
    <3>1. rows[s] = <<>> \/ \E k \in Nat : rows[s] = <<k>>
      BY <1>1 DEF NumberInv, OneRow
    <3>2. CASE rows[s] = <<>>
      BY <3>2
    <3>3. CASE \E k \in Nat : rows[s] = <<k>>
      BY <3>3
    <3>4. QED
      BY <3>1, <3>2, <3>3
  <2>3. Counter(s) + 1 \in 1..(MaxNumber + 1 - Quantity(p))
    BY <1>2, Places, NumberingConstants
  <2>4. ASSUME NEW q \in Procs, stage'[q] = "drawn"
        PROVE  /\ scope'[q] \in {PlaceOf(q), Global}
               /\ first'[q] \in 1..(MaxNumber + 1 - Quantity(q))
               /\ pos'[q] \in 1..(Len(rows'[scope'[q]]) + 1)
               /\ pos'[q] = Len(rows'[scope'[q]]) + 1 => q \in fresh'
    <3>1. CASE q = p
      BY <1>1, <1>2, <2>2, <2>3, <3>1 DEF NumberInv, TypeOK
    <3>2. CASE q # p
      BY <1>2, <2>4, <3>2 DEF NumberInv, TypeOK
    <3>3. QED
      BY <3>1, <3>2
  <2>5. QED
    BY <1>2, <2>1, <2>4 DEF NumberInv, TypeOK, device
<1>6. OneRow'
  BY <1>2 DEF NumberInv, OneRow
<1>7. Locked'
  <2>1. \A q \in Coroutines : stage'[q] # "idle" => reply'[q] = 0
    <3>1. p \in Coroutines => reply[p] = 0
      BY Places DEF DrawLocal, DrawGlobal, Provision, MayEnter, NumberInv, Locked
    <3>2. \A q \in Procs : q # p => stage'[q] = stage[q]
      BY <1>2 DEF NumberInv, TypeOK
    <3>3. reply' = reply
      BY <1>2 DEF device
    <3>4. QED
      BY <3>1, <3>2, <3>3, Places DEF NumberInv, Locked
  <2>2. \A q \in Procs : stage'[q] = "drawn" =>
          /\ scope'[q] = Source(PlaceOf(q))
          /\ pos'[q] = 1
          /\ q \in fresh' <=> rows'[scope'[q]] = <<>>
          /\ first'[q] = (IF rows'[scope'[q]] = <<>> THEN 0 ELSE rows'[scope'[q]][1]) + 1
    BY <1>1, <1>2 DEF NumberInv, TypeOK, Locked, Counter
  <2>3. /\ \A q, r \in Procs :
             q # r /\ stage'[q] # "idle" /\ stage'[r] # "idle" => PlaceOf(q) # PlaceOf(r)
        /\ \A q, r \in Procs :
             q # r /\ stage'[q] = "drawn" /\ stage'[r] = "drawn" => scope'[q] # scope'[r]
        /\ \A q \in Procs : stage'[q] = "global" => rows'[PlaceOf(q)] = <<>>
        /\ \A q \in fresh' : stage'[q] = "drawn"
    BY <1>1, <1>2, <1>3, <1>4 DEF NumberInv, TypeOK, Locked
  <2>4. QED
    BY <2>1, <2>2, <2>3 DEF Locked, Counter
<1>8. Disjoint'
  BY <1>2 DEF NumberInv, Disjoint, Counter, Holds, device
<1>9. QED
  BY <1>5, <1>6, <1>7, <1>8 DEF NumberInv

\* A commit moves the counter to the last number drawn; nobody had those.
LEMMA CounterMoves ==
  ASSUME NumberInv, NEW p \in Procs, stage[p] = "drawn", WriteCounter(p), Finish(p),
         \A q \in Coroutines : q # p => reply'[q] = reply[q]
  PROVE  LET s == Source(PlaceOf(p))
             n == first[p] + Quantity(p) - 1
         IN  /\ OneRow'
             /\ Locked'
             /\ first[p] = Counter(s) + 1
             /\ Counter(s) \in Nat
             /\ Counter(s)' = n
             /\ \A r \in Scopes : r # s => Counter(r)' = Counter(r)
             /\ \A r \in Scopes : Counter(r) \in Nat /\ Counter(r) <= Counter(r)'
<1> DEFINE s == Source(PlaceOf(p))
           n == first[p] + Quantity(p) - 1
<1>1. s \in Scopes /\ n \in Nat /\ rows' = [rows EXCEPT ![s] = <<n>>]
  BY CommittedRow
<1>2. first[p] = Counter(s) + 1 /\ scope[p] = s
  BY DEF NumberInv, Locked
<1>3. \A r \in Scopes : Counter(r) \in Nat
  BY DEF NumberInv, OneRow, Counter
<1>4. rows'[s] = <<n>> /\ \A r \in Scopes : r # s => rows'[r] = rows[r]
  BY <1>1 DEF NumberInv, TypeOK
<1>5. Counter(s)' = n /\ \A r \in Scopes : r # s => Counter(r)' = Counter(r)
  <2>1. ASSUME NEW r \in Scopes PROVE Counter(r)' = IF r = s THEN n ELSE Counter(r)
    BY <1>1, <1>4 DEF Counter
  <2>2. PICK r \in Scopes : r = s
    BY <1>1
  <2>3. Counter(s)' = Counter(r)'
    BY <2>2 DEF Counter
  <2>4. QED
    BY <2>1, <2>2, <2>3
<1>6. OneRow'
  <2>1. s = Global <=> HasGlobal
    BY Places DEF Source
  <2>2. \A r \in Scopes : rows'[r] = <<>> \/ \E k \in Nat : rows'[r] = <<k>>
    BY <1>1, <1>4 DEF NumberInv, OneRow
  <2>3. \A l \in Locations : HasGlobal => rows'[l] = <<>>
    BY <1>4, <2>1, Places DEF NumberInv, OneRow
  <2>4. rows'[Global] = <<>> <=> ~HasGlobal
    BY <1>4, <2>1, Places DEF NumberInv, OneRow
  <2>5. QED
    BY <2>2, <2>3, <2>4 DEF OneRow
<1>7. Locked'
  <2>1. \A q \in Procs : q # p => /\ stage'[q] = stage[q] /\ scope'[q] = scope[q]
                                 /\ pos'[q] = pos[q] /\ first'[q] = first[q]
                                 /\ (q \in fresh' <=> q \in fresh)
    BY DEF Finish, NumberInv, TypeOK
  <2>2. stage'[p] = "idle" /\ p \notin fresh'
    BY DEF Finish, NumberInv, TypeOK
  <2>3. ASSUME NEW q \in Procs, stage'[q] = "global" PROVE rows'[PlaceOf(q)] = <<>>
    <3>1. q # p /\ stage[q] = "global"
      BY <2>1, <2>2, <2>3
    <3>2. PlaceOf(q) # PlaceOf(p) /\ rows[PlaceOf(q)] = <<>>
      BY <3>1 DEF NumberInv, Locked
    <3>3. PlaceOf(q) # s
      BY <3>2, Places DEF Source
    <3>4. QED
      BY <1>4, <3>2, <3>3, Places
  <2>4. ASSUME NEW q \in Procs, stage'[q] = "drawn"
        PROVE  /\ scope'[q] = Source(PlaceOf(q))
               /\ pos'[q] = 1
               /\ q \in fresh' <=> rows'[scope'[q]] = <<>>
               /\ first'[q] = (IF rows'[scope'[q]] = <<>> THEN 0
                                ELSE rows'[scope'[q]][1]) + 1
    <3>1. q # p /\ stage[q] = "drawn"
      BY <2>1, <2>2, <2>4
    <3>2. scope[q] # s /\ scope[q] = Source(PlaceOf(q)) /\ scope[q] \in Scopes
      BY <1>2, <3>1, Places DEF NumberInv, Locked
    <3>3. rows'[scope[q]] = rows[scope[q]] /\ scope'[q] = scope[q]
      BY <1>4, <2>1, <3>1, <3>2
    <3>4. QED
      BY <2>1, <3>1, <3>2, <3>3 DEF NumberInv, Locked, Counter
  <2>5. ASSUME NEW q \in Procs, NEW r \in Procs, q # r
        PROVE  /\ stage'[q] # "idle" /\ stage'[r] # "idle" => PlaceOf(q) # PlaceOf(r)
               /\ stage'[q] = "drawn" /\ stage'[r] = "drawn" => scope'[q] # scope'[r]
    BY <2>1, <2>2, <2>5 DEF NumberInv, Locked
  <2>6. \A q \in fresh' : stage'[q] = "drawn"
    <3>1. fresh' \subseteq Procs
      BY DEF Finish, NumberInv, TypeOK
    <3>2. QED
      BY <2>1, <2>2, <3>1 DEF NumberInv, Locked
  <2>7. \A q \in Procs : stage'[q] = "drawn" =>
          /\ scope'[q] = Source(PlaceOf(q))
          /\ pos'[q] = 1
          /\ q \in fresh' <=> rows'[scope'[q]] = <<>>
          /\ first'[q] = Counter(scope[q])' + 1
    BY <2>4 DEF Counter
  <2>8. \A q \in Coroutines : stage'[q] # "idle" => reply'[q] = 0
    BY <2>1, <2>2, Places DEF NumberInv, Locked
  <2>9. QED
    BY <2>3, <2>5, <2>6, <2>7, <2>8 DEF Locked, Counter
<1>8. n >= Counter(s)
  BY <1>2, <1>3, <1>1, Places
<1>9. \A r \in Scopes : Counter(r) <= Counter(r)'
  BY <1>3, <1>5, <1>8, <1>1
<1>10. QED
  BY <1>1, <1>2, <1>3, <1>5, <1>6, <1>7, <1>9

\* The part of TypeOK about the server.
ServerOK ==
  /\ rows \in [Scopes -> Seq(Nat)]
  /\ stage \in [Procs -> {"idle", "global", "drawn"}]
  /\ scope \in [Procs -> Scopes \cup {NoScope}]
  /\ pos \in [Procs -> Nat]
  /\ fresh \subseteq Procs
  /\ first \in [Procs -> Nat]
  /\ \A q \in Procs : stage[q] = "drawn" =>
       /\ scope[q] \in {PlaceOf(q), Global}
       /\ first[q] \in 1..(MaxNumber + 1 - Quantity(q))
       /\ pos[q] \in 1..(Len(rows[scope[q]]) + 1)
       /\ pos[q] = Len(rows[scope[q]]) + 1 => q \in fresh

\* A commit keeps it.
LEMMA ServerTyped ==
  ASSUME NumberInv, NEW p \in Procs, stage[p] = "drawn", WriteCounter(p), Finish(p)
  PROVE  ServerOK'
<1> DEFINE s == Source(PlaceOf(p))
           n == first[p] + Quantity(p) - 1
<1>1. s \in Scopes /\ n \in Nat /\ rows' = [rows EXCEPT ![s] = <<n>>]
  BY CommittedRow
<1>2. rows' \in [Scopes -> Seq(Nat)]
  <2>1. <<n>> \in Seq(Nat)
    BY <1>1
  <2>2. QED
    BY <1>1, <2>1 DEF NumberInv, TypeOK
<1>3. /\ stage' \in [Procs -> {"idle", "global", "drawn"}]
      /\ scope' \in [Procs -> Scopes \cup {NoScope}]
      /\ pos' \in [Procs -> Nat]
      /\ fresh' \subseteq Procs
      /\ first' \in [Procs -> Nat]
  BY DEF Finish, NumberInv, TypeOK
<1>4. ASSUME NEW q \in Procs, stage'[q] = "drawn"
      PROVE  /\ scope'[q] \in {PlaceOf(q), Global}
             /\ first'[q] \in 1..(MaxNumber + 1 - Quantity(q))
             /\ pos'[q] \in 1..(Len(rows'[scope'[q]]) + 1)
             /\ pos'[q] = Len(rows'[scope'[q]]) + 1 => q \in fresh'
  <2>1. q # p /\ stage[q] = "drawn"
    BY <1>4 DEF Finish, NumberInv, TypeOK
  <2>2. /\ scope'[q] = scope[q] /\ pos'[q] = pos[q] /\ first'[q] = first[q]
        /\ (q \in fresh' <=> q \in fresh)
    BY <2>1 DEF Finish, NumberInv, TypeOK
  <2>3. scope[q] # s /\ scope[q] \in Scopes
    BY <2>1, Places DEF NumberInv, Locked
  <2>4. rows'[scope[q]] = rows[scope[q]]
    BY <1>1, <2>3 DEF NumberInv, TypeOK
  <2>5. QED
    BY <2>1, <2>2, <2>4 DEF NumberInv, TypeOK
<1>5. QED
  BY <1>2, <1>3, <1>4 DEF ServerOK

LEMMA CommitDocumentStays ==
  ASSUME NumberInv, NEW p \in Procs, CommitDocument(p)
  PROVE  NumberInv'
<1> DEFINE l == PlaceOf(p)
           n == first[p]
<1>1. /\ p \in Clerks /\ stage[p] = "drawn" /\ WriteCounter(p) /\ Finish(p)
      /\ recorded' = [recorded EXCEPT ![l] = @ \cup {n}]
      /\ copies' = [copies EXCEPT ![l][n] = @ + 1]
      /\ UNCHANGED <<device, admin>>
  BY DEF CommitDocument
<1>2. l \in Locations /\ n \in Numbers /\ Source(l) \in Scopes
  BY <1>1, Places, NumberingConstants DEF NumberInv, TypeOK, Numbers
<1>3. /\ OneRow' /\ Locked' /\ n = Counter(Source(l)) + 1 /\ Counter(Source(l)) \in Nat
      /\ Counter(Source(l))' = n
      /\ \A r \in Scopes : Counter(r) \in Nat /\ Counter(r) <= Counter(r)'
  <2>1. \A q \in Coroutines : q # p => reply'[q] = reply[q]
    BY <1>1 DEF device
  <2>2. QED
    BY <1>1, <2>1, CounterMoves, Places
<1>4. TypeOK'
  <2>1. ServerOK'
    BY <1>1, ServerTyped
  <2>2. /\ recorded' \in [Locations -> SUBSET Numbers]
        /\ copies' \in [Locations -> [Numbers -> Nat]]
    BY <1>1, <1>2 DEF NumberInv, TypeOK
  <2>3. QED
    BY <1>1, <2>1, <2>2 DEF NumberInv, TypeOK, ServerOK, device
<1>5. \A h \in Holders, k \in Numbers : Holds(h, k)' <=> Holds(h, k)
  BY <1>1 DEF Holds, device
<1>6. \A m \in Locations, k \in Numbers :
        copies'[m][k] = IF m = l /\ k = n THEN copies[m][k] + 1 ELSE copies[m][k]
  BY <1>1, <1>2 DEF NumberInv, TypeOK
<1>7. \A m \in Locations, k \in Numbers : copies[m][k] \in Nat
  BY DEF NumberInv, TypeOK
<1>8. \A m \in Locations : Source(m) = Source(l) => copies[m][n] = 0
  BY <1>2, <1>3, <1>7 DEF NumberInv, Disjoint
<1>9. \A h \in Holders : Source(Site(h)) = Source(l) => ~Holds(h, n)
  BY <1>2, <1>3 DEF NumberInv, Disjoint
<1>10. Disjoint'
  <2>1. ASSUME NEW m \in Locations, NEW k \in Numbers, copies'[m][k] > 0
        PROVE  k <= Counter(Source(m))'
    <3>1. PICK r \in Scopes : r = Source(m)
      BY Places
    <3>2. CASE m = l /\ k = n
      BY <1>3, <3>2
    <3>3. CASE ~(m = l /\ k = n)
      <4>1. k <= Counter(r)
        BY <1>6, <2>1, <3>1, <3>3 DEF NumberInv, Disjoint
      <4>2. k <= Counter(r)'
        BY <1>3, <3>1, <4>1 DEF Counter, OneRow, Numbers
      <4>3. QED
        BY <3>1, <4>2
    <3>4. QED
      BY <3>2, <3>3
  <2>2. ASSUME NEW h \in Holders, NEW k \in Numbers, Holds(h, k)'
        PROVE  k <= Counter(Source(Site(h)))'
    <3>1. PICK r \in Scopes : r = Source(Site(h))
      BY Places
    <3>2. k <= Counter(r)
      BY <1>5, <2>2, <3>1 DEF NumberInv, Disjoint
    <3>3. k <= Counter(r)'
      BY <1>3, <3>2 DEF Counter, OneRow, Numbers
    <3>4. QED
      BY <3>1, <3>3
  <2>3. \A m \in Locations, k \in Numbers : copies'[m][k] <= 1
    BY <1>2, <1>6, <1>8 DEF NumberInv, Disjoint
  <2>4. \A m, o \in Locations, k \in Numbers :
          m # o /\ Source(m) = Source(o) => copies'[m][k] = 0 \/ copies'[o][k] = 0
    BY <1>2, <1>6, <1>8 DEF NumberInv, Disjoint
  <2>5. \A h \in Holders, m \in Locations, k \in Numbers :
          Source(m) = Source(Site(h)) /\ Holds(h, k)' => copies'[m][k] = 0
    BY <1>2, <1>5, <1>6, <1>9 DEF NumberInv, Disjoint
  <2>6. \A g, h \in Holders, k \in Numbers :
          g # h /\ Source(Site(g)) = Source(Site(h)) => ~(Holds(g, k)' /\ Holds(h, k)')
    BY <1>5 DEF NumberInv, Disjoint
  <2>7. QED
    BY <2>1, <2>2, <2>3, <2>4, <2>5, <2>6 DEF Disjoint
<1>11. QED
  BY <1>3, <1>4, <1>10 DEF NumberInv

LEMMA CommitReservationStays ==
  ASSUME NumberInv, NEW p \in Procs, CommitReservation(p)
  PROVE  NumberInv'
<1> DEFINE l == PlaceOf(p)
           n == first[p] + BlockSize - 1
<1>1. /\ p \in Coroutines /\ stage[p] = "drawn" /\ WriteCounter(p) /\ Finish(p)
      /\ reply' = [reply EXCEPT ![p] = IF p \in waiting THEN first[p] ELSE 0]
      /\ UNCHANGED <<waiting, next, last, printed, recorded, copies, admin>>
  BY DEF CommitReservation
<1>2. /\ l \in Locations /\ Source(l) \in Scopes /\ Quantity(p) = BlockSize
      /\ p \in Holders /\ p \notin Devices /\ Site(p) = l
  BY <1>1, Places DEF Holders
<1>3. /\ OneRow' /\ Locked' /\ first[p] = Counter(Source(l)) + 1
      /\ Counter(Source(l)) \in Nat
      /\ Counter(Source(l))' = n
      /\ \A r \in Scopes : Counter(r) \in Nat /\ Counter(r) <= Counter(r)'
  <2>1. \A q \in Coroutines : q # p => reply'[q] = reply[q]
    BY <1>1 DEF NumberInv, TypeOK
  <2>2. QED
    BY <1>1, <1>2, <2>1, CounterMoves
<1>4. TypeOK'
  <2>1. ServerOK'
    BY <1>1, ServerTyped
  <2>2. first[p] \in 1..(MaxNumber + 1 - BlockSize)
    BY <1>1, <1>2 DEF NumberInv, TypeOK
  <2>3. /\ reply' \in [Coroutines -> Nat]
        /\ \A q \in Coroutines : reply'[q] # 0 =>
             q \in waiting /\ reply'[q] + BlockSize <= MaxNumber + 1
    BY <1>1, <2>2, NumberingConstants DEF NumberInv, TypeOK
  <2>4. QED
    BY <1>1, <2>1, <2>3 DEF NumberInv, TypeOK, ServerOK
<1>5. \A h \in Holders, k \in Numbers :
        h # p => (Holds(h, k)' <=> Holds(h, k))
  BY <1>1 DEF Holds, Holders, NumberInv, TypeOK
<1>6. \A k \in Numbers : Holds(p, k)' => Counter(Source(l)) < k /\ k <= n
  <2>1. reply'[p] = first[p] \/ reply'[p] = 0
    BY <1>1 DEF NumberInv, TypeOK
  <2>2. QED
    BY <1>2, <1>3, <2>1, NumberingConstants DEF Holds, Numbers
<1>7. Disjoint'
  <2>1. ASSUME NEW m \in Locations, NEW k \in Numbers, copies'[m][k] > 0
        PROVE  k <= Counter(Source(m))'
    <3>1. PICK r \in Scopes : r = Source(m)
      BY Places
    <3>2. k <= Counter(r)
      BY <1>1, <2>1, <3>1 DEF NumberInv, Disjoint
    <3>3. k <= Counter(r)'
      BY <1>3, <3>2 DEF Counter, OneRow, Numbers
    <3>4. QED
      BY <3>1, <3>3
  <2>2. ASSUME NEW h \in Holders, NEW k \in Numbers, Holds(h, k)'
        PROVE  k <= Counter(Source(Site(h)))'
    <3>1. PICK r \in Scopes : r = Source(Site(h))
      BY Places
    <3>2. CASE h = p
      BY <1>2, <1>3, <1>6, <2>2, <3>2
    <3>3. CASE h # p
      <4>1. k <= Counter(r)
        BY <1>5, <2>2, <3>1, <3>3 DEF NumberInv, Disjoint
      <4>2. k <= Counter(r)'
        BY <1>3, <4>1 DEF Counter, OneRow, Numbers
      <4>3. QED
        BY <3>1, <4>2
    <3>4. QED
      BY <3>2, <3>3
  <2>3. ASSUME NEW h \in Holders, NEW m \in Locations, NEW k \in Numbers,
               Source(m) = Source(Site(h)), Holds(h, k)'
        PROVE  copies'[m][k] = 0
    <3>1. CASE h = p
      <4>1. ~(copies[m][k] > 0)
        BY <1>2, <1>3, <1>6, <2>3, <3>1 DEF NumberInv, Disjoint, Numbers
      <4>2. copies[m][k] \in Nat
        BY DEF NumberInv, TypeOK
      <4>3. QED
        BY <1>1, <4>1, <4>2
    <3>2. CASE h # p
      BY <1>1, <1>5, <2>3, <3>2 DEF NumberInv, Disjoint
    <3>3. QED
      BY <3>1, <3>2
  <2>4. ASSUME NEW g \in Holders, NEW h \in Holders, NEW k \in Numbers, g # h,
               Source(Site(g)) = Source(Site(h)), Holds(g, k)', Holds(h, k)'
        PROVE  FALSE
    <3>1. CASE g # p /\ h # p
      BY <1>5, <2>4, <3>1 DEF NumberInv, Disjoint
    <3>2. ASSUME NEW e \in Holders, e # p, Source(Site(e)) = Source(l), Holds(e, k)',
                 Holds(p, k)'
          PROVE  FALSE
      <4>1. k <= Counter(Source(l))
        BY <1>5, <3>2 DEF NumberInv, Disjoint
      <4>2. QED
        BY <1>3, <1>6, <3>2, <4>1 DEF Numbers
    <3>3. QED
      BY <1>2, <2>4, <3>1, <3>2
  <2>5. QED
    BY <1>1, <2>1, <2>2, <2>3, <2>4 DEF NumberInv, Disjoint
<1>8. QED
  BY <1>3, <1>4, <1>7 DEF NumberInv

\* Holder h takes over numbers of holder g; one of them is put to use.
Passed(g, h) ==
  \A x \in Holders, k \in Numbers :
    Holds(x, k)' => IF x = h THEN Holds(g, k) ELSE x # g /\ Holds(x, k)

PutToUse(g, h) ==
  \E l \in Locations, n \in Numbers :
    /\ Source(l) = Source(Site(h)) /\ Holds(g, n) /\ ~Holds(h, n)'
    /\ copies' = [copies EXCEPT ![l][n] = @ + 1]

\* Numbers change hands within a chain, and at most one of them is put to use.
LEMMA HandOver ==
  ASSUME NumberInv, UNCHANGED rows,
         NEW g \in Holders, NEW h \in Holders, Source(Site(g)) = Source(Site(h)),
         Passed(g, h), UNCHANGED copies \/ PutToUse(g, h)
  PROVE  Disjoint'
<1>1. \A r \in Scopes : Counter(r)' = Counter(r)
  BY DEF Counter
<1>2. ASSUME NEW x \in Holders, NEW k \in Numbers, Holds(x, k)'
      PROVE  \E y \in Holders : /\ Holds(y, k) /\ Source(Site(y)) = Source(Site(x))
                                /\ IF x = h THEN y = g ELSE x # g /\ y = x
  BY <1>2 DEF Passed
<1>3. ASSUME NEW x \in Holders, NEW k \in Numbers, Holds(x, k)'
      PROVE  k <= Counter(Source(Site(x)))'
  <2>1. PICK r \in Scopes : r = Source(Site(x))
    BY Places
  <2>2. k <= Counter(r)
    BY <1>2, <1>3, <2>1 DEF NumberInv, Disjoint
  <2>3. QED
    BY <1>1, <2>1, <2>2 DEF Counter
<1>4. ASSUME NEW x \in Holders, NEW y \in Holders, NEW k \in Numbers, x # y,
             Source(Site(x)) = Source(Site(y)), Holds(x, k)', Holds(y, k)'
      PROVE  FALSE
  BY <1>2, <1>4 DEF NumberInv, Disjoint
<1>5. CASE UNCHANGED copies
  <2>1. ASSUME NEW x \in Holders, NEW m \in Locations, NEW k \in Numbers,
               Source(m) = Source(Site(x)), Holds(x, k)'
        PROVE  copies'[m][k] = 0
    BY <1>2, <1>5, <2>1 DEF NumberInv, Disjoint
  <2>2. QED
    BY <1>3, <1>4, <1>5, <2>1 DEF NumberInv, Disjoint, Counter
<1>6. ASSUME NEW l \in Locations, NEW n \in Numbers,
             Source(l) = Source(Site(h)), Holds(g, n), ~Holds(h, n)',
             copies' = [copies EXCEPT ![l][n] = @ + 1]
      PROVE  Disjoint'
  <2>1. \A m \in Locations, k \in Numbers :
          copies'[m][k] = IF m = l /\ k = n THEN copies[m][k] + 1 ELSE copies[m][k]
    BY <1>6 DEF NumberInv, TypeOK
  <2>2. \A m \in Locations : Source(m) = Source(l) => copies[m][n] = 0
    BY <1>6 DEF NumberInv, Disjoint
  <2>3. \A x \in Holders : Source(Site(x)) = Source(l) => ~Holds(x, n)'
    BY <1>2, <1>6 DEF NumberInv, Disjoint
  <2>4. ASSUME NEW m \in Locations, NEW k \in Numbers, copies'[m][k] > 0
        PROVE  k <= Counter(Source(m))'
    <3>1. PICK r \in Scopes : r = Source(m)
      BY Places
    <3>2. k <= Counter(r)
      BY <1>6, <2>1, <2>4, <3>1 DEF NumberInv, Disjoint
    <3>3. QED
      BY <1>1, <3>1, <3>2 DEF Counter
  <2>5. \A m \in Locations, k \in Numbers : copies'[m][k] <= 1
    BY <1>6, <2>1, <2>2 DEF NumberInv, Disjoint
  <2>6. \A m, o \in Locations, k \in Numbers :
          m # o /\ Source(m) = Source(o) => copies'[m][k] = 0 \/ copies'[o][k] = 0
    BY <1>6, <2>1, <2>2 DEF NumberInv, Disjoint
  <2>7. ASSUME NEW x \in Holders, NEW m \in Locations, NEW k \in Numbers,
               Source(m) = Source(Site(x)), Holds(x, k)'
        PROVE  copies'[m][k] = 0
    BY <1>2, <2>1, <2>3, <2>7 DEF NumberInv, Disjoint
  <2>8. QED
    BY <1>3, <1>4, <2>4, <2>5, <2>6, <2>7 DEF Disjoint
<1>7. QED
  BY <1>5, <1>6 DEF PutToUse

LEMMA ClientStays ==
  ASSUME NumberInv, Client
  PROVE  NumberInv'
<1>1. ASSUME UNCHANGED <<rows, server>> PROVE OneRow' /\ Locked'
  <2>1. \A q \in Coroutines : reply'[q] \in {0, reply[q]}
    BY DEF Client, PrintReceipt, SyncReceipt, AskForBlock, StoreBlock, PrintFromReply,
           GiveUp, NumberInv, TypeOK
  <2>2. QED
    BY <1>1, <2>1 DEF NumberInv, OneRow, Locked, Counter, server
<1>2. ASSUME UNCHANGED <<rows, server, next, last, copies>>,
             \A p \in Coroutines : reply'[p] = reply[p]
      PROVE  Disjoint'
  BY <1>2 DEF NumberInv, Disjoint, Counter, Holds, Holders, server
<1>3. ASSUME NEW d \in Devices, PrintReceipt(d) PROVE NumberInv'
  <2>1. /\ next[d] \in Numbers /\ LocationOf[d] \in Locations
        /\ Site(d) = LocationOf[d] /\ d \in Holders
    <3>1. next[d] \in Nat \ {0} /\ last[d] \in 0..MaxNumber /\ next[d] <= last[d]
      BY <1>3 DEF PrintReceipt, NumberInv, TypeOK
    <3>2. next[d] \in Numbers
      BY <3>1, NumberingConstants DEF Numbers
    <3>3. LocationOf[d] \in Locations
      BY NumberingConstants
    <3>4. QED
      BY <3>2, <3>3, Places DEF Holders
  <2>2. TypeOK'
    BY <1>3, <2>1 DEF PrintReceipt, NumberInv, TypeOK, server
  <2>3. \A x \in Holders, k \in Numbers :
          Holds(x, k)' => Holds(x, k) /\ ~(x = d /\ k = next[d])
    BY <1>3, <2>1 DEF PrintReceipt, Holds, NumberInv, TypeOK, Numbers
  <2>4. Holds(d, next[d])
    BY <1>3, <2>1 DEF PrintReceipt, Holds, NumberInv, TypeOK
  <2>5. Disjoint'
    <3>1. Passed(d, d)
      BY <2>3 DEF Passed
    <3>2. PutToUse(d, d)
      BY <1>3, <2>1, <2>3, <2>4 DEF PrintReceipt, PutToUse
    <3>3. UNCHANGED rows
      BY <1>3 DEF PrintReceipt
    <3>4. QED
      BY <2>1, <3>1, <3>2, <3>3, HandOver
  <2>6. QED
    BY <1>1, <1>3, <2>2, <2>5 DEF PrintReceipt, NumberInv
<1>4. ASSUME NEW d \in Devices, NEW n \in Numbers, SyncReceipt(d, n) PROVE NumberInv'
  <2>1. TypeOK'
    BY <1>4, Places DEF SyncReceipt, NumberInv, TypeOK, server
  <2>2. QED
    BY <1>1, <1>2, <1>4, <2>1 DEF SyncReceipt, NumberInv
<1>5. ASSUME NEW p \in Coroutines, AskForBlock(p) PROVE NumberInv'
  <2>1. TypeOK'
    BY <1>5 DEF AskForBlock, NumberInv, TypeOK, server
  <2>2. QED
    BY <1>1, <1>2, <1>5, <2>1 DEF AskForBlock, NumberInv
<1>6. ASSUME NEW p \in Coroutines, GiveUp(p) PROVE NumberInv'
  <2>1. TypeOK'
    BY <1>6 DEF GiveUp, NumberInv, TypeOK, server
  <2>2. p \in Holders /\ p \notin Devices
    BY Places DEF Holders
  <2>3. \A x \in Holders, k \in Numbers : Holds(x, k)' => x # p /\ Holds(x, k)
    BY <1>6, <2>2 DEF GiveUp, Holds, Holders, NumberInv, TypeOK
  <2>4. Passed(p, p)
    BY <2>3 DEF Passed
  <2>5. Disjoint'
    BY <1>6, <2>2, <2>4, HandOver DEF GiveUp
  <2>6. QED
    BY <1>1, <1>6, <2>1, <2>5 DEF GiveUp, NumberInv
<1>7. ASSUME NEW p \in Coroutines, StoreBlock(p) \/ PrintFromReply(p) PROVE NumberInv'
  <2> DEFINE d == DeviceOf(p)
  <2>1. /\ d \in Devices /\ LocationOf[d] \in Locations /\ Site(d) = LocationOf[d]
        /\ Site(p) = Site(d) /\ p \notin Devices /\ d \in Holders /\ p \in Holders /\ p # d
    BY Places DEF Holders
  <2>2. /\ reply[p] \in Nat \ {0} /\ reply[p] + BlockSize <= MaxNumber + 1
        /\ reply' = [reply EXCEPT ![p] = 0]
        /\ last' = [last EXCEPT ![d] = reply[p] + BlockSize - 1]
        /\ waiting' = waiting \ {p}
        /\ UNCHANGED <<rows, server, recorded, admin>>
        /\ BlockSize \in Nat \ {0}
    BY <1>7, NumberingConstants DEF StoreBlock, PrintFromReply, NumberInv, TypeOK
  <2>3. /\ reply[p] \in Numbers
        /\ reply[p] + BlockSize - 1 \in 0..MaxNumber
    BY <2>2, NumberingConstants DEF Numbers
  <2>4. \A k \in Numbers : Holds(p, k) <=> reply[p] <= k /\ k < reply[p] + BlockSize
    BY <2>1, <2>2 DEF Holds
  <2>5. \A x \in Holders, k \in Numbers : x # d => (Holds(x, k)' => x # p /\ Holds(x, k))
    <3>1. /\ next \in [Devices -> Nat \ {0}] /\ next' \in [Devices -> Nat \ {0}]
          /\ \A e \in Devices : e # d => next'[e] = next[e]
      BY <1>7, <2>1, <2>2 DEF StoreBlock, PrintFromReply, NumberInv, TypeOK
    <3>2. QED
      BY <2>1, <2>2, <3>1 DEF Holds, Holders, NumberInv, TypeOK
  <2>6. CASE StoreBlock(p)
    <3>1. next' = [next EXCEPT ![d] = reply[p]] /\ UNCHANGED <<printed, copies>>
      BY <2>6 DEF StoreBlock
    <3>2. TypeOK'
      BY <2>1, <2>2, <2>3, <3>1 DEF NumberInv, TypeOK, server
    <3>3. \A k \in Numbers : Holds(d, k)' => Holds(p, k)
      BY <2>1, <2>2, <2>3, <2>4, <3>1 DEF Holds, NumberInv, TypeOK, Numbers
    <3>4. Disjoint'
      <4>1. Passed(p, d)
        BY <2>5, <3>3 DEF Passed
      <4>2. QED
        BY <2>1, <2>2, <3>1, <4>1, HandOver
    <3>5. QED
      BY <1>1, <2>2, <3>2, <3>4 DEF NumberInv
  <2>7. CASE PrintFromReply(p)
    <3>1. /\ next' = [next EXCEPT ![d] = reply[p] + 1]
          /\ printed' = [printed EXCEPT ![d] = @ \cup {reply[p]}]
          /\ copies' = [copies EXCEPT ![LocationOf[d]][reply[p]] = @ + 1]
      BY <2>7 DEF PrintFromReply
    <3>2. TypeOK'
      BY <2>1, <2>2, <2>3, <3>1 DEF NumberInv, TypeOK, server
    <3>3. \A k \in Numbers : Holds(d, k)' => Holds(p, k) /\ k # reply[p]
      BY <2>1, <2>2, <2>3, <2>4, <3>1 DEF Holds, NumberInv, TypeOK, Numbers
    <3>4. Holds(p, reply[p])
      BY <2>2, <2>3, <2>4
    <3>5. Disjoint'
      <4>1. Passed(p, d)
        BY <2>5, <3>3 DEF Passed
      <4>2. PutToUse(p, d)
        BY <2>1, <2>3, <3>1, <3>3, <3>4 DEF PutToUse
      <4>3. UNCHANGED rows /\ p \in Holders /\ d \in Holders /\ Source(Site(p)) = Source(Site(d))
        BY <2>1, <2>2
      <4> HIDE DEF d
      <4>4. QED
        BY <4>1, <4>2, <4>3, HandOver
    <3>6. QED
      BY <1>1, <2>2, <3>2, <3>5 DEF NumberInv
  <2>8. QED
    BY <1>7, <2>6, <2>7
<1>8. QED
  BY <1>3, <1>4, <1>5, <1>6, <1>7 DEF Client

LEMMA NumberStays == NumberInv /\ [Next]_vars => NumberInv'
<1> SUFFICES ASSUME NumberInv, [Next]_vars PROVE NumberInv'
  OBVIOUS
<1>1. ASSUME NEW p \in Procs, FindNoLocal(p) PROVE NumberInv'
  <2>1. TypeOK'
    BY <1>1 DEF FindNoLocal, NumberInv, TypeOK, device
  <2>2. Locked'
    <3>1. p \in Coroutines => reply[p] = 0
      BY <1>1, Places DEF FindNoLocal, MayEnter
    <3>2. \A q \in Coroutines : stage'[q] # "idle" => reply'[q] = 0
      BY <1>1, <3>1, Places DEF FindNoLocal, device, NumberInv, TypeOK, Locked
    <3>3. QED
      BY <1>1, <3>2
         DEF FindNoLocal, MayEnter, LocationFree, NumberInv, TypeOK, Locked, Counter
  <2>3. OneRow' /\ Disjoint'
    BY <1>1 DEF FindNoLocal, NumberInv, OneRow, Disjoint, Counter, Holds, device
  <2>4. QED
    BY <2>1, <2>2, <2>3 DEF NumberInv
<1>2. ASSUME NEW p \in Procs, Rollback(p) PROVE NumberInv'
  <2>1. TypeOK'
    <3>1. \A q \in Coroutines : reply[q] # 0 => q # p
      BY <1>2 DEF Rollback, NumberInv, Locked
    <3>2. QED
      BY <1>2, <3>1 DEF Rollback, Finish, NumberInv, TypeOK
  <2>2. Locked'
    BY <1>2 DEF Rollback, Finish, NumberInv, TypeOK, Locked, Counter
  <2>3. OneRow' /\ Disjoint'
    BY <1>2 DEF Rollback, NumberInv, OneRow, Disjoint, Counter, Holds
  <2>4. QED
    BY <2>1, <2>2, <2>3 DEF NumberInv
<1>3. CASE UNCHANGED vars
  BY <1>3 DEF vars, NumberInv, TypeOK, OneRow, Locked, Disjoint, Counter, Holds
<1>4. QED
  BY <1>1, <1>2, <1>3, DrawStays, CommitDocumentStays, CommitReservationStays, ClientStays
     DEF Next, Transaction

\* The variables keep their types, whatever the locations, clerks and devices.
THEOREM NumberingTyped == Spec => []TypeOK
<1>1. NumberInv => TypeOK
  BY DEF NumberInv
<1>2. QED
  BY NumberInit, NumberStays, <1>1, PTL DEF Spec

\* No number is given twice at a location while nobody administers the rows,
\* whatever transactions roll back, answers are lost and reservations overlap.
THEOREM NumbersNeverCollide == Spec => []NoCollision
<1>1. NumberInv => NoCollision
  BY DEF NumberInv, Disjoint, NoCollision
<1>2. QED
  BY NumberInit, NumberStays, <1>1, PTL DEF Spec

\* Where the locations share a global counter, no number is given twice in the
\* company.
THEOREM CompanyNumbersNeverCollide == Spec => []NoCollisionInCompany
<1>1. NumberInv => NoCollisionInCompany
  <2> SUFFICES ASSUME NumberInv, NEW l \in Locations, NEW m \in Locations,
                      NEW n \in Numbers, l # m, rows[Global] # <<>>
               PROVE  copies[l][n] + copies[m][n] <= 1
    BY DEF NoCollisionInCompany
  <2>1. Source(l) = Source(m)
    BY DEF Source, NumberInv, OneRow
  <2>2. copies[l][n] \in Nat /\ copies[m][n] \in Nat
    BY DEF NumberInv, TypeOK
  <2>3. QED
    BY <2>1, <2>2 DEF NumberInv, Disjoint
<1>2. QED
  BY NumberInit, NumberStays, <1>1, PTL DEF Spec

\* The documents of the server, and the receipts that are still on a device, are
\* the uses that copies counts.
Accounted ==
  /\ \A l \in Locations : \A n \in recorded[l] : copies[l][n] > 0
  /\ \A d \in Devices : \A n \in printed[d] : copies[LocationOf[d]][n] > 0
  /\ \A d \in Devices : printed[d] \cap recorded[LocationOf[d]] = {}
  /\ \A d, e \in Devices :
       d # e /\ LocationOf[d] = LocationOf[e] => printed[d] \cap printed[e] = {}

\* A number above the counter of a location is not in use there, and neither is one
\* that a device or an answer holds.
LEMMA Unused ==
  ASSUME NumberInv
  PROVE  /\ \A h \in Holders : \A n \in Numbers : Holds(h, n) => copies[Site(h)][n] = 0
         /\ \A p \in Procs : stage[p] = "drawn" =>
              first[p] \in Numbers /\ copies[PlaceOf(p)][first[p]] = 0
<1>1. \A h \in Holders : \A n \in Numbers : Holds(h, n) => copies[Site(h)][n] = 0
  BY Places DEF NumberInv, Disjoint
<1>2. ASSUME NEW p \in Procs, stage[p] = "drawn"
      PROVE  first[p] \in Numbers /\ copies[PlaceOf(p)][first[p]] = 0
  <2>1. /\ first[p] \in 1..(MaxNumber + 1 - Quantity(p)) /\ Quantity(p) \in Nat \ {0}
        /\ PlaceOf(p) \in Locations
        /\ first[p] = Counter(Source(PlaceOf(p))) + 1
    BY <1>2, Places DEF NumberInv, TypeOK, Locked
  <2>2. first[p] \in Numbers
    BY <2>1, NumberingConstants DEF Numbers
  <2>3. Counter(Source(PlaceOf(p))) \in Nat
    BY <2>1, Places DEF NumberInv, OneRow, Counter
  <2>4. ~(first[p] <= Counter(Source(PlaceOf(p))))
    BY <2>1, <2>3
  <2>5. ~(copies[PlaceOf(p)][first[p]] > 0)
    BY <2>1, <2>2, <2>4 DEF NumberInv, Disjoint
  <2>6. copies[PlaceOf(p)][first[p]] \in Nat
    BY <2>1, <2>2 DEF NumberInv, TypeOK
  <2>7. QED
    BY <2>2, <2>5, <2>6
<1>3. QED
  BY <1>1, <1>2

\* The number n of l is put to use, by a document or on device d.
LEMMA UseAccounted ==
  ASSUME NumberInv, Accounted, NEW l \in Locations, NEW n \in Numbers, copies[l][n] = 0,
         copies' = [copies EXCEPT ![l][n] = @ + 1],
         \/ recorded' = [recorded EXCEPT ![l] = @ \cup {n}] /\ printed' = printed
         \/ /\ recorded' = recorded
            /\ \E d \in Devices : LocationOf[d] = l
                                  /\ printed' = [printed EXCEPT ![d] = @ \cup {n}]
  PROVE  Accounted'
<1>1. /\ printed \in [Devices -> SUBSET Numbers]
      /\ recorded \in [Locations -> SUBSET Numbers]
      /\ copies \in [Locations -> [Numbers -> Nat]]
      /\ \A d \in Devices : LocationOf[d] \in Locations
  BY NumberingConstants DEF NumberInv, TypeOK
<1>2. \A k \in Locations, m \in Numbers :
        copies'[k][m] = IF k = l /\ m = n THEN 1 ELSE copies[k][m]
  BY <1>1
<1>3. n \notin recorded[l] /\ \A d \in Devices : LocationOf[d] = l => n \notin printed[d]
  BY <1>1 DEF Accounted
<1>4. CASE recorded' = [recorded EXCEPT ![l] = @ \cup {n}] /\ printed' = printed
  BY <1>1, <1>2, <1>3, <1>4 DEF Accounted
<1>5. ASSUME recorded' = recorded, NEW d \in Devices, LocationOf[d] = l,
             printed' = [printed EXCEPT ![d] = @ \cup {n}]
      PROVE  Accounted'
  BY <1>1, <1>2, <1>3, <1>5 DEF Accounted
<1>6. QED
  BY <1>4, <1>5

LEMMA AccountedStays == NumberInv /\ Accounted /\ [Next]_vars => Accounted'
<1> SUFFICES ASSUME NumberInv, Accounted, [Next]_vars PROVE Accounted'
  OBVIOUS
<1>1. ASSUME NEW d \in Devices, PrintReceipt(d) PROVE Accounted'
  <2>1. d \in Holders /\ next[d] \in Numbers /\ Holds(d, next[d])
    <3>1. next[d] \in Nat \ {0} /\ last[d] \in 0..MaxNumber /\ next[d] <= last[d]
      BY <1>1 DEF PrintReceipt, NumberInv, TypeOK
    <3>2. QED
      BY <3>1, NumberingConstants DEF Holders, Holds, Numbers
  <2>2. Site(d) = LocationOf[d] /\ Site(d) \in Locations
    BY <2>1, Places
  <2>3. QED
    BY <1>1, <2>1, <2>2, Unused, UseAccounted DEF PrintReceipt
<1>2. ASSUME NEW p \in Coroutines, PrintFromReply(p) PROVE Accounted'
  <2> DEFINE d == DeviceOf(p)
  <2>1. /\ p \in Holders /\ p \notin Devices /\ d \in Devices
        /\ Site(p) = LocationOf[d] /\ Site(p) \in Locations
    BY Places DEF Holders
  <2>2. reply[p] \in Numbers /\ Holds(p, reply[p])
    BY <1>2, <2>1, NumberingConstants DEF PrintFromReply, Holds, NumberInv, TypeOK, Numbers
  <2>3. QED
    BY <1>2, <2>1, <2>2, Unused, UseAccounted DEF PrintFromReply
<1>3. ASSUME NEW p \in Procs, CommitDocument(p) PROVE Accounted'
  BY <1>3, Places, Unused, UseAccounted DEF CommitDocument, device
<1>4. ASSUME NEW d \in Devices, NEW n \in Numbers, SyncReceipt(d, n) PROVE Accounted'
  BY <1>4, NumberingConstants DEF SyncReceipt, Accounted, NumberInv, TypeOK
<1>5. ASSUME UNCHANGED <<printed, recorded, copies>> PROVE Accounted'
  BY <1>5 DEF Accounted
<1>6. ASSUME NEW p \in Procs,
             \/ DrawLocal(p) \/ FindNoLocal(p) \/ DrawGlobal(p) \/ Provision(p)
             \/ CommitReservation(p) \/ Rollback(p)
      PROVE  UNCHANGED <<printed, recorded, copies>>
  BY <1>6 DEF DrawLocal, FindNoLocal, DrawGlobal, Provision, Draw, CommitReservation,
              Rollback, device
<1>7. ASSUME NEW p \in Coroutines, AskForBlock(p) \/ StoreBlock(p) \/ GiveUp(p)
      PROVE  UNCHANGED <<printed, recorded, copies>>
  BY <1>7 DEF AskForBlock, StoreBlock, GiveUp
<1>8. QED
  BY <1>1, <1>2, <1>3, <1>4, <1>5, <1>6, <1>7 DEF Next, Transaction, Client, vars

\* A printed receipt finds its number free when it is synced, and so does an
\* online document when it commits: the unique index never stands in the way.
THEOREM NumbersStayFree == Spec => []NumberStillFree
<1>1. Init => Accounted
  BY NumberingConstants DEF Init, Company, Accounted
<1>2. NumberInv /\ Accounted => NumberStillFree
  <2> SUFFICES ASSUME NumberInv, Accounted, NEW p \in Clerks, stage[p] = "drawn"
               PROVE  first[p] \notin recorded[PlaceOf(p)]
    BY DEF NumberStillFree, Accounted
  <2>1. p \in Procs /\ PlaceOf(p) \in Locations
    BY Places DEF Procs
  <2>2. QED
    BY <2>1, Unused DEF Accounted
<1>3. QED
  BY NumberInit, NumberStays, AccountedStays, <1>1, <1>2, PTL DEF Spec
=============================================================================
