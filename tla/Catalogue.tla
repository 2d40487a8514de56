----------------------------- MODULE Catalogue ------------------------------
(***************************************************************************)
(* Products, their barcodes, combos of them and their places on the shelf  *)
(* (go_backend_rmt/internal/services/product_service.go,                   *)
(* combo_product_service.go, product_storage_service.go).                  *)
(*                                                                         *)
(* A row of product_barcodes is a variation of its product: stock,         *)
(* documents, combos and shelves refer to the row, customers' goods carry  *)
(* its code.  Products look for a code before their transaction, combos in *)
(* theirs; unique indexes keep the codes of all variations apart, and      *)
(* those of all combos, but not a variation's from a combo's.              *)
(*                                                                         *)
(* Simplifications: one company; a combo stays active until it is deleted; *)
(* codes differ in more than case; prices, units, attributes and all else  *)
(* that only describes a product are left out.                             *)
(***************************************************************************)
EXTENDS Integers, Sequences, FiniteSets, SequencesExt

CONSTANTS
  Products, Combos, Codes,
  Editors,       \* concurrent requests
  MaxVariations, \* bound: barcode rows ever inserted
  MaxEdits,      \* bound: requests made
  None

Bars == 1..MaxVariations

\* A row of product_barcodes; and one of combo_products with its components.
Variation == [of : Products, code : Codes, primary : BOOLEAN, active : BOOLEAN]
Combo == [code : Codes, parts : SUBSET Bars, deleted : BOOLEAN]

CatalogueConstants ==
  /\ None \notin Products \cup Combos \cup Variation \cup Combo
  /\ {MaxVariations, MaxEdits} \subseteq Nat

VARIABLES
  product,  \* product[p]: "none", "live" or "deleted"
  bar,      \* bar[b]: the row, None if there is none
  inserted, \* rows ever inserted, the id of the last one
  combo,    \* combo[c]: its code, its components, whether it is deleted
  used,     \* rows that stock and documents refer to
  shelf,    \* rows that a storage assignment refers to
  editor,   \* editor[e]: the request of e
  edits,
  taken,    \* history: codes a product took from a combo
  doubled,  \* history: products of a request that named one row twice
  raced     \* history: codes that two requests had in hand at once

catalogueVars ==
  <<product, bar, inserted, combo, used, shelf, editor, edits, taken, doubled, raced>>

Resting == [op |-> "none", on |-> None, entries |-> <<>>, codes |-> {}, parts |-> {}]

CatalogueInit ==
  /\ product = [p \in Products |-> "none"]
  /\ bar = [b \in Bars |-> None]
  /\ inserted = 0
  /\ combo = [c \in Combos |-> None]
  /\ used = {}
  /\ shelf = {}
  /\ editor = [e \in Editors |-> Resting]
  /\ edits = 0
  /\ taken = {}
  /\ doubled = {}
  /\ raced = {}

Rows(bars) == {b \in Bars : bars[b] # None}
BarsOf(bars, p) == {b \in Rows(bars) : bars[b].of = p}
LiveBars == {b \in Rows(bar) : product[bar[b].of] = "live"}
LiveCombos == {c \in Combos : combo[c] # None /\ ~combo[c].deleted}

\* resolveVariantTx: what stock can be moved of.
Movable == {b \in LiveBars : bar[b].active}

Ready(e) == editor[e] = Resting /\ edits < MaxEdits

\* A request begins; codes are those it has in hand.
Take(e, job) ==
  /\ Ready(e)
  /\ edits' = edits + 1
  /\ editor' = [editor EXCEPT ![e] = job]
  /\ raced' = raced \cup UNION {job.codes \cap editor[o].codes : o \in Editors}
  /\ UNCHANGED <<product, bar, inserted, combo, used, shelf, taken, doubled>>

Done(e) == editor' = [editor EXCEPT ![e] = Resting]

----------------------------------------------------------------------------
(* Products                                                                *)

\* An entry of a request: the row it changes, 0 for none, and what it is to be.
Entry == [id : 0..MaxVariations, code : Codes, primary : BOOLEAN, active : BOOLEAN]

\* validateSinglePrimaryBarcode.
SinglePrimary(entries) ==
  Cardinality({i \in DOMAIN entries : entries[i].primary}) = 1

\* checkProductExists: a code on another live product.  Combos are not looked at.
OnAnotherProduct(code, p) == \E b \in LiveBars : bar[b].code = code /\ bar[b].of # p

CodesIn(entries) == {entries[i].code : i \in DOMAIN entries}

\* CreateProduct and UpdateProduct, before the transaction.
BeginProduct(e, p, entries) ==
  /\ SinglePrimary(entries)
  /\ \A code \in CodesIn(entries) : ~OnAnotherProduct(code, p)
  /\ product[p] = "none" => \A i \in DOMAIN entries : entries[i].id = 0 /\ entries[i].active
  /\ Take(e, [op |-> "product", on |-> p, entries |-> entries, codes |-> CodesIn(entries),
              parts |-> {}])

\* The unique index on the codes of all products, deleted ones too.
FreeFor(bars, code, b) == \A o \in Rows(bars) \ {b} : bars[o].code # code

\* One entry of syncProductBarcodesTx, for product p that had the rows `old`.
SyncEntry(p, old, acc, entry) ==
  LET row == [of |-> p, code |-> entry.code, primary |-> entry.primary, active |-> entry.active]
      same == {b \in BarsOf(old, p) \ acc.matched : old[b].code = entry.code}
      put(b, last) ==
        [bars |-> [acc.bars EXCEPT ![b] = row], matched |-> acc.matched \cup {b},
         last |-> last, ok |-> TRUE, twice |-> acc.twice \/ b \in acc.matched]
      new == acc.last + 1
  IN CASE ~acc.ok -> acc
       [] acc.ok /\ entry.id # 0 ->
            IF entry.id \in BarsOf(old, p) /\ FreeFor(acc.bars, entry.code, entry.id)
            THEN put(entry.id, acc.last) ELSE [acc EXCEPT !.ok = FALSE]
       [] acc.ok /\ entry.id = 0 /\ same # {} -> put(CHOOSE b \in same : TRUE, acc.last)
       [] OTHER -> IF new \in Bars /\ FreeFor(acc.bars, entry.code, 0)
                   THEN put(new, new) ELSE [acc EXCEPT !.ok = FALSE]

NoPrimary(bars, p) ==
  [b \in Bars |-> IF b \in BarsOf(bars, p) THEN [bars[b] EXCEPT !.primary = FALSE] ELSE bars[b]]

\* syncProductBarcodesTx: the primary is reset, the entries are applied in order.
Synced(p, entries) ==
  FoldLeft(LAMBDA acc, entry : SyncEntry(p, bar, acc, entry),
           [bars |-> NoPrimary(bar, p), matched |-> {}, last |-> inserted,
            ok |-> TRUE, twice |-> FALSE],
           entries)

\* Components of combos, deleted ones too: the foreign key keeps their rows.
Components == UNION {combo[c].parts : c \in {d \in Combos : combo[d] # None}}

\* Fault: what is referenced stays as it was.
Fault_Swept(p, s) ==
  LET left == BarsOf(bar, p) \ s.matched
  IN [b \in Bars |->
        CASE b \in left \cap used -> bar[b]
          [] b \in left \ used -> None
          [] OTHER -> s.bars[b]]

\* Rows that no entry matched: referenced ones are deactivated, the others deleted, and
\* their places on the shelf with them.
Swept(p, s) ==
  LET left == BarsOf(bar, p) \ s.matched
  IN [b \in Bars |->
        CASE b \in left \cap used -> [s.bars[b] EXCEPT !.primary = FALSE, !.active = FALSE]
          [] b \in left \ used -> None
          [] OTHER -> s.bars[b]]

\* The transaction of CreateProduct or UpdateProduct, which does not look whether the
\* product was deleted.
CommitProduct(e) ==
  LET p == editor[e].on
      s == Synced(p, editor[e].entries)
      after == Swept(p, s)
  IN /\ editor[e].op = "product"
     /\ s.ok
     /\ Components \subseteq Rows(after)
     /\ bar' = after
     /\ inserted' = s.last
     /\ product' = [product EXCEPT ![p] = IF @ = "none" THEN "live" ELSE @]
     /\ shelf' = shelf \cap Rows(after)
     /\ taken' = taken \cup
          (editor[e].codes \cap {combo[c].code : c \in LiveCombos})
     /\ doubled' = IF s.twice THEN doubled \cup {p} ELSE doubled
     /\ Done(e)
     /\ UNCHANGED <<combo, used, edits, raced>>

DeleteProduct(p) ==
  /\ product[p] = "live"
  /\ product' = [product EXCEPT ![p] = "deleted"]
  /\ UNCHANGED <<bar, inserted, combo, used, shelf, editor, edits, taken, doubled, raced>>

----------------------------------------------------------------------------
(* Combos                                                                  *)

\* validateComboRequestTx.
ComboValid(c, code, parts) ==
  /\ \A o \in LiveCombos \ {c} : combo[o].code # code
  /\ \A b \in LiveBars : bar[b].code # code
  /\ parts # {} /\ parts \subseteq Movable

\* CreateComboProduct; and UpdateComboProduct, which writes back what it is not asked to
\* change as it reads it here, without a lock.
BeginCombo(e, c, code, parts) ==
  /\ combo[c] # None => ~combo[c].deleted
  /\ ComboValid(c, code, parts)
  /\ Take(e, [op |-> "combo", on |-> c, entries |-> <<>>, codes |-> {code}, parts |-> parts])

\* The INSERT or UPDATE and the components, which an update replaces even if the combo
\* was deleted meanwhile.
CommitCombo(e) ==
  LET c == editor[e].on
      code == CHOOSE x \in editor[e].codes : TRUE
  IN /\ editor[e].op = "combo"
     /\ editor[e].parts \subseteq Rows(bar)
     /\ IF c \notin LiveCombos /\ combo[c] # None
        THEN combo' = [combo EXCEPT ![c].parts = editor[e].parts]
        ELSE /\ \A o \in LiveCombos \ {c} : combo[o].code # code
             /\ combo' = [combo EXCEPT ![c] =
                  [code |-> code, parts |-> editor[e].parts, deleted |-> FALSE]]
     /\ Done(e)
     /\ UNCHANGED <<product, bar, inserted, used, shelf, edits, taken, doubled, raced>>

DeleteComboProduct(c) ==
  /\ c \in LiveCombos
  /\ combo' = [combo EXCEPT ![c].deleted = TRUE]
  /\ UNCHANGED <<product, bar, inserted, used, shelf, editor, edits, taken, doubled, raced>>

----------------------------------------------------------------------------
(* What refers to variations                                               *)

\* A document moves stock of a variation,
MoveStock(b) ==
  /\ b \in Movable
  /\ used' = used \cup {b}
  /\ UNCHANGED <<product, bar, inserted, combo, shelf, editor, edits, taken, doubled, raced>>

\* or a sale of a combo of all its components.
SellCombo(c) ==
  /\ c \in LiveCombos
  /\ combo[c].parts \subseteq Movable
  /\ used' = used \cup combo[c].parts
  /\ UNCHANGED <<product, bar, inserted, combo, shelf, editor, edits, taken, doubled, raced>>

\* ReplaceAssignments of a product at the location.
ReplaceAssignments(p, places) ==
  /\ product[p] = "live"
  /\ places \subseteq {b \in BarsOf(bar, p) : bar[b].active}
  /\ shelf' = (shelf \ BarsOf(bar, p)) \cup places
  /\ UNCHANGED <<product, bar, inserted, combo, used, editor, edits, taken, doubled, raced>>

\* A request is refused, or its transaction fails.
GiveBack(e) ==
  /\ editor[e] # Resting
  /\ Done(e)
  /\ UNCHANGED <<product, bar, inserted, combo, used, shelf, edits, taken, doubled, raced>>

----------------------------------------------------------------------------

\* Bound: requests of one entry, and of two with the primary first, for a row of the
\* product or a new one, all active: rows are deactivated by leaving them out.
Requested(p) ==
  LET entry == {x \in Entry : x.id \in {0} \cup BarsOf(bar, p) /\ x.active}
      primary == {x \in entry : x.primary}
  IN {<<x>> : x \in primary} \cup {<<x, y>> : x \in primary, y \in entry \ primary}

CatalogueNext ==
  \/ \E e \in Editors :
       \/ /\ Ready(e)
          /\ \/ \E p \in Products : \E entries \in Requested(p) : BeginProduct(e, p, entries)
             \/ \E c \in Combos, code \in Codes, parts \in SUBSET Movable :
                  BeginCombo(e, c, code, parts)
       \/ CommitProduct(e)
       \/ CommitCombo(e)
       \/ GiveBack(e)
  \/ \E p \in Products : DeleteProduct(p) \/ \E places \in SUBSET BarsOf(bar, p) : ReplaceAssignments(p, places)
  \/ \E c \in Combos : DeleteComboProduct(c) \/ SellCombo(c)
  \/ \E b \in Bars : MoveStock(b)

CatalogueSpec == CatalogueInit /\ [][CatalogueNext]_catalogueVars

----------------------------------------------------------------------------
(* Properties                                                              *)

\* Whatever is edited at once: each product has exactly one primary variation, or
\* none once a request named one row twice, by its code and by its id; no row
\* that stock, documents, combos or shelves refer to is deleted, a code names at most one
\* variation and at most one combo that is not deleted; and a code names both only after
\* a product took it, which looks at no combo, or requests with the code overlapped
\* (syncProductBarcodesTx, validateComboRequestTx).
CodesAgree ==
  /\ \A p \in Products : product[p] # "none" =>
       Cardinality({b \in BarsOf(bar, p) : bar[b].primary})
         \in (IF p \in doubled THEN 0..1 ELSE {1})
  /\ used \cup shelf \cup Components \subseteq Rows(bar)
  /\ \A a, b \in Rows(bar) : bar[a].code = bar[b].code => a = b
  /\ \A c, d \in LiveCombos : combo[c].code = combo[d].code => c = d
  /\ \A b \in LiveBars, c \in LiveCombos :
       bar[b].code = combo[c].code => bar[b].code \in taken \cup raced
=============================================================================
