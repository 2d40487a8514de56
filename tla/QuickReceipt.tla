---------------------------- MODULE QuickReceipt ----------------------------
(***************************************************************************)
(* The quick goods receipt of the app                                      *)
(* (flutter_app/lib/features/purchases/data/grn_repository.dart,           *)
(* core/outbox/outbox_notifier.dart) over the purchases of the back end.   *)
(*                                                                         *)
(* Goods arrive without an order.  The app posts a purchase under an       *)
(* idempotency key, reads it back, then posts a goods receipt for all of   *)
(* it, which carries no key.  Sent directly, a failure of the second post  *)
(* is shown to the user; sent from the outbox, a network error leaves the  *)
(* item in the queue and both posts are repeated, and a refusal drops it.  *)
(*                                                                         *)
(* The queue itself, its loop and connectivity are those of ClientOutbox;  *)
(* here an item in it is sent at any time.                                 *)
(***************************************************************************)
EXTENDS Procurement

CONSTANT MaxEntered \* bound: orders and deliveries entered

VARIABLES
  delivery,  \* delivery[k]: what the app knows of the delivery with this key
  carries,   \* carries[r]: the delivery whose receipt a request is
  booked,    \* history: how often a delivery was received
  unsaid     \* history: deliveries received without the app learning of it

app == <<delivery, carries, booked, unsaid>>
allVars == <<vars, app>>

NoDelivery == [stage |-> "none"]

AppInit ==
  /\ Init
  /\ delivery = [k \in Keys |-> NoDelivery]
  /\ carries = [r \in Requests |-> NoKey]
  /\ booked = [k \in Keys |-> 0]
  /\ unsaid = {}

----------------------------------------------------------------------------
(* The first post                                                          *)

Entered == Cardinality({p \in Rows : purchase[p].key = NoKey})
         + Cardinality({k \in Keys : delivery[k] # NoDelivery})

\* createQuickGrn: the user enters a delivery; without connection it is queued.
Arrive(k, l, line, online) ==
  /\ Entered < MaxEntered
  /\ delivery[k] = NoDelivery
  /\ delivery' = [delivery EXCEPT ![k] =
       [stage |-> IF online THEN "posting" ELSE "queued", queued |-> ~online,
        of |-> NoPurchase, at |-> l, line |-> line]]
  /\ UNCHANGED <<vars, carries, booked, unsaid>>

\* The app is about to post, directly or from the queue.
Posting(k) == delivery[k].stage \in {"posting", "queued"}

\* The server has made the purchase or found it; the answer may be lost, and then
\* the delivery is in the queue from then on.
Answered(k, p, heard) ==
  delivery' = [delivery EXCEPT ![k] =
    IF heard THEN [@ EXCEPT !.stage = "created", !.of = p]
             ELSE [@ EXCEPT !.stage = "queued", !.queued = TRUE]]

PostPurchase(k, p, heard) ==
  /\ Posting(k)
  /\ CreatePurchase(p, delivery[k].at, delivery[k].line, 0, k)
  /\ Answered(k, p, heard)
  /\ UNCHANGED <<carries, booked, unsaid>>

\* getPurchaseByIdempotencyKey finds a purchase that is not deleted.
FindPurchase(k, p, heard) ==
  /\ Posting(k)
  /\ p \in Live
  /\ purchase[p].key = k
  /\ Answered(k, p, heard)
  /\ UNCHANGED <<vars, carries, booked, unsaid>>

\* The post does not reach the server: a direct one is queued, and the queue keeps it.
Unreached(k) ==
  /\ delivery[k].stage = "posting"
  /\ delivery' = [delivery EXCEPT ![k].stage = "queued", ![k].queued = TRUE]
  /\ UNCHANGED <<vars, carries, booked, unsaid>>

\* A refusal is shown, or drops the item of the queue.
Refused(d) == [d EXCEPT !.stage = IF d.queued THEN "dropped" ELSE "failed"]

RefusePurchase(k) ==
  /\ Posting(k)
  /\ KeyTaken(k)
  /\ \A p \in Live : purchase[p].key # k
  /\ delivery' = [delivery EXCEPT ![k] = Refused(@)]
  /\ UNCHANGED <<vars, carries, booked, unsaid>>

----------------------------------------------------------------------------
(* The second post                                                         *)

\* The purchase is read back, its line matched, and the receipt posted: all of the
\* delivery, whatever the line says by now.  A queued one names no serials.
PostReceipt(k, r) ==
  /\ delivery[k].stage = "created"
  /\ delivery[k].queued => delivery[k].line.item \in Plain
  /\ BeginReceipt(r, delivery[k].of, delivery[k].line.qty)
  /\ delivery' = [delivery EXCEPT ![k].stage = "receiving"]
  /\ carries' = [carries EXCEPT ![r] = k]
  /\ UNCHANGED <<booked, unsaid>>

\* The purchase is gone or cannot be received, or the serials are missing.
RefuseReceipt(k) ==
  /\ delivery[k].stage = "created"
  /\ \/ delivery[k].of \notin Live
     \/ purchase[delivery[k].of].status \in {"RECEIVED", "CANCELLED"}
     \/ delivery[k].queued /\ delivery[k].line.item \in Serials
  /\ delivery' = [delivery EXCEPT ![k] = Refused(@)]
  /\ UNCHANGED <<vars, carries, booked, unsaid>>

\* Fault: a direct user is told that all went well.
Fault_Disconnected(d) == [d EXCEPT !.stage = IF d.queued THEN "queued" ELSE "done"]

\* A network error: the queue keeps its item, a direct user is shown the failure.
Disconnected(d) == [d EXCEPT !.stage = IF d.queued THEN "queued" ELSE "failed"]

\* The app loses the server before the second post, or while it waits for its answer;
\* the server goes on with the request.
LoseServer(k) ==
  /\ delivery[k].stage \in {"created", "receiving"}
  /\ delivery' = [delivery EXCEPT ![k] = Disconnected(@)]
  /\ unsaid' = IF booked[k] > 0 THEN unsaid \cup {k} ELSE unsaid
  /\ UNCHANGED <<vars, carries, booked>>

\* The receipt is committed and answered, if the app still waits; its add-ons, a
\* transaction of their own that the queue does not send, may fail, and then the
\* answer is an error.
BookDelivery(r, addonsFail) ==
  LET k == carries[r]
      waits == delivery[k].stage = "receiving"
  IN /\ k # NoKey
     /\ ReceivePurchase(r)
     /\ addonsFail => ~delivery[k].queued
     /\ booked' = [booked EXCEPT ![k] = @ + 1]
     /\ delivery' = [delivery EXCEPT ![k] =
          IF ~waits THEN @ ELSE IF addonsFail THEN Refused(@) ELSE [@ EXCEPT !.stage = "done"]]
     /\ unsaid' = IF waits /\ ~addonsFail THEN unsaid ELSE unsaid \cup {k}
     /\ carries' = [carries EXCEPT ![r] = NoKey]

FailDelivery(r) ==
  LET k == carries[r]
  IN /\ k # NoKey
     /\ RollBack(r)
     /\ delivery' = [delivery EXCEPT ![k] = IF @.stage = "receiving" THEN Refused(@) ELSE @]
     /\ carries' = [carries EXCEPT ![r] = NoKey]
     /\ UNCHANGED <<booked, unsaid>>

----------------------------------------------------------------------------

Deliver ==
  \/ \E k \in Keys, l \in Locations, line \in Lines, online \in BOOLEAN :
       Arrive(k, l, line, online)
  \/ \E k \in Keys, p \in Purchases, heard \in BOOLEAN :
       PostPurchase(k, p, heard) \/ FindPurchase(k, p, heard)
  \/ \E k \in Keys : Unreached(k) \/ RefusePurchase(k) \/ RefuseReceipt(k) \/ LoseServer(k)
  \/ \E k \in Keys, r \in Requests : PostReceipt(k, r)
  \/ \E r \in Requests :
       FailDelivery(r) \/ \E addonsFail \in BOOLEAN : BookDelivery(r, addonsFail)

\* Payments, debit notes and add-ons leave alone what a receipt reads: the bound is
\* that they are made while no delivery is about.
BackOffice ==
  /\ \/ Entered < MaxEntered /\ NewOrder
     \/ Order \/ Goods
     \/ (\A k \in Keys : delivery[k] = NoDelivery) /\ Money
     \/ \E r \in Requests : carries[r] = NoKey /\ (ReceivePurchase(r) \/ RollBack(r))
  /\ UNCHANGED app

AppNext == Deliver \/ BackOffice

AppSpec == AppInit /\ [][AppNext]_allVars

----------------------------------------------------------------------------
(* Properties                                                              *)

AppTypeOK ==
  /\ TypeOK
  /\ delivery \in [Keys -> {NoDelivery} \cup
       [stage : {"posting", "queued", "created", "receiving", "done", "failed", "dropped"},
        queued : BOOLEAN, of : Purchases \cup {NoPurchase}, at : Locations, line : Lines]]
  /\ carries \in [Requests -> Keys \cup {NoKey}]
  /\ booked \in [Keys -> Nat]
  /\ unsaid \subseteq Keys

\* However posts are lost and repeated: the goods of a delivery come in once only,
\* unless the lines of its purchase were replaced; the app that says so is right, and
\* the app that reports a failure, or drops the delivery, is wrong only if it lost the
\* answer or the add-ons failed.
DeliveryBooked ==
  \A k \in Keys :
    /\ booked[k] > 1 => \E p \in Rows : purchase[p].key = k /\ purchase[p].line > 1
    /\ delivery[k].stage = "done" => booked[k] > 0
    /\ delivery[k].stage \in {"failed", "dropped"} /\ booked[k] > 0 => k \in unsaid
=============================================================================
