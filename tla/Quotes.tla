------------------------------- MODULE Quotes -------------------------------
(***************************************************************************)
(* Quotes and their conversion to sales                                    *)
(* (the quote operations of                                                *)
(* go_backend_rmt/internal/services/sales_service.go).                     *)
(*                                                                         *)
(* A quote has a head (customer, discount, status) and lines.  A request   *)
(* looks at the quote before its transaction, or reads it in several       *)
(* statements, and takes no lock: PostgreSQL's READ COMMITTED gives each   *)
(* statement the rows committed when it starts, and a DELETE that meets    *)
(* rows another transaction has deleted waits for it.                      *)
(*                                                                         *)
(* Simplifications: a line and a head are known by the request that wrote  *)
(* them, 0 the creation; what a sale needs besides (stock, credit) may     *)
(* refuse a conversion at any time; the transaction type and the notes are *)
(* left out, as is expiry, which no operation looks at.                    *)
(***************************************************************************)
EXTENDS Integers, FiniteSets

CONSTANTS
  Quotes,
  QuoteRequests,
  MaxRequests,     \* bound: requests made
  NoQuote

Statuses == {"DRAFT", "SENT", "ACCEPTED", "CONVERTED"}
QuoteRecord ==
  [head : Nat, total : [head : Nat, lines : SUBSET Nat], status : Statuses,
   converted : BOOLEAN, deleted : BOOLEAN]

QuoteConstants == NoQuote \notin Quotes \cup QuoteRecord /\ MaxRequests \in Nat

VARIABLES
  quote,     \* quote[q]: the row, NoQuote before it is created
  lines,     \* lines[q]: its quote_items
  sales,     \* sales[q]: sales with the key quote:q, as the terms they sold
  doing,     \* doing[r]: the request r works on
  made,      \* requests made so far; a request's number names what it writes
  crossed    \* history: quotes that an edit may have reached during a conversion

quoteVars == <<quote, lines, sales, doing, made, crossed>>

Free == [op |-> "none", on |-> NoQuote, at |-> "", id |-> 0,
         head |-> 0, seen |-> {}, status |-> "DRAFT"]

QuotesInit ==
  /\ quote = [q \in Quotes |-> NoQuote]
  /\ lines = [q \in Quotes |-> {}]
  /\ sales = [q \in Quotes |-> {}]
  /\ doing = [r \in QuoteRequests |-> Free]
  /\ made = 0
  /\ crossed = {}

Live(q) == quote[q] # NoQuote /\ ~quote[q].deleted
Under(q) == {r \in QuoteRequests : doing[r].on = q}

\* CreateQuote, one transaction.  Total: the head and the lines it was added up from.
CreateQuote(q) ==
  /\ quote[q] = NoQuote
  /\ quote' = [quote EXCEPT ![q] =
       [head |-> 0, total |-> [head |-> 0, lines |-> {0}], status |-> "DRAFT",
        converted |-> FALSE, deleted |-> FALSE]]
  /\ lines' = [lines EXCEPT ![q] = {0}]
  /\ UNCHANGED <<sales, doing, made, crossed>>

\* A request that found q in order; crossed if another one is at work on it.
Start(r, q, job) ==
  /\ doing[r] = Free
  /\ made < MaxRequests
  /\ made' = made + 1
  /\ doing' = [doing EXCEPT ![r] = [job EXCEPT !.on = q, !.id = made + 1]]
  /\ crossed' = IF Under(q) = {} THEN crossed ELSE crossed \cup {q}
  /\ UNCHANGED <<quote, lines, sales>>

End(r) == doing' = [doing EXCEPT ![r] = Free]
Goto(r, where) == doing' = [doing EXCEPT ![r].at = where]

----------------------------------------------------------------------------
(* UpdateQuote                                                             *)

\* "Quotes are immutable after conversion": looked at before the transaction.  The
\* request has new lines, a new discount or customer, or another status.
BeginUpdate(r, q, op, status) ==
  /\ Live(q)
  /\ ~quote[q].converted
  /\ Start(r, q, [Free EXCEPT !.op = op, !.at = "check", !.status = status])

\* An update of the lines writes back the discount there is now.
LoadDiscount(r) ==
  LET q == doing[r].on
  IN /\ doing[r].op = "lines" /\ doing[r].at = "check"
     /\ Live(q)
     /\ doing' = [doing EXCEPT ![r].at = "loaded", ![r].head = quote[q].head]
     /\ UNCHANGED <<quote, lines, sales, made, crossed>>

\* The DELETE of the old lines starts: these rows it has in view.
ViewLines(r) ==
  /\ doing[r].at = "loaded"
  /\ doing' = [doing EXCEPT ![r].at = "view", ![r].seen = lines[doing[r].on]]
  /\ UNCHANGED <<quote, lines, sales, made, crossed>>

\* It has waited for the transactions that had deleted some of them, and deletes the
\* others; the new lines are inserted.
Clear(r) ==
  LET q == doing[r].on
  IN /\ doing[r].at = "view"
     /\ \A o \in Under(q) \ {r} : doing[o].at = "cleared" => doing[o].seen \cap doing[r].seen = {}
     /\ doing' = [doing EXCEPT ![r].at = "cleared", ![r].seen = @ \cap lines[q]]
     /\ UNCHANGED <<quote, lines, sales, made, crossed>>

\* The UPDATE of the head and the commit: the total is of the new lines.
CommitLines(r) ==
  LET q == doing[r].on
  IN /\ doing[r].at = "cleared"
     /\ lines' = [lines EXCEPT ![q] = (@ \ doing[r].seen) \cup {doing[r].id}]
     /\ quote' = [quote EXCEPT ![q].total =
          [head |-> doing[r].head, lines |-> {doing[r].id}], ![q].head = doing[r].head]
     /\ crossed' = IF sales[q] # {} /\ ~quote[q].converted THEN crossed \cup {q} ELSE crossed
     /\ End(r)
     /\ UNCHANGED <<sales, made>>

\* With another discount the lines are added up again, then the head is written.
AddUpLines(r) ==
  LET q == doing[r].on
  IN /\ doing[r].op = "head" /\ doing[r].at = "check"
     /\ Live(q)
     /\ doing' = [doing EXCEPT ![r].at = "added", ![r].seen = lines[q]]
     /\ UNCHANGED <<quote, lines, sales, made, crossed>>

CommitHead(r) ==
  LET q == doing[r].on
  IN /\ doing[r].at = "added"
     /\ quote' = [quote EXCEPT ![q].head = doing[r].id,
          ![q].total = [head |-> doing[r].id, lines |-> doing[r].seen]]
     /\ crossed' = IF sales[q] # {} /\ ~quote[q].converted THEN crossed \cup {q} ELSE crossed
     /\ End(r)
     /\ UNCHANGED <<lines, sales, made>>

\* Any of the statuses the table admits is taken as it comes.
CommitStatus(r) ==
  LET q == doing[r].on
  IN /\ doing[r].op = "status" /\ doing[r].at = "check"
     /\ Live(q)
     /\ quote' = [quote EXCEPT ![q].status = doing[r].status]
     /\ End(r)
     /\ UNCHANGED <<lines, sales, made, crossed>>

----------------------------------------------------------------------------
(* DeleteQuote, PrintQuote                                                 *)

BeginDelete(r, q) ==
  /\ Live(q)
  /\ ~quote[q].converted
  /\ Start(r, q, [Free EXCEPT !.op = "delete", !.at = "check"])

DeleteQuote(r) ==
  LET q == doing[r].on
  IN /\ doing[r].op = "delete"
     /\ quote' = [quote EXCEPT ![q].deleted = TRUE]
     /\ crossed' = IF sales[q] # {} /\ ~quote[q].converted THEN crossed \cup {q} ELSE crossed
     /\ End(r)
     /\ UNCHANGED <<lines, sales, made>>

\* Also ShareQuote: a DRAFT is SENT.
PrintQuote(q) ==
  /\ Live(q)
  /\ quote[q].status = "DRAFT"
  /\ quote' = [quote EXCEPT ![q].status = "SENT"]
  /\ UNCHANGED <<lines, sales, doing, made, crossed>>

----------------------------------------------------------------------------
(* ConvertQuoteToSale                                                      *)

\* The head is read; a converted quote is answered with its sale.
BeginConvert(r, q) ==
  /\ Live(q)
  /\ ~quote[q].converted
  /\ quote[q].status = "ACCEPTED"
  /\ Start(r, q, [Free EXCEPT !.op = "convert", !.at = "head", !.head = quote[q].head])

\* getQuoteItems: then the lines.
ReadLines(r) ==
  LET q == doing[r].on
  IN /\ doing[r].op = "convert" /\ doing[r].at = "head"
     /\ Live(q)
     /\ doing' = [doing EXCEPT ![r].at = "sell", ![r].seen = lines[q]]
     /\ UNCHANGED <<quote, lines, sales, made, crossed>>

\* Fault: the sale is created without the key of its quote.
Fault_Sell(r) ==
  LET q == doing[r].on
  IN /\ doing[r].at = "sell"
     /\ sales' = [sales EXCEPT ![q] =
          @ \cup {[id |-> doing[r].id, head |-> doing[r].head, lines |-> doing[r].seen]}]
     /\ Goto(r, "mark")
     /\ UNCHANGED <<quote, lines, made, crossed>>

\* CreateSaleWithOptions with the key of the quote: a sale that has it is the answer,
\* found before the transaction or by the unique index.
Sell(r) ==
  LET q == doing[r].on
  IN /\ doing[r].at = "sell"
     /\ sales' = IF sales[q] # {} THEN sales ELSE
          [sales EXCEPT ![q] =
             {[id |-> doing[r].id, head |-> doing[r].head, lines |-> doing[r].seen]}]
     /\ Goto(r, "mark")
     /\ UNCHANGED <<quote, lines, made, crossed>>

\* A second commit: CONVERTED, with the sale; a quote deleted meanwhile stays as it is.
MarkConverted(r) ==
  LET q == doing[r].on
  IN /\ doing[r].at = "mark"
     /\ quote' = IF Live(q)
          THEN [quote EXCEPT ![q].status = "CONVERTED", ![q].converted = TRUE] ELSE quote
     /\ End(r)
     /\ UNCHANGED <<lines, sales, made, crossed>>

\* A request is refused, its transaction fails, or the process dies: a sale that was
\* committed stays, and its quote is not marked.
Abandon(r) ==
  /\ doing[r] # Free
  /\ End(r)
  /\ UNCHANGED <<quote, lines, sales, made, crossed>>

----------------------------------------------------------------------------

QuotesNext ==
  \/ \E q \in Quotes :
       \/ CreateQuote(q) \/ PrintQuote(q)
       \/ \E r \in QuoteRequests :
            \/ \E op \in {"lines", "head"} : BeginUpdate(r, q, op, "DRAFT")
            \/ \E s \in Statuses : BeginUpdate(r, q, "status", s)
            \/ BeginDelete(r, q) \/ BeginConvert(r, q)
  \/ \E r \in QuoteRequests :
       \/ LoadDiscount(r) \/ ViewLines(r) \/ Clear(r) \/ CommitLines(r)
       \/ AddUpLines(r) \/ CommitHead(r) \/ CommitStatus(r)
       \/ DeleteQuote(r)
       \/ ReadLines(r) \/ Sell(r) \/ MarkConverted(r)
       \/ Abandon(r)

QuotesSpec == QuotesInit /\ [][QuotesNext]_quoteVars

----------------------------------------------------------------------------
(* Properties                                                              *)

\* However often a quote is converted, at once or after a crash, it is sold once; and
\* "immutable after conversion": a quote that was sold keeps the head and the lines
\* that were sold, and its total is theirs, unless requests on it overlapped or an edit
\* came between the sale and the mark of a conversion that stopped
\* (ConvertQuoteToSale, UpdateQuote).
QuoteSoldAsIs ==
  \A q \in Quotes :
    /\ Cardinality(sales[q]) <= 1
    /\ quote[q] # NoQuote /\ q \notin crossed =>
         /\ quote[q].total = [head |-> quote[q].head, lines |-> lines[q]]
         /\ \A s \in sales[q] : <<s.head, s.lines>> = <<quote[q].head, lines[q]>>
=============================================================================
