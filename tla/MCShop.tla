------------------------------- MODULE MCShop -------------------------------
(***************************************************************************)
(* One instance for TLC of the modules about the goods of a shop:          *)
(* transfers and adjustments (Inventory), the documents of a sale          *)
(* (SaleDocuments), both over Stock, the edit of a sale (SaleEdit), quotes *)
(* (Quotes), what there is to sell (Catalogue) and amounts (Pricing).      *)
(* A behaviour is of one of them, its part, and the others rest.           *)
(***************************************************************************)
EXTENDS Stock, TLC

CONSTANTS
  l1, l2, pen, phone, s1, t1, t2, t3, r1, r2, v1, v2, cup, box,   \* model values
  Requests,
  Transfers, MaxMoved, MaxAdjustments, NoTransfer,
  Shelf, Sales, MaxSold, MaxSupply, MaxOverrides, StopAtDispute, NoSale,
  PostedLines, MaxVersion, MaxFaults,
  Quotes, MaxRequests, NoQuote,
  Products, Combos, Codes, MaxVariations, MaxEdits, None,
  Taxes, Sellable, Weights, Cost, Baskets, Tills, MaxPriced,
  Rates, Discounts, AllowLoss, MaxChanges, Fine

VARIABLES
  part,
  transfer, moving, overlapped, net, adjustments,
  sale, returned, taking, raced, disputed, supplied, overrides,
  version, row, ledger, deltas, edition, editing, step, amounts, line, disturbed, faults,
  quote, lines, sales, doing, made, crossed,
  product, bar, inserted, combo, used, shelf, editor, edits, taken, doubled, contested,
  rate, parts, taxOf, inclusive, sold, till, changes, skewed

Transport == INSTANCE Inventory WITH job <- moving, MaxLine <- MaxMoved
Docs == INSTANCE SaleDocuments WITH job <- taking, MaxLine <- MaxSold, Locations <- Shelf
Edit == INSTANCE SaleEdit WITH job <- editing, Lines <- PostedLines
Offers == INSTANCE Quotes WITH QuoteRequests <- Requests
Goods == INSTANCE Catalogue WITH Editors <- Requests, raced <- contested

Prices == INSTANCE Pricing WITH MaxSales <- MaxPriced

\* Values for Shop.cfg: two cups at a quarter off, or a box of two components, one twice
\* as dear.
Item(good, quantity, price, off) ==
  [good |-> good, quantity |-> quantity, price |-> price, off |-> off]
CupsOrBox == {<<Item(cup, 2, 107, 25)>>, <<Item(box, 1, 211, 0)>>}
CupAndBox == (cup :> <<>>) @@ (box :> <<1, 2>>)
Costs == (cup :> 65) @@ (box :> 40)

ASSUME ShopConstants ==
  /\ Transport!InventoryConstants
  /\ Docs!SaleConstants /\ Shelf \subseteq Locations
  /\ Edit!EditConstants
  /\ Offers!QuoteConstants
  /\ Goods!CatalogueConstants
  /\ Prices!PricingConstants

transport == <<transfer, moving, overlapped, net, adjustments>>
docs == <<sale, returned, taking, raced, disputed, supplied, overrides>>
edit == <<version, row, ledger, deltas, edition, editing, step, amounts, line,
          disturbed, faults>>
offers == <<quote, lines, sales, doing, made, crossed>>
goods == <<product, bar, inserted, combo, used, shelf, editor, edits, taken, doubled,
           contested>>
prices == <<rate, parts, taxOf, inclusive, sold, till, changes, skewed>>

ShopInit ==
  /\ StockInit /\ Transport!TransfersInit /\ Docs!DocumentsInit /\ Edit!Init
  /\ Offers!QuotesInit /\ Goods!CatalogueInit
  /\ Prices!PricingInit
  /\ part \in {"transport", "documents", "edit", "offers", "goods", "prices"}
  /\ part # "prices" =>
       /\ ~inclusive /\ \A g, h \in Sellable : taxOf[g] = taxOf[h]
       /\ \A v \in Taxes : rate[v] = 0 /\ parts[v] = <<>>
  /\ part # "transport" => policy = "DONT_ALLOW"

ShopNext ==
  /\ UNCHANGED part
  /\ \/ part = "transport" /\ Transport!Next
        /\ UNCHANGED <<docs, edit, offers, goods, prices>>
     \/ part = "documents" /\ Docs!Next
        /\ UNCHANGED <<transport, edit, offers, goods, prices>>
     \/ part = "edit" /\ Edit!Next
        /\ UNCHANGED <<stock, transport, docs, offers, goods, prices>>
     \/ part = "offers" /\ Offers!QuotesNext
        /\ UNCHANGED <<stock, transport, docs, edit, goods, prices>>
     \/ part = "goods" /\ Goods!CatalogueNext
        /\ UNCHANGED <<stock, transport, docs, edit, offers, prices>>
     \/ part = "prices" /\ Prices!PricingNext
        /\ UNCHANGED <<stock, transport, docs, edit, offers, goods>>

ShopSpec ==
  ShopInit /\
  [][ShopNext]_<<part, stock, transport, docs, edit, offers, goods, prices>>

\* Products have the model values of the transfers, so that they are in it too.
ShopSymmetry == Permutations(Requests) \cup Permutations(Transfers)
                \cup Permutations({v1, v2})

----------------------------------------------------------------------------
(* The properties, each stated and explained in the module of its part.    *)

\* Transfers neither make nor lose stock (ApproveStockTransfer, CompleteStockTransfer).
Conserved == part = "transport" => Transport!Conserved

\* Balances are what was received less what documents sold (CreateSale, VoidSale).
StockFollowsDocuments == part = "documents" => Docs!StockFollowsDocuments

\* No more of a line comes back than was sold (loadRefundableSaleLineTx).
NotOverRefunded == Docs!NotOverRefunded

\* A serial is on at most one completed sale (FinalizeHeldSale).
SerialSoldOnce == Docs!SerialSoldOnce

\* A completed row stands for a whole posting of an unedited sale, and the books of a
\* quiet sale are those of its last edit (RecordSale, rebuildSaleLedger).
BooksFollowSale == Edit!UneditedIsWhole /\ Edit!BooksFollowSale

\* A quote is sold once, as it is (ConvertQuoteToSale, UpdateQuote).
QuoteSoldAsIs == Offers!QuoteSoldAsIs

\* Codes and rows of variations and combos agree (syncProductBarcodesTx).
CodesAgree == Goods!CodesAgree

\* Totals, lines, refunds and breakdowns of a sale agree (CreateRefundInvoice).
AmountsAddUp == Prices!AmountsAddUp
=============================================================================
