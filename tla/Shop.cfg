\* Two transfers between two shops; three documents of a sale in one of them; a sale
\* with three versions; a quote; two products and a combo that share two codes; a sale
\* of one of two baskets under two taxes. Two requests at a time, over a plain variant
\* and a serial.
SPECIFICATION ShopSpec
CONSTANTS
  l1 = l1
  l2 = l2
  pen = pen
  phone = phone
  s1 = s1
  t1 = t1
  t2 = t2
  t3 = t3
  r1 = r1
  r2 = r2
  v1 = v1
  v2 = v2
  cup = cup
  box = box
  Nowhere = Nowhere
  NoTransfer = NoTransfer
  NoSale = NoSale
  Locations = {l1, l2}
  Plain = {pen}
  BatchTracked = {}
  Serialized = phone
  Serials = {s1}
  CompanyPolicies = {"DONT_ALLOW", "ALLOW_WITH_APPROVAL"}
  Requests = {r1, r2}
  Transfers = {t1, t2}
  MaxMoved = 1
  MaxAdjustments = 2
  Shelf = {l1}
  Sales = {t1, t2, t3}
  MaxSold = 2
  MaxSupply = 3
  MaxOverrides = 1
  StopAtDispute = TRUE
  PostedLines = 3
  MaxVersion = 3
  MaxFaults = 2
  Quotes = {s1}
  MaxRequests = 4
  NoQuote = NoQuote
  Products = {t1, t2}
  Combos = {s1}
  Codes = {l1, l2}
  MaxVariations = 3
  MaxEdits = 3
  None = None
  Taxes = {v1, v2}
  Sellable = {cup, box}
  Weights <- CupAndBox
  Cost <- Costs
  Baskets <- CupsOrBox
  Tills = {"till"}
  MaxPriced = 1
  Rates = {0, 10}
  Discounts = {0, 40}
  AllowLoss = FALSE
  MaxChanges = 1
  Fine = 60
SYMMETRY ShopSymmetry
INVARIANTS
  
  Conserved
  
  NotOverRefunded
  SerialSoldOnce
  BooksFollowSale
  QuoteSoldAsIs
  
  
\* At the bounds every transfer is finished, every document written, every edit made.
CHECK_DEADLOCK FALSE
