\* Two sales of a customer, two collections, two requests at a time; two sales with two
\* codes of a series and three raffles, two walks of the outbox at a time.
SPECIFICATION CustomersSpec
CONSTANTS
  Sales = {1, 2}
  c1 = c1
  c2 = c2
  r1 = r1
  r2 = r2
  Collections = {c1, c2}
  Requests = {r1, r2}
  CreditLimit = 2
  MinPointsReserve = 1
  MinRedemptionPoints = 1
  Tiers = {2}
  TierRate = 2
  Totals = {2}
  MaxTotal = 2
  MaxLater = 2
  Customers = {"ann"}
  Nobody = "nobody"
  Goods = {"tea", "pot"}
  SeriesSettings <- OnceOrTwice
  PromotionSettings <- NoneOrAll
  RaffleSettings <- ThreeRaffles
  Carts <- OneOfEach
  MaxSales = 2
  MaxSettings = 1
  NoSale = NoSale
  NoCollection = NoCollection
SYMMETRY AccountSymmetry
INVARIANTS
  LimitKept
  CollectedOnce
  
  
\* At the bounds every sale is refunded and every collection deleted.
CHECK_DEADLOCK FALSE
