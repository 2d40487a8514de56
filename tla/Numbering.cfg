\* Two shops of a company, with and without the company's global counter: a till in each,
\* and a clerk in the first.
SPECIFICATION EitherSpec
CONSTANTS
  l1 = l1
  l2 = l2
  till1 = till1
  till2 = till2
  clerk1 = clerk1
  Locations = {l1, l2}
  Clerks = {clerk1}
  Devices = {till1, till2}
  LocationOf <- TwoShops
  HasGlobal = TRUE
  BlockSize = 2
  LowWatermark = 1
  MaxNumber = 5
  MaxAdmin = 0
  Global = Global
  NoScope = NoScope
INVARIANTS
  NoCollision
  NoCollisionInCompany
  NumberStillFree
