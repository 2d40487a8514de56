\* One order or one delivery, both with two requests at a time, over a plain variant and a serial.
SPECIFICATION AppSpec
CONSTANTS
  l1 = l1
  pen = pen
  phone = phone
  s1 = s1
  p1 = p1
  p2 = p2
  r1 = r1
  r2 = r2
  Nowhere = Nowhere
  NoPurchase = NoPurchase
  NoKey = NoKey
  Keys = {k1}
  k1 = k1
  Locations = {l1}
  Plain = {pen}
  BatchTracked = {}
  Serialized = phone
  Serials = {s1}
  CompanyPolicies = {"ALLOW"}
  Purchases = {p1, p2}
  MaxEntered = 1
  Requests = {r1, r2}
  MaxLine = 2
  MaxLines = 2
  MaxSettings = 2
SYMMETRY ProcurementSymmetry
INVARIANTS
  
  LinesKept
  
  ReceivedIsFinal
PROPERTY PaidWithinTotal
\* At the bounds every purchase is received, paid and returned.
CHECK_DEADLOCK FALSE
