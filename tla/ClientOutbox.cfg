\* Two sales, and an operator who presses Retry now.
SPECIFICATION OperatorSpec
CONSTANTS
  s1 = s1
  s2 = s2
  Sales = {s1, s2}
  MaxAttempts = 1
  MaxLosses = 1
  MaxFlaps = 3
  MaxCrashes = 1
  MaxDiscards = 1
  None = None
INVARIANTS
  
  Kept
 
\* A till without network and with nothing to sell rests.
CHECK_DEADLOCK FALSE
