SPECIFICATION SessionsSpec
CONSTANTS
  a = a
  b = b
  x = x
  c1 = c1
  c2 = c2
  NoLogin = NoLogin
  Logins = {a, b, x}
  Mine = {a, b}
  Calls = {c1, c2}
  MaxSessions = 1
  MaxExpiries = 1
  MaxCalls = 2
INVARIANTS
  SessionLimit
PROPERTY CallsEnd
CHECK_DEADLOCK FALSE
