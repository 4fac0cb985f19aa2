CONSTANTS
  s1 = s1
  s2 = s2
  Sessions = {s1, s2}
  Rcpts = {r1}
  Ip <- MCIp
  Directives <- MCDirectives
  Noop = FALSE
  RecipientVerdicts = {"Permit"}
  Fallible = {"Eoh"}
  Capacity = 1
  MaxTransactions = 1
  MaxLost = 1
SPECIFICATION Spec
INVARIANTS SessionsAccounted VerdictsStoredUnlessPruned WhitelistedUnlessPruned
