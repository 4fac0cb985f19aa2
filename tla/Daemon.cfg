CONSTANTS
  s1 = s1
  lua = lua
  ipinfo = ipinfo
  srs = srs
  script = script
  Sessions = {s1}
  Rcpts = {r1}
  Ip <- MCIp
  Directives = {}
  Noop = FALSE
  RecipientVerdicts = {"Permit", "Error"}
  Fallible = {"EnvRcpt", "Eoh"}
  Capacity = 2
  MaxTransactions = 2
  MaxLost = 0
  Registered <- MCRegistered
  Scripts <- MCScripts
  Enabled = {ipinfo, lua, script}
  Lua = lua
SPECIFICATION FairDaemonSpec
INVARIANTS JudgedOnOwnData DeliveredOnPermit ReadyWhenCalled
PROPERTIES CallsAreAnswered SessionsEnd StartsAndStops
CHECK_DEADLOCK FALSE
