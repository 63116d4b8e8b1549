SPECIFICATION FairSpec
CONSTANTS
  Users = {u1}
  Withdrawals = {w1}
  Amounts = {1}
  Handlers = {h1, h2}
  Clients = {c1}
  None = none
  InitialDeposit = 2
  MinedBtc = 1
  UsdtFallback = TRUE
  SendMinutes = 1
  SwapMinutes = 1
  StaleMinutes = 2
  AdminChecks = TRUE
  MaxCrashes = 1
  MaxDbErrors = 1
PROPERTY AlwaysResolvable
CHECK_DEADLOCK FALSE
