SPECIFICATION FairSpec
CONSTANTS
  Users = {u1}
  Withdrawals = {w1, w2}
  Amounts = {1, 2}
  Handlers = {h1, h2}
  Clients = {c1}
  None = none
  InitialDeposit = 2
  MinedBtc = 1
  UsdtFallback = TRUE
  SendMinutes = 1
  SwapMinutes = 1
  StaleMinutes = 4
  AdminChecks = TRUE
  MaxCrashes = 0
  MaxDbErrors = 0
PROPERTY ImplementsLedger
CHECK_DEADLOCK FALSE
