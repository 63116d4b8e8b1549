SPECIFICATION Spec
CONSTANTS
  Users = {u1, u2}
  Withdrawals = {w1, w2}
  Amounts = {2}
  Handlers = {h1, h2}
  Clients = {c1, c2}
  None = none
  InitialDeposit = 3
  MinedBtc = 1
  UsdtFallback = TRUE
  SendMinutes = 1
  SwapMinutes = 1
  StaleMinutes = 4
  AdminChecks = TRUE
  MaxCrashes = 0
  MaxDbErrors = 0
SYMMETRY Symmetry
INVARIANTS
    TypeOK
    
    ChargeIsAccounted
CHECK_DEADLOCK FALSE
