SPECIFICATION Spec
CONSTANTS
  Users = {u1}
  Withdrawals = {w1, w2}
  Amounts = {1}
  Handlers = {h1, h2}
  Clients = {c1}
  None = none
  InitialDeposit = 1
  MinedBtc = 1
  UsdtFallback = TRUE
  SendMinutes = 1
  SwapMinutes = 1
  StaleMinutes = 1
  AdminChecks = FALSE
  MaxCrashes = 1
  MaxDbErrors = 1
SYMMETRY Symmetry
INVARIANTS
    
    ClaimExcludes
    PaidAtMostOnce
CHECK_DEADLOCK FALSE
