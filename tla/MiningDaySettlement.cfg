SPECIFICATION Spec
CONSTANTS
  Users = {u1}
  Jobs = {j1}
  Posts = {p1}
  NoUser = none
  RunsPerDay = 2
  LastDay = 3
  PayCap = 2
  StartGh = 1
  AdGh = 1
  AdsPerDay = 0
  PackGh = 1
  MaxPacks = 1
  MaxMoves = 1
  MoneyDuringSave = FALSE
  RacingPosts = FALSE
  ResendsStart = FALSE
  StaleLocalStart = FALSE
  MaxCrashes = 0
  MaxDbErrors = 0
INVARIANTS
    TypeOK
    DepositIsLedger
    
PROPERTIES
    SessionsAreDated
CHECK_DEADLOCK FALSE
