SPECIFICATION Spec
CONSTANTS
  Users = {u1}
  Jobs = {j1}
  Posts = {p1}
  NoUser = none
  RunsPerDay = 2
  LastDay = 2
  PayCap = 2
  StartGh = 1
  AdGh = 1
  AdsPerDay = 0
  PackGh = 1
  MaxPacks = 0
  MaxMoves = 0
  MoneyDuringSave = FALSE
  RacingPosts = TRUE
  ResendsStart = TRUE
  StaleLocalStart = TRUE
  MaxCrashes = 1
  MaxDbErrors = 1
INVARIANT NeverUnderpaid
 
CHECK_DEADLOCK FALSE
