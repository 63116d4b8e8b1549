\* One account, few requests and one or two faults for each service.
SPECIFICATION ServSpec
CONSTANTS
    \* Repairs
    LiveDays = {1}
    Underpaid = {2}
    StuckDays = {3}
    FutureDays = {4}
    Forged = 1
    Operators = {o1, o2}
    MaxMoves = 1
    MaxMishaps = 1
    \* Rewards
    Asks = {a1, a2}
    Zones = {0, 2}
    Uses <- SomeUses
    Trades = {t1}
    Spins = {s1}
    Charges = {c1, c2}
    GamePerDay = 3
    GameMost = 2
    SuperPerDay = 1
    PrivPerDay = 1
    AdsNeeded = 1
    LossPerDay = 1
    RewardDays = 2
    MaxRequests = 3
    \* Addresses
    Askers = {k1, k2}
    Owners = {u1, u2}
    BscAssets = {"BNB"}
    Todos <- SomeTodos
    EvmKeys = {"xpub", "single"}
    MaxIssued = 2
    MaxAsked = 2
    MaxEvents = 2
    \* Reminders
    Topics = {"warning", "video", "games", "token"}
    Callers = {r1, r2}
    Ends = 4
    MaxCalls = 2
    MaxFaults = 1
    \* LocalTime
    Starts = {24, 27, 30, 33, 36, 37, 38, 39, 40, 41, 43, 45, 46, 47}
    ClockZones <- SomeZones
    Said = {1, 2, 99}
    Offsets = {99, 3}
    ServerAhead = 0
    \* Limits
    Admins = {d1}
    Users = {w1, w2}
    Pairs <- SomePairs
    Default <- Defaults
    Prices = {8, 11}
    MinWorth = 100
    MaxUpsets = 2
    \* Review
    FreeMost = 2
    Power = 3
    ForgedDay = 9
    Deposited = 4
    Asked = 5
    Credits = {0, 3}
    MaxSteps = 4
    \* Tokens
    Grants = {g1, g2, g3}
    Reports = {p1, p2}
    Nothing = Nothing
    MaxTurns = 3
    \* DailyClaims
    Recurring = {"again"}
    OfDay <- TwoOfADay
    DayOf <- OneDay
    Requests = {q1, q2}
    LastDay = 1
    MaxClaims = 3
    \* News
    Feeds = {f1, f2}
    Readers = {n1, n2}
    Ttl = 2
    LastStep = 4
    MaxLoads = 3
    \* Mail
    Replies = {e1, e2}
    MaxMailFaults = 2
INVARIANTS
    ServTypeOK
    AddressesAreKept
    
    DaysAreWhole
    LimitsGoTogether
    ReviewIsFair
    TokensGoTogether
    
    MailIsAccounted
PROPERTIES
    RepairsAreExact
    
    NewsIsServed
CHECK_DEADLOCK FALSE
