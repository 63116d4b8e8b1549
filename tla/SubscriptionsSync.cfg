\* One customer; a request and the run of the timer overlap.
SPECIFICATION FairSpec
CONSTANTS
    Customers = {c1}
    Subs = {s1}
    SubOf <- OneSub
    Requests = {r1, r2}
    Reporters = {r2}
    Cron = cron
    Period = 1
    LegacyFrom = 2
    OldTxn = 1
    MaxTime = 3
    MaxBusy = 2
    MaxFaults = 1
INVARIANTS
    TypeOK
    CountedOnce
    NoMoreThanCharged
PROPERTIES
    EventuallyInLine
CHECK_DEADLOCK FALSE
