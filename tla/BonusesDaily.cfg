\* A child and its parent, two overlapping tasks or games, one expiry job.
SPECIFICATION BonusSpec
CONSTANTS
    Children = {ch}
    ParentOf <- OneParent
    Players = {p}
    Tasks = {t1, t2}
    Games = {g1, g2}
    Expirers = {e1}
    Cycle = 2
    Window = 6
    BonusDays = {2}
    MaxDay = 3
    MaxBusy = 2
    MaxFaults = 1
INVARIANTS
    BonusTypeOK
    BoostIsBonusesOn
    
    
PROPERTIES
    BonusEnds
CHECK_DEADLOCK FALSE
