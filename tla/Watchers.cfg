\* Deposits: three outputs in two transactions, two addresses, one script, one
\* fault.  Guards: two requests at a time, two strikes suspend, one switch and
\* one trouble.
SPECIFICATION WatchSpec
CONSTANTS
    Outs = {1, 2, 3}
    Txs <- TxIds
    TxOf <- TwoTxs
    Addrs <- AddrIds
    AddrOf <- TwoAddrs
    Sound <- SoundIds
    MinConfs = 1
    Limit = 2
    MaxFaults = 1
    Visits = {v1, v2}
    Window = 1
    MaxInWindow = 1
    StrikeLimit = 2
    MaxSwitches = 1
    MaxTroubles = 1
INVARIANTS
    WatchTypeOK
    CreditsAreAccounted
    GateIsJust

    
CHECK_DEADLOCK FALSE
