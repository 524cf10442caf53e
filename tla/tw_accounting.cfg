\* Relay balances against spec P4 priced from the raw route table, with routes
\* coming and going, neighbours missing from the snapshot, prices above max_fee
\* and counter reads that fail.
CONSTANTS
    Ids <- MC_Ids
    Dests <- MC_Dests
    OwnIp = "Me"
    Ifaces <- MC_Ifaces
    IfaceOwner <- MC_IfaceOwner
    Prices <- MC_Prices
    MaxFee = 5
    LocalFee = 1
    InKeys <- MC_InKeys
    OutKeys <- MC_OutKeys
    MaxBytes = 2
    MaxQueue = 1
    KernelFaults = TRUE
    NoRoute = NoRoute
SPECIFICATION Spec
INVARIANT TypeOK BalanceMatchesP4
