\* Spec section 7: a failing read of watch() after get_input_counters has reset
\* the input tables drops the bytes it read.
CONSTANTS
    Ids <- MC_Ids
    Dests <- MC_Dests
    OwnIp = "Me"
    Ifaces <- MC_Ifaces
    IfaceOwner <- MC_IfaceOwner
    Prices <- MC_Prices
    MaxFee = 5
    LocalFee = 1
    InKeys <- MC_InKeys
    OutKeys <- MC_OutKeys
    MaxBytes = 2
    MaxQueue = 1
    KernelFaults = TRUE
    NoRoute = NoRoute
SPECIFICATION Spec
INVARIANT BytesAccounted
