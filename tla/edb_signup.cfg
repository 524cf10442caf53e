\* Signups on one pooled connection: allocation against the reference.
SPECIFICATION Spec
CONSTANTS
    Identities <- MC_Identities
    Requests <- MC_Requests
    StartIp = 1
    GatewayIp = 2
    LastIp = 3
    PoolSize = 1
    MaxRetries = 1
    DbFaults = TRUE
    IpUnique = FALSE
    NoIp = NoIp
INVARIANT TypeOK NextIpIsLowestFree
\* A failed ListClients panics the exit (halted): no step follows.
CHECK_DEADLOCK FALSE
