\* Two signups on two connections: both load the table before either inserts.
SPECIFICATION Spec
CONSTANTS
    Identities <- MC_Identities
    Requests <- MC_Requests2
    StartIp = 1
    GatewayIp = 2
    LastIp = 3
    PoolSize = 2
    MaxRetries = 1
    DbFaults = FALSE
    IpUnique = FALSE
    NoIp = NoIp
INVARIANT WgConfigIpsDistinct
