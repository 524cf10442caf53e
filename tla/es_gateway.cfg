\* The client's exits under dashboard requests, failing saves, restarts and TunnelManager timeouts.
CONSTANTS
    Exits <- MC_Exits
    States <- MC_States
    PostedStates <- MC_PostedStates
    WriteFaults = TRUE
    KernelFaults = TRUE
    TmTimeouts = TRUE
    None = None
SPECIFICATION FairSpec
INVARIANT TypeOK
PROPERTY GatewayFlagSettles
