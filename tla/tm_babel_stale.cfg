\* Spec I5: the re-create path of open_tunnel leaves the deleted interface monitored.
CONSTANTS
    Ids <- MC_Ids
    Links <- MC_Links
    ManualIps <- MC_ManualIps
    IdOf <- MC_IdOf
    Ports <- MC_Ports
    ExternalPorts = {}
    NumIfaces = 2
    FreeTier = 6
    KernelFaults = FALSE
    BabelFaults = FALSE
    BabelInOrder = TRUE
    Actions <- MC_RegActions
    MaxInFlight = 2
    NoPort = NoPort
SPECIFICATION Spec
INVARIANT BabelMatchesRegistration
\* A get_port or setup_wg_if panic halts the process for good.
CHECK_DEADLOCK FALSE
