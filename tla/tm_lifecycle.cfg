\* Ports and storage under every failing KI call (kernel interface), babel in order,
\* with neighbour A heard from two addresses on one interface.
CONSTANTS
    Ids <- MC_Ids
    Links <- MC_Links2
    ManualIps <- MC_ManualIps
    IdOf <- MC_IdOf
    Ports <- MC_Ports
    ExternalPorts = {}
    NumIfaces = 2
    FreeTier = 6
    KernelFaults = TRUE
    BabelFaults = FALSE
    BabelInOrder = TRUE
    Actions <- MC_RegActions
    MaxInFlight = 1
    NoPort = NoPort
SPECIFICATION Spec
INVARIANT TypeOK NoPortDoubleBooked StorageMatchesKernel
\* A get_port or setup_wg_if panic halts the process for good.
CHECK_DEADLOCK FALSE
