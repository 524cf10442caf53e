\* Spec P2 (union): a fault-free run loses a port when a hostname resolves to nothing.
CONSTANTS
    Ids <- MC_Ids
    Links <- MC_Links
    ManualIps <- MC_ManualIps
    IdOf <- MC_IdOf
    Ports <- MC_Ports2
    ExternalPorts = {}
    NumIfaces = 2
    FreeTier = 6
    KernelFaults = FALSE
    BabelFaults = FALSE
    BabelInOrder = TRUE
    Actions <- MC_RegActions
    MaxInFlight = 2
    NoPort = NoPort
SPECIFICATION Spec
INVARIANT PortsConserved
\* A get_port or setup_wg_if panic halts the process for good.
CHECK_DEADLOCK FALSE
