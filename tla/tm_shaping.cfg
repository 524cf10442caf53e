\* Traffic shaping against payment state, and the port pool's contract with
\* ports coming back, on a kernel that does not fail and no manual peer;
\* babel futures fail and are reordered.
CONSTANTS
    Ids <- MC_Ids
    Links <- MC_Links
    ManualIps = {}
    IdOf <- MC_IdOf
    Ports <- MC_Ports2
    ExternalPorts = {}
    NumIfaces = 2
    FreeTier = 6
    KernelFaults = FALSE
    BabelFaults = TRUE
    BabelInOrder = FALSE
    Actions <- MC_PayActions
    MaxInFlight = 1
    NoPort = NoPort
SPECIFICATION FairSpec
INVARIANT ShapingMatchesPayment WgNamesOwned
PROPERTY ImplementsPortPool PortsSettle
\* A get_port or setup_wg_if panic halts the process for good.
CHECK_DEADLOCK FALSE
