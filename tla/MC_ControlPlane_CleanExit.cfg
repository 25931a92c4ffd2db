CONSTANTS
    Numerals <- MC_Numerals
    Names <- MC_Names
    Paths <- MC_Paths
    Methods <- MC_Methods
    Bodies <- MC_Bodies
    Backends <- MC_Backends
    BackendName <- MC_BackendName
    Fds <- MC_Fds
    MaxClients <- MC_MaxClients
SPECIFICATION ControlSpec
\* The process ends: after the destructor joins the control thread, or in
\* std::terminate.
CHECK_DEADLOCK FALSE
INVARIANT CleanExit
