CONSTANTS
    Numerals <- MC_Numerals
    Names <- MC_Names
    Paths <- MC_Paths
    Methods <- MC_Methods
    Bodies <- MC_Bodies
    Backends <- MC_Backends
    BackendName <- MC_BackendName
SPECIFICATION Spec
PROPERTY UpdateOnlyAddressed
CHECK_DEADLOCK FALSE
