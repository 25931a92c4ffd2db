CONSTANTS
    HardwareConcurrency = {1, 2, 4}
    CounterBits <- MC_CounterBits
    MaxConn <- MC_MaxConn
SPECIFICATION Spec
\* The process ends: terminated by the destructor, or killed by a signal.
CHECK_DEADLOCK FALSE
INVARIANT TypeOK
INVARIANT Balanced
PROPERTY AcceptLoopEnds
