SPECIFICATION Spec
CONSTANTS
    Message <- MCMessage
    GuestMemSize = 2097152
    ResetBase = 2097152
    MaxSignals = 3
INVARIANTS TypeOK OutputIsPrefix SuccessMeansAll OnlyHostFails
PROPERTY MonitorEnds
CHECK_DEADLOCK FALSE
