SPECIFICATION Spec
CONSTANTS
    Unmapped = 65534
    HostIds = {0, 1000}
INVARIANTS TypeOK SeesRootOrNothing SuccessMeansMapped NoGroupDropped NoCircularWait
PROPERTY ParentEnds
CHECK_DEADLOCK FALSE
