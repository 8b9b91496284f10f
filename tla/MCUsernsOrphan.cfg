SPECIFICATION Spec
CONSTANTS
    Unmapped = 65534
    HostIds = {0, 1000}
PROPERTY OrphanExits
CHECK_DEADLOCK FALSE
