SPECIFICATION Spec
CONSTANTS
    Origin = 0
    Offset <- MCOffset
    Drives = {0, 128}
INVARIANT StaysOnCourse
CHECK_DEADLOCK FALSE
