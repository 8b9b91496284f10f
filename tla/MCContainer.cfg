SPECIFICATION Spec
CONSTANT ExitCode = {0, 7}
INVARIANTS TypeOK RunsLimited ReturnsClean HostUntouched NoCircularWait
PROPERTIES ChildReleased RunnerEnds
CHECK_DEADLOCK FALSE
