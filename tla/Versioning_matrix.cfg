SPECIFICATION VersioningSpec
CONSTANT MaxWorkers = 2
INVARIANT MatrixHolds
CHECK_DEADLOCK FALSE
