SPECIFICATION Spec
CONSTANT Scenarios <- MC_All
CONSTANT CrashFaults = TRUE
CONSTANT MaxRuns = 2
INVARIANTS TypeOK IntactUnlessInterrupted
PROPERTY StoreRefinement
CHECK_DEADLOCK FALSE
