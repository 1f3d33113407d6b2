SPECIFICATION Spec
CONSTANT Scenarios <- MC_Broken
CONSTANT CrashFaults = TRUE
CONSTANT MaxRuns = 2
INVARIANT ReferencesIntactWhenDone
CHECK_DEADLOCK FALSE
