CONSTANTS
    Inputs <- MC_Inputs
    ModRs <- MC_ModRs
    MaxRuns = 1
SPECIFICATION Spec
CHECK_DEADLOCK FALSE
INVARIANT AbortLeavesNoOutput
