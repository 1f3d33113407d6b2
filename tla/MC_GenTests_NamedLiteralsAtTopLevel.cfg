\* A domain whose operator body holds a local binding r = Ok x.
CONSTANTS
    Inputs <- MC_InputsNested
    ModRs <- MC_ModRs
    MaxRuns = 1
SPECIFICATION Spec
CHECK_DEADLOCK FALSE
INVARIANT NamedLiteralsAtTopLevel
