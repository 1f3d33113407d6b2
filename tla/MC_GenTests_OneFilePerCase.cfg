\* Two exports whose names differ only in a character the sanitizer maps to "_".
CONSTANTS
    Inputs <- MC_InputsClash
    ModRs <- MC_ModRs
    MaxRuns = 1
SPECIFICATION Spec
CHECK_DEADLOCK FALSE
PROPERTY OneFilePerCase
