\* Driver and emitter over every subset of a four-file stdlib directory,
\* run twice over the same output tree.
CONSTANTS
    Inputs <- MC_Inputs
    ModRs <- MC_ModRs
    MaxRuns = 2
SPECIFICATION Spec
\* main() really stops: after printing its count, or after raising.
CHECK_DEADLOCK FALSE
INVARIANTS
    TypeOK
    CompleteOnDone
    FailFast
    Idempotent
PROPERTIES
    OneFilePerCase
    Termination
