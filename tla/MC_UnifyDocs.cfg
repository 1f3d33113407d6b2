CONSTANTS
    Files <- MC_Files
    Original <- MC_Original
    MaxRuns = 2
SPECIFICATION Spec
INVARIANTS
    TypeOK
    NoSilentLoss
    RerunStable
\* the script ends after its last run
CHECK_DEADLOCK FALSE
