CONSTANTS
    Sources <- MC_Sources
    Types <- MC_Types
    Domains <- MC_Domains
SPECIFICATION Spec
\* One synthesis, then the program has nothing more to do.
CHECK_DEADLOCK FALSE
INVARIANTS
    TypeOK
    TupleSplitsAtTopLevel
