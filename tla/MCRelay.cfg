SPECIFICATION FairSpec
CONSTANTS
    Kinds = {"mux", "tcp", "jump"}
    MaxBytes = 3
    PeekSize = 2
    HelloSize = 3
INVARIANT
    RelayTypeOK
PROPERTIES
    PipeSpec
    Delivers
    RelayEnds
CHECK_DEADLOCK FALSE
