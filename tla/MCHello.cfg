SPECIFICATION FairSpec
CONSTANTS
    Messages <- MCMessages
    HeaderLen = 4
    BufferSize = 40
    Hosts <- MCHosts
    Routes <- MCRoutes
    DynamicHost <- MCDynamicHost
    Targets <- MCTargets
INVARIANTS
    HelloTypeOK
    NeverOutOfRange
    NameIsMeant
    SpelledRoutes
    RouteIsValid
PROPERTIES
    ParseEnds
CHECK_DEADLOCK FALSE
