SPECIFICATION FairSpec
CONSTANTS
    Conns = {c1, c2}
    Ports = {1, 2, 3}
    Contexts = {"x"}
    Configs <- MCConfigs
    QueueCap = 1
    None = None
INVARIANTS
    ServersTypeOK
    NoSelfConflict
    PortsReleased
    OneClient
PROPERTIES
    ListenerSpec
    QueueDrains
    ShutdownQuiesces
CHECK_DEADLOCK FALSE
