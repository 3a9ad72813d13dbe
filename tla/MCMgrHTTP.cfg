SPECIFICATION MgrFairSpec
CONSTANTS
    h1 = h1
    r1 = r1
    Callers = {h1, r1}
    Recovering = {h1, r1}
    HTTP = {h1}
    Retry = {r1}
    TLS = {}
    TCP = {}
    First <- MCFirst
    Tunnels = {t1, t2}
    Hosts = {host}
    Ports = {}
    HTTPIdleTimeout = 0
    TCPIdleTimeout = 0
    None = None
INVARIANT
    MgrTypeOK
PROPERTIES
    Spec
    ShutdownReturns
CHECK_DEADLOCK FALSE
