SPECIFICATION MgrUpSpec
CONSTANTS
    h1 = h1
    r1 = r1
    Callers = {c1, c2}
    Recovering = {}
    HTTP = {}
    Retry = {}
    TLS = {}
    TCP = {c1, c2}
    First <- NoFirst
    Tunnels = {t1}
    Hosts = {}
    Ports = {port}
    HTTPIdleTimeout = 0
    TCPIdleTimeout = 1
    None = None
INVARIANT
    HandedOutIsKept
PROPERTY
    IdleCollected
CHECK_DEADLOCK FALSE
