SPECIFICATION MgrSpec
CONSTANTS
    h1 = h1
    r1 = r1
    Callers = {s1, s2, s3}
    Recovering = {}
    HTTP = {}
    Retry = {}
    TLS = {s1, s2, s3}
    TCP = {}
    First <- NoFirst
    Tunnels = {t1}
    Hosts = {host}
    Ports = {}
    HTTPIdleTimeout = 0
    TCPIdleTimeout = 0
    None = None
INVARIANT
    NeverPanics
CHECK_DEADLOCK FALSE
