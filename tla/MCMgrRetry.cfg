SPECIFICATION MgrEarlySpec
CONSTANTS
    h1 = h1
    r1 = r1
    Callers = {h1, r1, s1, s2}
    Recovering = {h1, r1}
    HTTP = {h1}
    Retry = {r1}
    TLS = {s1, s2}
    TCP = {}
    First <- MCFirst
    Tunnels = {t1, t2}
    Hosts = {host}
    Ports = {}
    HTTPIdleTimeout = 0
    TCPIdleTimeout = 0
    None = None
INVARIANT
    RetriesElsewhere
SYMMETRY Symmetry
CHECK_DEADLOCK FALSE
