SPECIFICATION Spec
CONSTANTS
    Conns = {g1, g2}
    Hosts = {a, b, c, d}
    Certs = {k1, k2, k3, k4, k5}
    Size = 3
    None = None
INVARIANTS
    CertTypeOK
    CacheCoherent
    CacheBounded
    KeepsRecent
PROPERTY
    OneCertificate
SYMMETRY Symmetry
