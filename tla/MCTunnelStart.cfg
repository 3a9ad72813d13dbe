SPECIFICATION FairSpec
CONSTANTS
    Callers = {p1, p2}
    Tunnels = {t1}
    Recovering = {p1}
    None = None
INVARIANTS
    TypeOK
    FirstStartExclusive
    NoEarlyUse
    NoLeakedFirstStart
    NoPanicBeforeRan
PROPERTIES
    StartReturns
    LossNoticed
CHECK_DEADLOCK FALSE
