SPECIFICATION Spec
CONSTANTS
    Modes = {"abstime", "reltime", "cyclic", "cyclic_rel"}
    interval = 3
    Ahead = 4
    NSEC_PER_SEC = 6
    NSEC_PER_USEC = 2
    Use_nsecs = {TRUE, FALSE}
    W = 256
    min_init = 100
    Horizon = 14
    Delays = {0, 3}
INVARIANTS
    TypeOK
    LatencyIsReal
    OnGrid
    NoBacklog
    InStep
    OnePerPeriod
