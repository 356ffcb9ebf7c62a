SPECIFICATION Spec
CONSTANTS
    N = 2
    max_cycles = 1
    CycleBound = 1
    refresh_on_max = TRUE
    aligned = TRUE
    tracelimit = 0
    trigger = 0
    trigger_list_size = 1
    duration = TRUE
    verbose = TRUE
    use_fifo = TRUE
    jsonfile = {TRUE, FALSE}
    histogram = TRUE
    Latencies = {0, 1}
    IntSize = 8
    MaxSignals = 2
    StatusSignals = TRUE
    Failures = TRUE
INVARIANTS
    TypeOK
    StatsLive
    NoLostWakeup
    ExposedReads
PROPERTIES
    EndsByItself
