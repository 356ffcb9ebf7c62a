SPECIFICATION Spec
CONSTANTS
    N = 3
    max_cycles = 0
    CycleBound = 1
    refresh_on_max = FALSE
    aligned = TRUE
    tracelimit = 1
    trigger = 1
    trigger_list_size = 2
    duration = FALSE
    verbose = FALSE
    use_fifo = FALSE
    jsonfile = {FALSE}
    histogram = FALSE
    Latencies = {0, 2, 5}
    IntSize = 8
    MaxSignals = 1
    StatusSignals = FALSE
    Failures = FALSE
INVARIANTS
    BreakRecord
    AlignedStart
    TriggerLog
    StopReason
