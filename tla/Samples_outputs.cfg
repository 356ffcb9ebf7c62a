SPECIFICATION Spec
CONSTANTS
    Latencies = {0, 1, 2, 6}
    Size = 2
    oscope_reduction = 2
    num = 2
    W = 8
    max_cycles = 6
    KeepsUp = TRUE
INVARIANTS
    TypeOK
    UnreadKept
    LinesShowMaxima
    HistogramExact
