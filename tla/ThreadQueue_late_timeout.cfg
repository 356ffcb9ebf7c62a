SPECIFICATION Spec
CONSTANTS
    t1 = t1
    t2 = t2
    c1 = c1
    Threads = {t1, t2}
    CPUs = {c1}
    InitCount = 1
    Timeouts = {"none", "ticks"}
    Flushes = FALSE
    Prompt = FALSE
    Free = Free
SYMMETRY Symmetry
INVARIANTS
    NoTimeoutHonoured
