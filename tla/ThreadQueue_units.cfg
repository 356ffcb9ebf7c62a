SPECIFICATION Spec
CONSTANTS
    t1 = t1
    t2 = t2
    t3 = t3
    c1 = c1
    Threads = {t1, t2, t3}
    CPUs = {c1}
    InitCount = 1
    Timeouts = {"none", "ticks", "past"}
    Flushes = TRUE
    Prompt = TRUE
    Free = Free
SYMMETRY Symmetry
INVARIANTS
    TypeOK
    CleanReturn
    AssertionsHold
PROPERTIES
    ActsAsSemaphore
