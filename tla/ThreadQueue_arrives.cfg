SPECIFICATION Spec
CONSTANTS
    t1 = t1
    t2 = t2
    c1 = c1
    c2 = c2
    Threads = {t1, t2}
    CPUs = {c1, c2}
    InitCount = 1
    Timeouts = {"ticks"}
    Flushes = TRUE
    Prompt = TRUE
    Free = Free
PROPERTIES
    ReturnsAsSemaphore
