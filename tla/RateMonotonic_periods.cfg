SPECIFICATION Spec
CONSTANTS
    Periods = {p1, p2}
    CPUs = {c1, c2}
    Lengths = {1}
    MaxPostponed = 2
    Nobody = Nobody
INVARIANTS
    TypeOK
    JobsConserved
    MissesCounted
    WatchdogMatchesState
    AssertionsHold
PROPERTIES
    EveryWaitEnds
