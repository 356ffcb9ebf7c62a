SPECIFICATION Spec
CONSTANTS
    Readers = {r1}
    Size = 4
    Interval = 2
    MaxGen = 4
    Walls = {10}
    Simple = {TRUE, FALSE}
    MaxTime = 5
    MaxUpdates = 3
    MaxSets = 1
INVARIANTS
    TypeOK
PROPERTIES
    ReadsTrueTime
    GetsCurrentUpdate
CHECK_DEADLOCK FALSE
