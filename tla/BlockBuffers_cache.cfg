SPECIFICATION Spec
CONSTANTS
    u1 = u1
    u2 = u2
    u3 = u3
    w1 = w1
    d1 = d1
    d2 = d2
    g1 = g1
    Users = {u1, u2, u3}
    Workers = {w1}
    Devices = {d1, d2}
    Nums = {0}
    Groups = {g1}
    MaxPer = 2
    Sizes = {1, 2}
    Hold = 1
    max_write_blocks = 1
    continuous = FALSE
    ReadAhead = TRUE
    Errors = TRUE
    Purges = TRUE
    Resizes = TRUE
    MaxCalls = 3
    AfterRace = FALSE
    None = None
SYMMETRY Symmetry
INVARIANTS
    TypeOK
    TableUnlessRaced
    Exclusive
    ReadsLatest
    NothingLost
    SyncWritten
