SPECIFICATION Spec
CONSTANTS
    u1 = u1
    u2 = u2
    d1 = d1
    g1 = g1
    Users = {u1, u2}
    Workers = {}
    Devices = {d1}
    Nums = {0}
    Groups = {g1}
    MaxPer = 1
    Sizes = {1}
    Hold = 0
    max_write_blocks = 1
    continuous = FALSE
    ReadAhead = FALSE
    Errors = FALSE
    Purges = TRUE
    Resizes = FALSE
    MaxCalls = 2
    AfterRace = TRUE
    None = None
INVARIANTS
    FollowsTable
