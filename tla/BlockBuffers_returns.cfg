SPECIFICATION Spec
CONSTANTS
    u1 = u1
    u2 = u2
    d1 = d1
    g1 = g1
    Users = {u1, u2}
    Workers = {}
    Devices = {d1}
    Nums = {0, 1}
    Groups = {g1}
    MaxPer = 2
    Sizes = {1, 2}
    Hold = 0
    max_write_blocks = 2
    continuous = TRUE
    ReadAhead = FALSE
    Errors = FALSE
    Purges = FALSE
    Resizes = TRUE
    MaxCalls = 4
    AfterRace = FALSE
    None = None
PROPERTIES
    EveryCallReturns
