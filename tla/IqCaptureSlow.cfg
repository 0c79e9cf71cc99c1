\* A host that may stop for a whole chunk (2 * Lag <= B).
CONSTANTS
    B = 8
    Blocks = {1, 2}
    MaxTotal = 22
    MaxDrops = 0
    Clients = {c1, c2}
    NoClient = NoClient
    Chunk = 4
    Sizes = {4, 8}
    Lag = 4
    MaxPolls = 3
    AlignedStarts = FALSE
SPECIFICATION Spec
INVARIANT GuardLimitsDamage
