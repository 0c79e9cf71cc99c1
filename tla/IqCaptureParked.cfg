\* A capture may begin at index 0, B/2 or B, where the index can rest at B.
CONSTANTS
    B = 8
    Blocks = {1, 2}
    MaxTotal = 22
    MaxDrops = 0
    Clients = {c1}
    NoClient = NoClient
    Chunk = 4
    Sizes = {4, 8}
    Lag = 2
    MaxPolls = 3
    AlignedStarts = TRUE
SPECIFICATION Spec
INVARIANT ForwardFromNow
