\* A host that never stops for more than half a chunk (2 * Lag <= Chunk).
CONSTANTS
    B = 8
    Blocks = {1, 2}
    MaxTotal = 22
    MaxDrops = 0
    Clients = {c1, c2}
    NoClient = NoClient
    Chunk = 4
    Sizes = {4, 8}
    Lag = 2
    MaxPolls = 3
    AlignedStarts = FALSE
SPECIFICATION FairSpec
INVARIANTS TypeOK CaptureContiguous
PROPERTIES LockReleased ImplementsRecorder
