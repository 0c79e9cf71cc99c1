CONSTANTS
    B = 8
    D = 6
    W = 3
    Pre = 0
    Tol = 1
    Timeout = 7
    ConfirmFor = 7
    Span = 2
    Jitter = 1
    Gaps = {2, 3, 8}
    Regular = 3
    Sources = {"a", "b"}
    Bursts <- MCBursts
    Drops = {5}
    MaxHead = 20
SPECIFICATION Spec
INVARIANTS TypeOK RendersOwnBurst 
PROPERTIES HitNotLost BadIsConfirmed
CHECK_DEADLOCK FALSE
