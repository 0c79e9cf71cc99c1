CONSTANTS
    SymLen = 4
    Slot = 6
    Win = 65
    Interval = 26
    Tol = 43
    Jitter = 1
    NumSym = 4
    MaxFailures = 1
    Recordings <- MCRecordings
    Bins = 19
    NotchBins = 1
    MinSnr = 12
    SkirtDrop = 16
    SpurSnr = 8
    SpurProminence = 5
    SpurSep = 3
    SpurLimit = 16
    Spacing = 2
    GuardExtra = 1
    Traces <- MCTraces
    Raw <- MCRaw
    MaxSeconds = 30
    DefaultSeconds <- MCDefault
SPECIFICATION Spec
INVARIANTS TypeOK PacketsOnce EdgesFollowSymbols VerdictSound
CHECK_DEADLOCK FALSE
