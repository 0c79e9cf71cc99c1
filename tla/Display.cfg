CONSTANTS
    Clients = {c1, c2}
    MaxRequests = 2
    MinGain = 0
    MaxGain = 2
    InitialGain = 1
    Center = 0
    Deltas = {2}
    Tunable = {0, 1, 2}
    Chipset = "chip"
    Devices = {"d1", "d2"}
    Knobs = {{"gain", "lo"}, {"lo", "view"}, {"target"}}
    MaxQueued = 1
    MaxFaults = 1
SPECIFICATION FairSpec
INVARIANTS TypeOK LoRequestsAddUp TargetIsWhole
PROPERTIES ControlsSettle DisplaySettles
