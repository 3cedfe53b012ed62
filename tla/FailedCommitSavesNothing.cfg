CONSTANTS
    Ranges = {r1}
    Existing = Existing
    Probe = Probe
    Mangled = Mangled
    Faults = {}
    MaxWindows = 6
    AutoEnable = TRUE
    MaxCalls = 2
SPECIFICATION Spec
CHECK_DEADLOCK FALSE
INVARIANT FailedCommitSavesNothing
