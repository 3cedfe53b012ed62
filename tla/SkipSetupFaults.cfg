CONSTANTS
    Ranges = {r1}
    Existing = Existing
    Probe = Probe
    Mangled = Mangled
    Faults = {"noMain", "hook", "hookMiss", "post", "readback", "checkbox", "nest", "esc"}
    MaxWindows = 4
    AutoEnable = FALSE
    MaxCalls = 1
SPECIFICATION FairSpec
CHECK_DEADLOCK FALSE
INVARIANT HookOnlyWhileOpening
PROPERTIES SelfCheckWritesNothing CallReturns
