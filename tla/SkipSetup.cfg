CONSTANTS
    Ranges = {r1, r2}
    Existing = Existing
    Probe = Probe
    Mangled = Mangled
    Faults = {"noMain", "hook", "hookMiss", "readback", "checkbox"}
    MaxWindows = 8
    AutoEnable = TRUE
    MaxCalls = 3
SPECIFICATION Spec
SYMMETRY RangeSymmetry
\* No call need be made.
CHECK_DEADLOCK FALSE
INVARIANTS OnlyVerifiedSaved TimelyCallIsExact VerdictSound
PROPERTIES PurelyAdditive ImplementsContract
