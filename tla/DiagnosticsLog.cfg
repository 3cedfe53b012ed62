CONSTANTS
    Procs = {p1, p2}
    MaxBytes = 2
    MaxCalls = 4
SPECIFICATION FairSpec
\* Nobody need log.
CHECK_DEADLOCK FALSE
INVARIANT SessionIntact
PROPERTIES EmptiedOnlyOverCap LogReturns
