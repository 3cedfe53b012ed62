CONSTANTS
    MaxPos = 1
    Existing = Existing
    GlobalHotkeys = FALSE
    Contested = {"["}
    MaxPresses = 4
    MaxCalls = 2
SPECIFICATION FairSpec
\* The user may stop pressing keys.
CHECK_DEADLOCK FALSE
INVARIANTS LedgerMatches OneLinePerPress UnsupportedIsInert
PROPERTIES MarkKeptUntilSaved PressesTaken StopReleasesHotkeys
