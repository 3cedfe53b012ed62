CONSTANTS
    Handles = {h1, h2, h3}
    Nil = Nil
    MaxChanges = 3
    MaxCalls = 3
SPECIFICATION FairSpec
\* Nothing need happen.
CHECK_DEADLOCK FALSE
INVARIANTS MainWindowReached OneToast
PROPERTY ToastGoes
