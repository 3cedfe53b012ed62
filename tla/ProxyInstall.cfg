CONSTANTS
    MaxVersion = 3
    StopModes = {TRUE, FALSE}
SPECIFICATION Spec
INVARIANTS RealModuleKept OnlyMatchingWrapped
PROPERTIES ReturnMeansDone AllOrNothing
