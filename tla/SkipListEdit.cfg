CONSTANTS
    MaxRows = 3
    MaxCalls = 3
SPECIFICATION FairSpec
\* No call need be made.
CHECK_DEADLOCK FALSE
INVARIANTS AnswerIsTrue DeletesAddUp
PROPERTY EditReturns
