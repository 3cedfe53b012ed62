CONSTANTS
    Base = 2
    Sixty = 3
    Digits = 10
    LongLimit = 512
    IntLimit = 8
    HumanTexts <- MCHumanTexts
    Oddities <- MCOddities
    MaxRanges = 2
SPECIFICATION Spec
INVARIANTS RangesForward SectionReadsBack TimecodeExact
