CONSTANTS
    KeyTokens <- MCKeys
    Numerals <- MCNumerals
    Numeral <- MCNumeral
    Players = {p1}
    Editor = Editor
    Lines <- MCAllLines
    Texts <- MCEdits
    Edits <- MCEdits
    Room = {3, 13}
    MaxEdits = 1
SPECIFICATION Spec
INVARIANT ExistingConfigKept
