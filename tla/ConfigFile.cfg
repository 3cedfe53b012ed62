CONSTANTS
    KeyTokens <- MCKeys
    Numerals <- MCNumerals
    Numeral <- MCNumeral
    Players = {p1, p2}
    Editor = Editor
    Lines <- MCAllLines
    Texts <- MCTexts
    Edits <- MCEdits
    Room = {3, 13}
    MaxEdits = 1
SPECIFICATION Spec
SYMMETRY PlayerSymmetry
INVARIANTS TypeOK ReadsAtRest ParsedAsMeant RoundTrip
