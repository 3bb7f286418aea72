CONSTANTS
    Texts <- MCTexts
    MaxLength = 5
    Durations = {0, 10, 11}
    MinBuffer = 10
    NumericHeights <- MCHeights
    PowersOfTen = {10, 100, 1000, 10000, 100000, 1000000}
    UintRange = 524288
    Precision = 32768
SPECIFICATION Spec
INVARIANTS
    TypeOK
    
    NumberAsWritten
