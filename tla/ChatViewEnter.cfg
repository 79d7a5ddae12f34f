SPECIFICATION MCSpec
CONSTANTS
    b1 = b1  b2 = b2
    NoBody = NoBody
    Name <- TwoNames
    Body <- TwoBodies
    NoName <- Nothing
    Blank <- Spaces
    Limit = 1
    MaxQueue = 2
SYMMETRY Symmetry
CONSTRAINT Small
INVARIANTS
    EnterInRange
