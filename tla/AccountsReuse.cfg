SPECIFICATION MCSpec
CONSTANTS
    n1 = n1  n2 = n2  n3 = n3
    r1 = r1  r2 = r2
    c1 = c1  c2 = c2
    NoName = NoName
    Name <- ThreeNames
    MaxId = 2
    MaxLife = 2
    Req <- TwoReqs
    Conn <- TwoConns
SYMMETRY Symmetry
CONSTRAINT Small
INVARIANTS
    OnlyFriends
