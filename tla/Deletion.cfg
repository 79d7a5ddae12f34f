SPECIFICATION DeletionSpec
CONSTANTS
    c1 = c1  c2 = c2  c3 = c3
    NoConn = NoConn
    NoRow = NoRow
    MaxUser = 2
    MaxRow = 1
    MaxLife = 2
    Conn <- ThreeConns
CONSTRAINT Small
SYMMETRY Symmetry
INVARIANTS
    MarkedWasWritten
    NoneStranded
    ReadByAddressee
