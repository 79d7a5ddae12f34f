SPECIFICATION ShellSpec
CONSTANTS
    MaxConn = 2
    MaxSent = 2
    Capacity = 1
CONSTRAINT Small
INVARIANTS
    ShellTypeOK
    LoadingAnswered
    ShownInOrder
PROPERTIES
    LossNoticed
    CloseEndsReader
