SPECIFICATION MCSpec
CONSTANTS
    c1 = c1
    c2 = c2
    c3 = c3
    u1 = u1
    u2 = u2
    Users = {1, 2, 3}
    Self = 2
    None = 0
    Slots = {1, 2}
    Conn <- ThreeConns
    NoConn = NoConn
    User <- TwoUsers
    userOf <- UserOf
    Capacity = 1
    Account = {1, 2}
    Device = {1, 2}
    Client = {1, 2, 3}
    deviceOf <- DeviceOf
    NoOne = NoOne
    NoKey = NoKey
    Torn = Torn
    MaxKeys = 2
    Process = {1, 2}
    NoProcess = 0
    Request = {1, 2}
    Category = {1}
    Latest = 2
    NoFile = NoFile
    Half = Half
    MaxCerts = 2
    Sending = {1, 2, 3}
    sizeOf <- SizeOf
    MaxFrame = 2
INVARIANTS
    UserInRange
    LoadingCommanded
    NoCircularWait
    WritesExclusive
    KeyOfOneAccount
    PairMatches
    ServesSchema
    CertPairs
    LogAgrees
    ClosedByOverlap
PROPERTIES
    HandlersReturn
    DeletesPrompted
    PrivateKeyStays
CONSTRAINT Small
CHECK_DEADLOCK FALSE
