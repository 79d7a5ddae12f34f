SPECIFICATION Spec
CONSTANTS
    u1 = u1  u2 = u2
    c1 = c1  c2 = c2  c3 = c3
    NoUser = NoUser
    NoConn = NoConn
    User <- TwoUsers
    Conn <- ThreeConns
    Owner <- TwoOfU2
SYMMETRY Symmetry
INVARIANTS
    ViewJustified
    RequestsAnnounced
    FriendsInv
PROPERTIES
    FriendBookSpec
