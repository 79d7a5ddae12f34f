SPECIFICATION Spec
CONSTANTS
    u1 = u1  u2 = u2
    c1 = c1  c2 = c2  c3 = c3
    m1 = m1  m2 = m2
    NoUser = NoUser
    NoConn = NoConn
    NoMsg = NoMsg
    User <- TwoUsers
    Conn <- ThreeConns
    Message <- OneMessage
    Friends <- Everybody
    Holds <- OwnTokens
    Oversize <- None
PROPERTIES
    MailboxSpec
    HandlersEnd
