--------------------------- MODULE FriendsProofs ---------------------------
(***************************************************************************)
(* What holds of friend requests for every number of users and             *)
(* connections.  FriendsInv is inductive: each lemma ...Step shows that a  *)
(* step keeps one of its conjuncts, action by action, from the conjuncts   *)
(* it needs.  The safety properties follow, and so does the refinement of  *)
(* FriendBook.                                                             *)
(***************************************************************************)
EXTENDS Friends, TLAPS

-----------------------------------------------------------------------------
(* Facts about contact lists. *)
LEMMA BlankType == Blank \in Contacts
  BY DEF Blank, Contacts

LEMMA BlankJustified == ASSUME NEW u PROVE Justified(Blank, u)
  BY DEF Blank, Justified

LEMMA ListReplaced ==
    ASSUME NEW list \in Contacts, NEW names \in SUBSET User
    PROVE  /\ [list EXCEPT !.friends = names] \in Contacts
           /\ [list EXCEPT !.incoming = names] \in Contacts
           /\ [list EXCEPT !.outgoing = names] \in Contacts
  BY DEF Contacts

(* The end of a packet, or of a contact list, keeps the handler's types. *)
LEMMA FinishType ==
    ASSUME TypeOK, NEW c \in Conn, NEW stage \in Stage,
           Finish(c, stage) \/ ListOver(c)
    PROVE  /\ pc' \in [Conn -> Stage]
           /\ job' \in [Conn -> {"none", "bootstrap", "request", "accept"}]
           /\ peer' \in [Conn -> User \cup {NoUser}]
           /\ target' \in [Conn -> Conn \cup {NoConn}]
           /\ draft' \in [Conn -> Contacts]
  BY BlankType
     DEF TypeOK, ListOver, Finish, GoTo, Stage, Serving, Listing

(* Connect moves its own handler, and at most the one it replaces, which    *)
(* then has a packet in hand.                                               *)
LEMMA ConnectMoves ==
    ASSUME TypeOK, NEW c \in Conn, Connect(c)
    PROVE  /\ pc' \in [Conn -> Stage] /\ pc'[c] = "friends"
           /\ \A d \in Conn \ {c} :
                 pc'[d] = pc[d] \/ (pc[d] = "read" /\ pc'[d] = "packet" /\ closed'[d])
<1>1. PICK stage \in {"read", "packet"} :
        pc' = [d \in Conn |-> IF d = c THEN "friends"
                              ELSE IF d = clients[Owner[c]] /\ pc[d] = "read" THEN stage
                              ELSE pc[d]]
  BY DEF Connect
<1>2. \A d \in Conn : pc'[d] \in Stage
  BY <1>1 DEF TypeOK, Stage, Serving, Listing, Querying
<1>3. closed' = [d \in Conn |-> d # c /\ (closed[d] \/ d = clients[Owner[c]])]
  BY DEF Connect
<1>. QED  BY <1>1, <1>2, <1>3

(* A step keeps the types: whoever a packet names, or is looked up, exists. *)
LEMMA TypeStep ==
    ASSUME TypeOK, HandlerShape, [Next]_vars
    PROVE  TypeOK'
<1>. USE OwnerAssumption, NullAssumption DEF GoTo, Stage, Serving, Listing,
       Querying, TypeOK, HandlerShape
<1>1. CASE UNCHANGED vars
  BY <1>1 DEF vars, tableVars, connVars, handlerVars, clientVars
<1>2. ASSUME NEW c \in Conn, Connect(c)
      PROVE  TypeOK'
  BY <1>2, BlankType DEF Connect, ClientsLeave, tableVars, connVars,
     handlerVars, clientVars
<1>3. ASSUME NEW c \in Conn, ReadFails(c)
      PROVE  TypeOK'
  BY <1>3 DEF ReadFails, Gone, tableVars, connVars, handlerVars, clientVars
<1>4. ASSUME NEW c \in Conn, Unregister(c)
      PROVE  TypeOK'
  BY <1>4 DEF Unregister, tableVars, connVars, handlerVars, clientVars
<1>5. ASSUME NEW c \in Conn, Close(c)
      PROVE  TypeOK'
  BY <1>5, BlankType DEF Close, ClientsLeave, tableVars, connVars,
     handlerVars, clientVars
<1>6. ASSUME NEW c \in Conn, LinkLost(c)
      PROVE  TypeOK'
  BY <1>6, BlankType DEF LinkLost, ClientsLeave, tableVars, connVars,
     handlerVars, clientVars
<1>7. ASSUME NEW c \in Conn, NEW v \in User, CheckRequest(c, v)
      PROVE  TypeOK'
  BY <1>7 DEF CheckRequest, HasPacket, tableVars, connVars, handlerVars, clientVars
<1>8. ASSUME NEW c \in Conn, InsertRequest(c)
      PROVE  TypeOK'
  BY <1>8 DEF InsertRequest, tableVars, connVars, handlerVars, clientVars
<1>9. ASSUME NEW c \in Conn, InsertFails(c)
      PROVE  TypeOK'
  BY <1>9, FinishType DEF InsertFails, tableVars, connVars, clientVars
<1>10. ASSUME NEW c \in Conn, NEW v \in User, AcceptRequest(c, v)
      PROVE  TypeOK'
  BY <1>10 DEF AcceptRequest, Accepts, HasPacket, tableVars, connVars,
     handlerVars, clientVars
<1>11. ASSUME NEW c \in Conn, LookupSelf(c)
      PROVE  TypeOK'
  BY <1>11 DEF LookupSelf, tableVars, connVars, handlerVars, clientVars
<1>12. ASSUME NEW c \in Conn, LookupPeer(c)
      PROVE  TypeOK'
  <2>1. CASE Finish(c, "read")
    BY <1>12, <2>1, FinishType DEF LookupPeer, tableVars, connVars, clientVars
  <2>2. CASE ~Finish(c, "read")
    BY <1>12, <2>2 DEF LookupPeer, Announced, tableVars, connVars, clientVars
  <2>. QED BY <2>1, <2>2
<1>13. ASSUME NEW c \in Conn, QueryFriends(c)
      PROVE  TypeOK'
  <2>1. FriendsOf(Owner[target[c]]) \in SUBSET User
    BY DEF FriendsOf
  <2>2. [draft[c] EXCEPT !.friends = FriendsOf(Owner[target[c]])] \in Contacts
    <3>1. draft[c] \in Contacts
      BY DEF TypeOK
    <3>. QED BY <2>1, <3>1, ListReplaced
  <2>3. draft' \in [Conn -> Contacts]
    BY <1>13, <2>2 DEF QueryFriends
  <2>. QED BY <1>13, <2>3 DEF QueryFriends, tableVars, connVars, clientVars
<1>14. ASSUME NEW c \in Conn, QueryIncoming(c)
      PROVE  TypeOK'
  <2>1. IncomingOf(Owner[target[c]]) \in SUBSET User
    BY DEF IncomingOf
  <2>2. [draft[c] EXCEPT !.incoming = IncomingOf(Owner[target[c]])] \in Contacts
    <3>1. draft[c] \in Contacts
      BY DEF TypeOK
    <3>. QED BY <2>1, <3>1, ListReplaced
  <2>3. draft' \in [Conn -> Contacts]
    BY <1>14, <2>2 DEF QueryIncoming
  <2>. QED BY <1>14, <2>3 DEF QueryIncoming, tableVars, connVars, clientVars
<1>15. ASSUME NEW c \in Conn, QueryOutgoing(c)
      PROVE  TypeOK'
  <2>1. OutgoingOf(Owner[target[c]]) \in SUBSET User
    BY DEF OutgoingOf
  <2>2. [draft[c] EXCEPT !.outgoing = OutgoingOf(Owner[target[c]])] \in Contacts
    <3>1. draft[c] \in Contacts
      BY DEF TypeOK
    <3>. QED BY <2>1, <3>1, ListReplaced
  <2>3. draft' \in [Conn -> Contacts]
    BY <1>15, <2>2 DEF QueryOutgoing
  <2>. QED BY <1>15, <2>3 DEF QueryOutgoing, tableVars, connVars, clientVars
<1>16. ASSUME NEW c \in Conn, WriteContacts(c)
      PROVE  TypeOK'
  <2>1. target[c] \in Conn
    BY <1>16 DEF WriteContacts
  <2>2. view' \in [Conn -> Contacts] /\ told' \in [Conn -> SUBSET User]
    BY <1>16, <2>1 DEF WriteContacts, Contacts
  <2>. QED BY <1>16, <2>2, FinishType DEF WriteContacts, tableVars, connVars
<1>17. ASSUME NEW c \in Conn, ListFails(c)
      PROVE  TypeOK'
  BY <1>17, FinishType DEF ListFails, tableVars, connVars, clientVars
<1>18. ASSUME NEW c \in Conn, Notify(c)
      PROVE  TypeOK'
  <2>1. target[c] \in Conn /\ Owner[c] \in User
    BY <1>18 DEF Notify
  <2>2. /\ view[target[c]] \in Contacts
        /\ view[target[c]].incoming \cup {Owner[c]} \in SUBSET User
    BY <2>1 DEF TypeOK, Contacts
  <2>3. view' \in [Conn -> Contacts]
    <3>1. CASE link[target[c]]
      <4>1. view' = [view EXCEPT ![target[c]] =
                       [view[target[c]] EXCEPT
                          !.incoming = view[target[c]].incoming \cup {Owner[c]}]]
        BY <1>18, <2>1, <3>1 DEF Notify
      <4>. QED BY <2>1, <2>2, <4>1, ListReplaced
    <3>2. CASE ~link[target[c]]
      BY <1>18, <2>1, <2>2, <3>2 DEF Notify, Contacts
    <3>. QED BY <3>1, <3>2
  <2>4. told' \in [Conn -> SUBSET User]
    BY <1>18, <2>1 DEF Notify
  <2>. QED BY <1>18, <2>3, <2>4, FinishType DEF Notify, tableVars, connVars
<1>19. ASSUME NEW c \in Conn, NotifyFails(c)
      PROVE  TypeOK'
  BY <1>19, FinishType DEF NotifyFails, tableVars, connVars, clientVars
<1>20. CASE Restart
  BY <1>20, BlankType DEF Restart, ClientsLeave, tableVars
<1>21. ASSUME NEW c \in Conn, PacketRefused(c)
      PROVE  TypeOK'
  BY <1>21 DEF PacketRefused, tableVars, connVars, clientVars
<1>. QED
  BY <1>1, <1>2, <1>3, <1>4, <1>5, <1>6, <1>7, <1>8, <1>9, <1>10, <1>11,
     <1>12, <1>13, <1>14, <1>15, <1>16, <1>17, <1>18, <1>19, <1>20, <1>21 DEF
     Next, HandlerStep, PeerStep

(* A handler's stage keeps telling what else it holds.                      *)
LEMMA ShapeStep ==
    ASSUME TypeOK, HandlerShape, RegistryConsistent, [Next]_vars
    PROVE  HandlerShape'
<1>. USE OwnerAssumption, NullAssumption DEF GoTo, Stage, Serving, Listing,
       Querying, TypeOK, HandlerShape, RegistryConsistent
<1>1. CASE UNCHANGED vars
  BY <1>1 DEF vars, tableVars, connVars, handlerVars, clientVars
<1>2. ASSUME NEW c \in Conn, Connect(c)
      PROVE  HandlerShape'
  BY <1>2, BlankType DEF Connect, ClientsLeave, tableVars, connVars,
     handlerVars, clientVars
<1>3. ASSUME NEW c \in Conn, ReadFails(c)
      PROVE  HandlerShape'
  BY <1>3 DEF ReadFails, Gone, tableVars, connVars, handlerVars, clientVars
<1>4. ASSUME NEW c \in Conn, Unregister(c)
      PROVE  HandlerShape'
  BY <1>4 DEF Unregister, tableVars, connVars, handlerVars, clientVars
<1>5. ASSUME NEW c \in Conn, Close(c)
      PROVE  HandlerShape'
  BY <1>5, BlankType DEF Close, ClientsLeave, tableVars, connVars,
     handlerVars, clientVars
<1>6. ASSUME NEW c \in Conn, LinkLost(c)
      PROVE  HandlerShape'
  BY <1>6, BlankType DEF LinkLost, ClientsLeave, tableVars, connVars,
     handlerVars, clientVars
<1>7. ASSUME NEW c \in Conn, NEW v \in User, CheckRequest(c, v)
      PROVE  HandlerShape'
  BY <1>7 DEF CheckRequest, HasPacket, tableVars, connVars, handlerVars, clientVars
<1>8. ASSUME NEW c \in Conn, InsertRequest(c)
      PROVE  HandlerShape'
  BY <1>8 DEF InsertRequest, tableVars, connVars, handlerVars, clientVars
<1>9. ASSUME NEW c \in Conn, InsertFails(c)
      PROVE  HandlerShape'
  BY <1>9 DEF InsertFails, Finish, tableVars, connVars, handlerVars,
     clientVars
<1>10. ASSUME NEW c \in Conn, NEW v \in User, AcceptRequest(c, v)
      PROVE  HandlerShape'
  BY <1>10 DEF AcceptRequest, Accepts, HasPacket, tableVars, connVars,
     handlerVars, clientVars
<1>11. ASSUME NEW c \in Conn, LookupSelf(c)
      PROVE  HandlerShape'
  BY <1>11 DEF LookupSelf, tableVars, connVars, handlerVars, clientVars
<1>12. ASSUME NEW c \in Conn, LookupPeer(c)
      PROVE  HandlerShape'
  BY <1>12 DEF LookupPeer, Announced, Finish, tableVars, connVars,
     handlerVars, clientVars
<1>13. ASSUME NEW c \in Conn, QueryFriends(c)
      PROVE  HandlerShape'
  BY <1>13 DEF QueryFriends, FriendsOf, tableVars, connVars, handlerVars,
     clientVars
<1>14. ASSUME NEW c \in Conn, QueryIncoming(c)
      PROVE  HandlerShape'
  BY <1>14 DEF QueryIncoming, IncomingOf, tableVars, connVars, handlerVars,
     clientVars
<1>15. ASSUME NEW c \in Conn, QueryOutgoing(c)
      PROVE  HandlerShape'
  BY <1>15 DEF QueryOutgoing, OutgoingOf, tableVars, connVars, handlerVars,
     clientVars
<1>16. ASSUME NEW c \in Conn, WriteContacts(c)
      PROVE  HandlerShape'
  BY <1>16 DEF WriteContacts, ListOver, AfterList, Finish, tableVars,
     connVars, handlerVars, clientVars
<1>17. ASSUME NEW c \in Conn, ListFails(c)
      PROVE  HandlerShape'
  BY <1>17 DEF ListFails, Gone, ListOver, AfterList, Finish, tableVars,
     connVars, handlerVars, clientVars
<1>18. ASSUME NEW c \in Conn, Notify(c)
      PROVE  HandlerShape'
  BY <1>18 DEF Notify, Finish, tableVars, connVars, handlerVars, clientVars
<1>19. ASSUME NEW c \in Conn, NotifyFails(c)
      PROVE  HandlerShape'
  BY <1>19 DEF NotifyFails, Gone, Finish, tableVars, connVars, handlerVars,
     clientVars
<1>20. CASE Restart
  BY <1>20, BlankType DEF Restart, ClientsLeave, tableVars
<1>21. ASSUME NEW c \in Conn, PacketRefused(c)
      PROVE  HandlerShape'
  BY <1>21 DEF PacketRefused, tableVars, connVars, clientVars
<1>. QED
  BY <1>1, <1>2, <1>3, <1>4, <1>5, <1>6, <1>7, <1>8, <1>9, <1>10, <1>11,
     <1>12, <1>13, <1>14, <1>15, <1>16, <1>17, <1>18, <1>19, <1>20, <1>21 DEF
     Next, HandlerStep, PeerStep

(* The map follows the handlers: registering closes the user's previous     *)
(* connection, and a handler removes none but itself.                       *)
LEMMA RegistryStep ==
    ASSUME TypeOK, HandlerShape, RegistryConsistent, [Next]_vars
    PROVE  RegistryConsistent'
<1>. USE OwnerAssumption, NullAssumption DEF GoTo, Stage, Serving, Listing,
       Querying, TypeOK, HandlerShape, RegistryConsistent
<1>1. CASE UNCHANGED vars
  BY <1>1 DEF vars, tableVars, connVars, handlerVars, clientVars
<1>2. ASSUME NEW c \in Conn, Connect(c)
      PROVE  RegistryConsistent'
  <2>1. /\ clients' = [clients EXCEPT ![Owner[c]] = c]
        /\ closed' = [d \in Conn |-> d # c /\ (closed[d] \/ d = clients[Owner[c]])]
    BY <1>2 DEF Connect
  <2>2. ASSUME NEW d \in Conn, d # c, pc'[d] \in Serving, ~closed'[d]
        PROVE  pc[d] \in Serving /\ ~closed[d] /\ d # clients[Owner[c]]
    BY <1>2, <2>1, <2>2, ConnectMoves
  <2>. QED  BY <2>1, <2>2
<1>3. ASSUME NEW c \in Conn, ReadFails(c)
      PROVE  RegistryConsistent'
  BY <1>3 DEF ReadFails, Gone, tableVars, connVars, handlerVars, clientVars
<1>4. ASSUME NEW c \in Conn, Unregister(c)
      PROVE  RegistryConsistent'
  BY <1>4 DEF Unregister, tableVars, connVars, handlerVars, clientVars
<1>5. ASSUME NEW c \in Conn, Close(c)
      PROVE  RegistryConsistent'
  BY <1>5, BlankType DEF Close, ClientsLeave, tableVars, connVars,
     handlerVars, clientVars
<1>6. ASSUME NEW c \in Conn, LinkLost(c)
      PROVE  RegistryConsistent'
  BY <1>6, BlankType DEF LinkLost, ClientsLeave, tableVars, connVars,
     handlerVars, clientVars
<1>7. ASSUME NEW c \in Conn, NEW v \in User, CheckRequest(c, v)
      PROVE  RegistryConsistent'
  BY <1>7 DEF CheckRequest, HasPacket, tableVars, connVars, handlerVars, clientVars
<1>8. ASSUME NEW c \in Conn, InsertRequest(c)
      PROVE  RegistryConsistent'
  BY <1>8 DEF InsertRequest, tableVars, connVars, handlerVars, clientVars
<1>9. ASSUME NEW c \in Conn, InsertFails(c)
      PROVE  RegistryConsistent'
  BY <1>9 DEF InsertFails, Finish, tableVars, connVars, handlerVars,
     clientVars
<1>10. ASSUME NEW c \in Conn, NEW v \in User, AcceptRequest(c, v)
      PROVE  RegistryConsistent'
  BY <1>10 DEF AcceptRequest, Accepts, HasPacket, tableVars, connVars,
     handlerVars, clientVars
<1>11. ASSUME NEW c \in Conn, LookupSelf(c)
      PROVE  RegistryConsistent'
  BY <1>11 DEF LookupSelf, tableVars, connVars, handlerVars, clientVars
<1>12. ASSUME NEW c \in Conn, LookupPeer(c)
      PROVE  RegistryConsistent'
  BY <1>12 DEF LookupPeer, Announced, Finish, tableVars, connVars,
     handlerVars, clientVars
<1>13. ASSUME NEW c \in Conn, QueryFriends(c)
      PROVE  RegistryConsistent'
  BY <1>13 DEF QueryFriends, FriendsOf, tableVars, connVars, handlerVars,
     clientVars
<1>14. ASSUME NEW c \in Conn, QueryIncoming(c)
      PROVE  RegistryConsistent'
  BY <1>14 DEF QueryIncoming, IncomingOf, tableVars, connVars, handlerVars,
     clientVars
<1>15. ASSUME NEW c \in Conn, QueryOutgoing(c)
      PROVE  RegistryConsistent'
  BY <1>15 DEF QueryOutgoing, OutgoingOf, tableVars, connVars, handlerVars,
     clientVars
<1>16. ASSUME NEW c \in Conn, WriteContacts(c)
      PROVE  RegistryConsistent'
  BY <1>16 DEF WriteContacts, ListOver, AfterList, Finish, tableVars,
     connVars, handlerVars, clientVars
<1>17. ASSUME NEW c \in Conn, ListFails(c)
      PROVE  RegistryConsistent'
  BY <1>17 DEF ListFails, Gone, ListOver, AfterList, Finish, tableVars,
     connVars, handlerVars, clientVars
<1>18. ASSUME NEW c \in Conn, Notify(c)
      PROVE  RegistryConsistent'
  BY <1>18 DEF Notify, Finish, tableVars, connVars, handlerVars, clientVars
<1>19. ASSUME NEW c \in Conn, NotifyFails(c)
      PROVE  RegistryConsistent'
  BY <1>19 DEF NotifyFails, Gone, Finish, tableVars, connVars, handlerVars,
     clientVars
<1>20. CASE Restart
  BY <1>20, BlankType DEF Restart, ClientsLeave, tableVars
<1>21. ASSUME NEW c \in Conn, PacketRefused(c)
      PROVE  RegistryConsistent'
  BY <1>21 DEF PacketRefused, tableVars, connVars, clientVars
<1>. QED
  BY <1>1, <1>2, <1>3, <1>4, <1>5, <1>6, <1>7, <1>8, <1>9, <1>10, <1>11,
     <1>12, <1>13, <1>14, <1>15, <1>16, <1>17, <1>18, <1>19, <1>20, <1>21 DEF
     Next, HandlerStep, PeerStep

(* What a handler has read stays justified, because a request leaves its    *)
(* table only to become a friendship.                                       *)
LEMMA TablesStep ==
    ASSUME TypeOK, HandlerShape, TablesAndDrafts, [Next]_vars
    PROVE  TablesAndDrafts'
<1>. USE OwnerAssumption, NullAssumption DEF GoTo, Stage, Serving, Listing,
       Querying, Justified, TypeOK, HandlerShape, TablesAndDrafts
<1>1. CASE UNCHANGED vars
  BY <1>1 DEF vars, tableVars, connVars, handlerVars, clientVars
<1>2. ASSUME NEW c \in Conn, Connect(c)
      PROVE  TablesAndDrafts'
  <2>1. draft[c] = Blank /\ draft' = draft
    BY <1>2 DEF Connect
  <2>2. ASSUME NEW d \in Conn, target'[d] # NoConn
        PROVE  Justified(draft[d], Owner[target'[d]])
    BY <1>2, <2>1, <2>2, BlankJustified DEF Connect
  <2>. QED BY <1>2, <2>1, <2>2 DEF Connect, tableVars, connVars
<1>3. ASSUME NEW c \in Conn, ReadFails(c)
      PROVE  TablesAndDrafts'
  BY <1>3 DEF ReadFails, Gone, tableVars, connVars, handlerVars, clientVars
<1>4. ASSUME NEW c \in Conn, Unregister(c)
      PROVE  TablesAndDrafts'
  BY <1>4 DEF Unregister, tableVars, connVars, handlerVars, clientVars
<1>5. ASSUME NEW c \in Conn, Close(c)
      PROVE  TablesAndDrafts'
  BY <1>5, BlankType DEF Close, ClientsLeave, tableVars, connVars,
     handlerVars, clientVars
<1>6. ASSUME NEW c \in Conn, LinkLost(c)
      PROVE  TablesAndDrafts'
  BY <1>6, BlankType DEF LinkLost, ClientsLeave, tableVars, connVars,
     handlerVars, clientVars
<1>7. ASSUME NEW c \in Conn, NEW v \in User, CheckRequest(c, v)
      PROVE  TablesAndDrafts'
  BY <1>7 DEF CheckRequest, HasPacket, tableVars, connVars, handlerVars, clientVars
<1>8. ASSUME NEW c \in Conn, InsertRequest(c)
      PROVE  TablesAndDrafts'
  BY <1>8 DEF InsertRequest, tableVars, connVars, handlerVars, clientVars
<1>9. ASSUME NEW c \in Conn, InsertFails(c)
      PROVE  TablesAndDrafts'
  BY <1>9 DEF InsertFails, Finish, tableVars, connVars, handlerVars,
     clientVars
<1>10. ASSUME NEW c \in Conn, NEW v \in User, AcceptRequest(c, v)
      PROVE  TablesAndDrafts'
  BY <1>10 DEF AcceptRequest, Accepts, HasPacket, tableVars, connVars,
     handlerVars, clientVars
<1>11. ASSUME NEW c \in Conn, LookupSelf(c)
      PROVE  TablesAndDrafts'
  <2>1. draft[c] = Blank /\ draft' = draft
    BY <1>11 DEF LookupSelf
  <2>2. ASSUME NEW d \in Conn, target'[d] # NoConn
        PROVE  Justified(draft[d], Owner[target'[d]])
    BY <1>11, <2>1, <2>2, BlankJustified DEF LookupSelf
  <2>. QED BY <1>11, <2>1, <2>2 DEF LookupSelf, tableVars
<1>12. ASSUME NEW c \in Conn, LookupPeer(c)
      PROVE  TablesAndDrafts'
  <2>1. CASE Finish(c, "read")
    BY <1>12, <2>1 DEF LookupPeer, Finish, tableVars
  <2>2. CASE ~Finish(c, "read")
    <3>1. draft[c] = Blank /\ draft' = draft
      BY <1>12, <2>2 DEF LookupPeer
    <3>2. ASSUME NEW d \in Conn, d # c PROVE target'[d] = target[d]
      BY <1>12, <2>2, <3>2 DEF LookupPeer
    <3>3. ASSUME NEW d \in Conn, target'[d] # NoConn
          PROVE  Justified(draft[d], Owner[target'[d]])
      <4>1. CASE d = c
        BY <3>1, <4>1, BlankJustified
      <4>2. CASE d # c
        BY <3>2, <3>3, <4>2
      <4>. QED BY <4>1, <4>2
    <3>. QED BY <1>12, <2>2, <3>1, <3>3 DEF LookupPeer, tableVars
  <2>. QED BY <2>1, <2>2
<1>13. ASSUME NEW c \in Conn, QueryFriends(c)
      PROVE  TablesAndDrafts'
  <2>1. draft[c] \in Contacts /\ target[c] # NoConn
    BY <1>13 DEF QueryFriends
  <2>2. /\ draft'[c].friends = FriendsOf(Owner[target[c]])
        /\ draft'[c].incoming = draft[c].incoming
        /\ draft'[c].outgoing = draft[c].outgoing
    BY <1>13, <2>1 DEF QueryFriends, Contacts
  <2>3. Justified(draft'[c], Owner[target[c]])
    BY <1>13, <2>1, <2>2 DEF QueryFriends, FriendsOf
  <2>4. ASSUME NEW d \in Conn, d # c PROVE draft'[d] = draft[d]
    BY <1>13, <2>4 DEF QueryFriends
  <2>5. ASSUME NEW d \in Conn, target[d] # NoConn
        PROVE  Justified(draft'[d], Owner[target[d]])
    BY <2>3, <2>4, <2>5
  <2>. QED BY <1>13, <2>5 DEF QueryFriends, tableVars
<1>14. ASSUME NEW c \in Conn, QueryIncoming(c)
      PROVE  TablesAndDrafts'
  <2>1. draft[c] \in Contacts /\ target[c] # NoConn
    BY <1>14 DEF QueryIncoming
  <2>2. /\ draft'[c].incoming = IncomingOf(Owner[target[c]])
        /\ draft'[c].friends = draft[c].friends
        /\ draft'[c].outgoing = draft[c].outgoing
    BY <1>14, <2>1 DEF QueryIncoming, Contacts
  <2>3. Justified(draft'[c], Owner[target[c]])
    BY <1>14, <2>1, <2>2 DEF QueryIncoming, IncomingOf
  <2>4. ASSUME NEW d \in Conn, d # c PROVE draft'[d] = draft[d]
    BY <1>14, <2>4 DEF QueryIncoming
  <2>5. ASSUME NEW d \in Conn, target[d] # NoConn
        PROVE  Justified(draft'[d], Owner[target[d]])
    BY <2>3, <2>4, <2>5
  <2>. QED BY <1>14, <2>5 DEF QueryIncoming, tableVars
<1>15. ASSUME NEW c \in Conn, QueryOutgoing(c)
      PROVE  TablesAndDrafts'
  <2>1. draft[c] \in Contacts /\ target[c] # NoConn
    BY <1>15 DEF QueryOutgoing
  <2>2. /\ draft'[c].outgoing = OutgoingOf(Owner[target[c]])
        /\ draft'[c].friends = draft[c].friends
        /\ draft'[c].incoming = draft[c].incoming
    BY <1>15, <2>1 DEF QueryOutgoing, Contacts
  <2>3. Justified(draft'[c], Owner[target[c]])
    BY <1>15, <2>1, <2>2 DEF QueryOutgoing, OutgoingOf
  <2>4. ASSUME NEW d \in Conn, d # c PROVE draft'[d] = draft[d]
    BY <1>15, <2>4 DEF QueryOutgoing
  <2>5. ASSUME NEW d \in Conn, target[d] # NoConn
        PROVE  Justified(draft'[d], Owner[target[d]])
    BY <2>3, <2>4, <2>5
  <2>. QED BY <1>15, <2>5 DEF QueryOutgoing, tableVars
<1>16. ASSUME NEW c \in Conn, WriteContacts(c)
      PROVE  TablesAndDrafts'
  BY <1>16 DEF WriteContacts, ListOver, AfterList, Finish, tableVars,
     connVars, handlerVars, clientVars
<1>17. ASSUME NEW c \in Conn, ListFails(c)
      PROVE  TablesAndDrafts'
  BY <1>17 DEF ListFails, Gone, ListOver, AfterList, Finish, tableVars,
     connVars, handlerVars, clientVars
<1>18. ASSUME NEW c \in Conn, Notify(c)
      PROVE  TablesAndDrafts'
  BY <1>18 DEF Notify, Finish, tableVars, connVars, handlerVars, clientVars
<1>19. ASSUME NEW c \in Conn, NotifyFails(c)
      PROVE  TablesAndDrafts'
  BY <1>19 DEF NotifyFails, Gone, Finish, tableVars, connVars, handlerVars,
     clientVars
<1>20. CASE Restart
  BY <1>20, BlankType DEF Restart, ClientsLeave, tableVars
<1>21. ASSUME NEW c \in Conn, PacketRefused(c)
      PROVE  TablesAndDrafts'
  BY <1>21 DEF PacketRefused, tableVars, connVars, clientVars
<1>. QED
  BY <1>1, <1>2, <1>3, <1>4, <1>5, <1>6, <1>7, <1>8, <1>9, <1>10, <1>11,
     <1>12, <1>13, <1>14, <1>15, <1>16, <1>17, <1>18, <1>19, <1>20, <1>21 DEF
     Next, HandlerStep, PeerStep

(* So does what the clients show: it was read, or announced by the handler  *)
(* that had inserted it.                                                    *)
LEMMA ViewStep ==
    ASSUME TypeOK, HandlerShape, TablesAndDrafts, ViewJustified, [Next]_vars
    PROVE  ViewJustified'
<1>. USE OwnerAssumption, NullAssumption DEF GoTo, Querying, Listing,
       Contacts, Blank, Justified, TypeOK, HandlerShape, TablesAndDrafts,
       ViewJustified
<1>1. CASE UNCHANGED vars
  BY <1>1 DEF vars, tableVars, connVars, handlerVars, clientVars
<1>2. ASSUME NEW c \in Conn, Connect(c)
      PROVE  ViewJustified'
  BY <1>2, BlankType DEF Connect, ClientsLeave, tableVars, connVars,
     handlerVars, clientVars
<1>3. ASSUME NEW c \in Conn, ReadFails(c)
      PROVE  ViewJustified'
  BY <1>3 DEF ReadFails, Gone, tableVars, connVars, handlerVars, clientVars
<1>4. ASSUME NEW c \in Conn, Unregister(c)
      PROVE  ViewJustified'
  BY <1>4 DEF Unregister, tableVars, connVars, handlerVars, clientVars
<1>5. ASSUME NEW c \in Conn, Close(c)
      PROVE  ViewJustified'
  BY <1>5, BlankType DEF Close, ClientsLeave, tableVars, connVars,
     handlerVars, clientVars
<1>6. ASSUME NEW c \in Conn, LinkLost(c)
      PROVE  ViewJustified'
  BY <1>6, BlankType DEF LinkLost, ClientsLeave, tableVars, connVars,
     handlerVars, clientVars
<1>7. ASSUME NEW c \in Conn, NEW v \in User, CheckRequest(c, v)
      PROVE  ViewJustified'
  BY <1>7 DEF CheckRequest, HasPacket, tableVars, connVars, handlerVars, clientVars
<1>8. ASSUME NEW c \in Conn, InsertRequest(c)
      PROVE  ViewJustified'
  BY <1>8 DEF InsertRequest, tableVars, connVars, handlerVars, clientVars
<1>9. ASSUME NEW c \in Conn, InsertFails(c)
      PROVE  ViewJustified'
  BY <1>9 DEF InsertFails, Finish, tableVars, connVars, handlerVars,
     clientVars
<1>10. ASSUME NEW c \in Conn, NEW v \in User, AcceptRequest(c, v)
      PROVE  ViewJustified'
  BY <1>10 DEF AcceptRequest, Accepts, HasPacket, tableVars, connVars,
     handlerVars, clientVars
<1>11. ASSUME NEW c \in Conn, LookupSelf(c)
      PROVE  ViewJustified'
  BY <1>11 DEF LookupSelf, tableVars, connVars, handlerVars, clientVars
<1>12. ASSUME NEW c \in Conn, LookupPeer(c)
      PROVE  ViewJustified'
  BY <1>12 DEF LookupPeer, Announced, Finish, tableVars, connVars,
     handlerVars, clientVars
<1>13. ASSUME NEW c \in Conn, QueryFriends(c)
      PROVE  ViewJustified'
  BY <1>13 DEF QueryFriends, FriendsOf, tableVars, connVars, handlerVars,
     clientVars
<1>14. ASSUME NEW c \in Conn, QueryIncoming(c)
      PROVE  ViewJustified'
  BY <1>14 DEF QueryIncoming, IncomingOf, tableVars, connVars, handlerVars,
     clientVars
<1>15. ASSUME NEW c \in Conn, QueryOutgoing(c)
      PROVE  ViewJustified'
  BY <1>15 DEF QueryOutgoing, OutgoingOf, tableVars, connVars, handlerVars,
     clientVars
<1>16. ASSUME NEW c \in Conn, WriteContacts(c)
      PROVE  ViewJustified'
  BY <1>16 DEF WriteContacts, ListOver, AfterList, Finish, tableVars,
     connVars, handlerVars, clientVars
<1>17. ASSUME NEW c \in Conn, ListFails(c)
      PROVE  ViewJustified'
  BY <1>17 DEF ListFails, Gone, ListOver, AfterList, Finish, tableVars,
     connVars, handlerVars, clientVars
<1>18. ASSUME NEW c \in Conn, Notify(c)
      PROVE  ViewJustified'
  BY <1>18 DEF Notify, Finish, tableVars, connVars, handlerVars, clientVars
<1>19. ASSUME NEW c \in Conn, NotifyFails(c)
      PROVE  ViewJustified'
  BY <1>19 DEF NotifyFails, Gone, Finish, tableVars, connVars, handlerVars,
     clientVars
<1>20. CASE Restart
  BY <1>20, BlankType DEF Restart, ClientsLeave, tableVars
<1>21. ASSUME NEW c \in Conn, PacketRefused(c)
      PROVE  ViewJustified'
  BY <1>21 DEF PacketRefused, tableVars, connVars, clientVars
<1>. QED
  BY <1>1, <1>2, <1>3, <1>4, <1>5, <1>6, <1>7, <1>8, <1>9, <1>10, <1>11,
     <1>12, <1>13, <1>14, <1>15, <1>16, <1>17, <1>18, <1>19, <1>20, <1>21 DEF
     Next, HandlerStep, PeerStep

(* A new request has its handler to announce it, and that handler finds the *)
(* connection unless its bootstrap is going to read the request.            *)
LEMMA MissedStep ==
    ASSUME TypeOK, HandlerShape, RegistryConsistent, NoRequestMissed,
           [Next]_vars
    PROVE  NoRequestMissed'
<1>. USE OwnerAssumption, NullAssumption DEF GoTo, Stage, Serving, Listing,
       Querying, Attended, WillBeTold, TypeOK, HandlerShape,
       RegistryConsistent, NoRequestMissed
<1>1. CASE UNCHANGED vars
  BY <1>1 DEF vars, tableVars, connVars, handlerVars, clientVars
<1>2. ASSUME NEW c \in Conn, Connect(c)
      PROVE  NoRequestMissed'
  BY <1>2, BlankType DEF Connect, ClientsLeave, tableVars, connVars,
     handlerVars, clientVars
<1>3. ASSUME NEW c \in Conn, ReadFails(c)
      PROVE  NoRequestMissed'
  BY <1>3 DEF ReadFails, Gone, tableVars, connVars, handlerVars, clientVars
<1>4. ASSUME NEW c \in Conn, Unregister(c)
      PROVE  NoRequestMissed'
  BY <1>4 DEF Unregister, tableVars, connVars, handlerVars, clientVars
<1>5. ASSUME NEW c \in Conn, Close(c)
      PROVE  NoRequestMissed'
  BY <1>5, BlankType DEF Close, ClientsLeave, tableVars, connVars,
     handlerVars, clientVars
<1>6. ASSUME NEW c \in Conn, LinkLost(c)
      PROVE  NoRequestMissed'
  BY <1>6, BlankType DEF LinkLost, ClientsLeave, tableVars, connVars,
     handlerVars, clientVars
<1>7. ASSUME NEW c \in Conn, NEW v \in User, CheckRequest(c, v)
      PROVE  NoRequestMissed'
  BY <1>7 DEF CheckRequest, HasPacket, tableVars, connVars, handlerVars, clientVars
<1>8. ASSUME NEW c \in Conn, InsertRequest(c)
      PROVE  NoRequestMissed'
  BY <1>8 DEF InsertRequest, tableVars, connVars, handlerVars, clientVars
<1>9. ASSUME NEW c \in Conn, InsertFails(c)
      PROVE  NoRequestMissed'
  BY <1>9 DEF InsertFails, Finish, tableVars, connVars, handlerVars,
     clientVars
<1>10. ASSUME NEW c \in Conn, NEW v \in User, AcceptRequest(c, v)
      PROVE  NoRequestMissed'
  <2>1. /\ pc[c] \in {"read", "packet"} /\ job[c] = "none"
        /\ target' = target /\ draft' = draft
    BY <1>10 DEF AcceptRequest, HasPacket
  <2>2. ASSUME NEW e \in Conn, NEW u \in User, <<u, Owner[e]>> \in requests'
        PROVE  <<u, Owner[e]>> \in requests
    BY <1>10, <2>2 DEF AcceptRequest
  <2>3. ASSUME NEW e \in Conn, Attended(e)' PROVE Attended(e)
    BY <1>10, <2>1, <2>3 DEF AcceptRequest, connVars
  <2>4. ASSUME NEW e \in Conn, NEW u \in User, WillBeTold(e, u)
        PROVE  WillBeTold(e, u)'
    BY <1>10, <2>1, <2>4 DEF AcceptRequest
  <2>5. ASSUME NEW e \in Conn, job[e] = "bootstrap"
        PROVE  job'[e] = job[e] /\ pc'[e] = pc[e]
    BY <1>10, <2>1, <2>5 DEF AcceptRequest
  <2>. HIDE DEF Attended, WillBeTold
  <2>. QED BY <1>10, <2>1, <2>2, <2>3, <2>4, <2>5 DEF AcceptRequest, clientVars
<1>11. ASSUME NEW c \in Conn, LookupSelf(c)
      PROVE  NoRequestMissed'
  BY <1>11 DEF LookupSelf, tableVars, connVars, handlerVars, clientVars
<1>12. ASSUME NEW c \in Conn, LookupPeer(c)
      PROVE  NoRequestMissed'
  BY <1>12 DEF LookupPeer, Announced, Finish, tableVars, connVars,
     handlerVars, clientVars
<1>13. ASSUME NEW c \in Conn, QueryFriends(c)
      PROVE  NoRequestMissed'
  BY <1>13 DEF QueryFriends, FriendsOf, tableVars, connVars, handlerVars,
     clientVars
<1>14. ASSUME NEW c \in Conn, QueryIncoming(c)
      PROVE  NoRequestMissed'
  BY <1>14, SMTT(60) DEF QueryIncoming, IncomingOf, tableVars, connVars, handlerVars,
     clientVars
<1>15. ASSUME NEW c \in Conn, QueryOutgoing(c)
      PROVE  NoRequestMissed'
  BY <1>15 DEF QueryOutgoing, OutgoingOf, tableVars, connVars, handlerVars,
     clientVars
<1>16. ASSUME NEW c \in Conn, WriteContacts(c)
      PROVE  NoRequestMissed'
  BY <1>16 DEF WriteContacts, ListOver, AfterList, Finish, tableVars,
     connVars, handlerVars, clientVars
<1>17. ASSUME NEW c \in Conn, ListFails(c)
      PROVE  NoRequestMissed'
  BY <1>17 DEF ListFails, Gone, ListOver, AfterList, Finish, tableVars,
     connVars, handlerVars, clientVars
<1>18. ASSUME NEW c \in Conn, Notify(c)
      PROVE  NoRequestMissed'
  BY <1>18, SMTT(60) DEF Notify, Finish, tableVars, connVars, handlerVars, clientVars
<1>19. ASSUME NEW c \in Conn, NotifyFails(c)
      PROVE  NoRequestMissed'
  BY <1>19 DEF NotifyFails, Gone, Finish, tableVars, connVars, handlerVars,
     clientVars
<1>20. CASE Restart
  BY <1>20, BlankType DEF Restart, ClientsLeave, tableVars
<1>21. ASSUME NEW c \in Conn, PacketRefused(c)
      PROVE  NoRequestMissed'
  BY <1>21 DEF PacketRefused, tableVars, connVars, clientVars
<1>. QED
  BY <1>1, <1>2, <1>3, <1>4, <1>5, <1>6, <1>7, <1>8, <1>9, <1>10, <1>11,
     <1>12, <1>13, <1>14, <1>15, <1>16, <1>17, <1>18, <1>19, <1>20, <1>21 DEF
     Next, HandlerStep, PeerStep

LEMMA FriendsInvInit == Init => FriendsInv
  BY OwnerAssumption, NullAssumption
     DEF Init, FriendsInv, TypeOK, HandlerShape, RegistryConsistent,
         TablesAndDrafts, ViewJustified, NoRequestMissed, Attended, Justified,
         Contacts, Blank, Stage, Serving, Listing, Querying

LEMMA FriendsInvStep == FriendsInv /\ [Next]_vars => FriendsInv'
<1>. SUFFICES ASSUME FriendsInv, [Next]_vars PROVE FriendsInv'
  OBVIOUS
<1>. USE DEF FriendsInv
<1>. QED
  BY TypeStep, ShapeStep, RegistryStep, TablesStep, ViewStep, MissedStep

-----------------------------------------------------------------------------
(* The inductive invariant holds in every reachable state.                  *)
THEOREM FriendsInvariant == Spec => []FriendsInv
  BY FriendsInvInit, FriendsInvStep, PTL DEF Spec

(* Every variable keeps its type.                                           *)
THEOREM TypeCorrect == Spec => []TypeOK
<1>1. FriendsInv => TypeOK
  BY DEF FriendsInv
<1>. QED BY <1>1, FriendsInvariant, PTL

(* What a client shows was so once (hub.go, sendContacts and                *)
(* handleFriendRequest).                                                    *)
THEOREM ViewCorrect == Spec => []ViewJustified
<1>1. FriendsInv => ViewJustified
  BY DEF FriendsInv
<1>. QED BY <1>1, FriendsInvariant, PTL

(* A connected client has been told of every pending request to its user,   *)
(* or is about to be (hub.go, handleConn and handleFriendRequest).          *)
THEOREM NoneUnannounced == Spec => []RequestsAnnounced
<1>1. FriendsInv => RequestsAnnounced
  BY DEF FriendsInv, NoRequestMissed, RequestsAnnounced
<1>. QED BY <1>1, FriendsInvariant, PTL

-----------------------------------------------------------------------------
(* The tables implement the friend book; this is the book they make up.     *)
bonds == [p \in User \X User |-> Bond(p)]

(* A step that leaves both tables alone is a stutter of the book.           *)
LEMMA BookStep == FriendsInv /\ [Next]_vars => [Book!Next]_(Book!vars)
<1>. SUFFICES ASSUME FriendsInv, [Next]_vars
              PROVE  Book!Next \/ UNCHANGED Book!vars
  OBVIOUS
<1>1. ASSUME UNCHANGED tableVars
      PROVE  UNCHANGED Book!vars
  BY <1>1 DEF Book!vars, Bond, tableVars
<1>2. ASSUME NEW c \in Conn, InsertRequest(c)
      PROVE  Book!Next \/ UNCHANGED Book!vars
  <2>. DEFINE u == Owner[c]
              v == peer[c]
  <2>1. u \in User /\ v \in User /\ u # v
    BY <1>2, OwnerAssumption
       DEF InsertRequest, FriendsInv, TypeOK, HandlerShape
  <2>2. /\ <<u, v>> \notin requests
        /\ requests' = requests \cup {<<u, v>>} /\ friends' = friends
    BY <1>2 DEF InsertRequest
  <2>3. CASE <<u, v>> \in friends
    <3>1. ASSUME NEW p \in User \X User PROVE Bond(p)' = Bond(p)
      BY <2>2, <2>3 DEF Bond
    <3>. QED BY <3>1 DEF Book!vars
  <2>4. CASE <<u, v>> \notin friends
    <3>1. bonds[<<u, v>>] = "none"
      BY <2>1, <2>2, <2>4 DEF bonds, Bond
    <3>2. ASSUME NEW p \in User \X User
          PROVE  Bond(p)' = IF p = <<u, v>> THEN "asked" ELSE Bond(p)
      BY <2>2, <2>4 DEF Bond
    <3>3. bonds' = [bonds EXCEPT ![<<u, v>>] = "asked"]
      BY <2>1, <3>2 DEF bonds
    <3>. QED BY <2>1, <3>1, <3>3 DEF bonds, Book!Next, Book!Ask
  <2>. QED BY <2>3, <2>4
<1>3. ASSUME NEW c \in Conn, NEW v \in User, AcceptRequest(c, v)
      PROVE  Book!Next
  <2>. DEFINE u == Owner[c]
  <2>1. u \in User
    BY OwnerAssumption
  <2>2. /\ <<v, u>> \in requests /\ <<u, v>> \notin friends
        /\ requests' = requests \ {<<v, u>>}
        /\ friends' = friends \cup {<<u, v>>, <<v, u>>}
    BY <1>3 DEF AcceptRequest, Accepts
  <2>3. <<v, u>> \notin friends
    BY <2>1, <2>2 DEF FriendsInv, TablesAndDrafts
  <2>4. bonds[<<v, u>>] = "asked"
    BY <2>1, <2>2, <2>3 DEF bonds, Bond
  <2>5. ASSUME NEW p \in User \X User
        PROVE  Bond(p)' = IF p \in {<<u, v>>, <<v, u>>} THEN "friends" ELSE Bond(p)
    BY <2>2 DEF Bond
  <2>6. bonds' = [bonds EXCEPT ![<<v, u>>] = "friends", ![<<u, v>>] = "friends"]
    BY <2>1, <2>5 DEF bonds
  <2>. QED BY <2>1, <2>4, <2>6 DEF bonds, Book!Next, Book!Agree
<1>4. ASSUME NEW c \in Conn,
             \/ PacketRefused(c) \/ ReadFails(c) \/ Unregister(c) \/ Close(c)
             \/ InsertFails(c)
             \/ LookupSelf(c) \/ LookupPeer(c) \/ QueryFriends(c)
             \/ QueryIncoming(c) \/ QueryOutgoing(c) \/ WriteContacts(c)
             \/ ListFails(c) \/ Notify(c) \/ NotifyFails(c)
             \/ Connect(c) \/ LinkLost(c)
      PROVE  UNCHANGED tableVars
  BY <1>4
     DEF PacketRefused, ReadFails, Unregister, Close, InsertFails, LookupSelf,
         LookupPeer,
         QueryFriends, QueryIncoming, QueryOutgoing, WriteContacts, ListFails,
         Notify, NotifyFails, Connect, LinkLost
<1>5. ASSUME NEW c \in Conn, NEW v \in User, CheckRequest(c, v)
      PROVE  UNCHANGED tableVars
  BY <1>5 DEF CheckRequest
<1>6. CASE Restart \/ UNCHANGED vars
  BY <1>1, <1>6 DEF Restart, vars
<1>. QED
  BY <1>1, <1>2, <1>3, <1>4, <1>5, <1>6 DEF Next, HandlerStep, PeerStep

(* Friendship takes a request and consent, holds for both and lasts         *)
(* (friends.go, sqlite.go).                                                 *)
THEOREM ImplementsFriendBook == Spec => FriendBookSpec
<1>1. Init => Book!Init
  BY DEF Init, Book!Init, Bond
<1>. QED
  BY <1>1, FriendsInvariant, BookStep, PTL DEF Spec, FriendBookSpec, Book!Spec

=============================================================================
