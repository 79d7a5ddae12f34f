------------------------------ MODULE Friends ------------------------------
(***************************************************************************)
(* Friend requests: the friend_requests and friends tables, the handlers   *)
(* that change them, and the contact lists they send to the clients.       *)
(*                                                                         *)
(* As in Hub, a step of a handler is what it does between two points where *)
(* another goroutine can interfere: one SQL statement or transaction, one  *)
(* access to the hub's map, one written frame.  A contact list is read in  *)
(* three statements and written in a fourth step.  Connections are as in   *)
(* Hub, but only what decides who is told what is kept of them: the token  *)
(* exchange is part of Connect, and the pending messages that follow the   *)
(* contact list in sendBootstrap, the messages and the history leave this  *)
(* state alone.  Accounts do not change; a request that names nobody, or   *)
(* the user who makes it, is refused before it changes anything.  Lists    *)
(* are sets here: their order is by name or by a clock of seconds.         *)
(***************************************************************************)
CONSTANTS
    User,       \* rows of the users table
    Conn,       \* clientConn objects
    Owner,      \* the user each connection authenticates as
    NoUser,     \* no peer
    NoConn      \* the nil *clientConn

ASSUME OwnerAssumption == Owner \in [Conn -> User]
ASSUME NullAssumption == NoUser \notin User /\ NoConn \notin Conn

VARIABLES
    requests,   \* friend_requests: <<from, to>>
    friends,    \* friends: <<user, friend>>
    clients,    \* Hub.clients
    closed,     \* clientConn.closed
    link,       \* is the client still at the other end of the connection?
    pc,         \* where the handler of a connection stands
    job,        \* the packet it handles
    peer,       \* the other user named in that packet
    target,     \* the connection whose contact list it is preparing
    draft,      \* the contact list read so far
    view,       \* the contact list the client of a connection shows, if there
    told        \* the users whose requests that client has been told of

tableVars   == <<requests, friends>>
connVars    == <<clients, closed, link>>
handlerVars == <<pc, job, peer, target, draft>>
clientVars  == <<view, told>>
vars        == <<tableVars, connVars, handlerVars, clientVars>>

-----------------------------------------------------------------------------
Querying == {"friends", "incoming", "outgoing"}
Listing  == Querying \cup {"write"}
Serving  == Listing \cup {"read", "packet", "insert", "self", "peer", "notify", "unregister"}
Stage    == {"off", "close"} \cup Serving
Contacts == [friends : SUBSET User, incoming : SUBSET User, outgoing : SUBSET User]
Blank    == [friends |-> {}, incoming |-> {}, outgoing |-> {}]

(* ListFriends, ListOutgoingFriendRequests, ListIncomingFriendRequests.     *)
(* Mutant of the last: the columns are swapped.                             *)
FriendsOf(u)  == {v \in User : <<u, v>> \in friends}
OutgoingOf(u) == {v \in User : <<u, v>> \in requests}
IncomingSwapped(u) == OutgoingOf(u)
IncomingOf(u) == {v \in User : <<v, u>> \in requests}

Gone(c) == closed[c] \/ ~link[c]

(* The transaction of AcceptFriendRequest goes through if the request is    *)
(* there and the two rows are not (primary key).  Mutant: without the test  *)
(* of RowsAffected.                                                         *)
AcceptsBlind(u, v) == <<u, v>> \notin friends
Accepts(u, v) == <<v, u>> \in requests /\ <<u, v>> \notin friends

(* Where a handler goes once it has tried to send a contact list: to the    *)
(* other user after its own list, else back to the read loop.               *)
AfterList(c) ==
    IF job[c] # "bootstrap" /\ Owner[target[c]] = Owner[c] THEN "peer" ELSE "read"

(* clientForUser, for the recipient of a friend request.  Mutant: a         *)
(* connection that has not finished its bootstrap counts as offline.        *)
AnnouncedReady(u) ==
    LET t == clients[u] IN
    IF t # NoConn /\ job[t] = "bootstrap" THEN NoConn ELSE t
Announced(u) == clients[u]

Init ==
    /\ requests = {} /\ friends = {}
    /\ clients = [u \in User |-> NoConn]
    /\ closed = [c \in Conn |-> FALSE]
    /\ link = [c \in Conn |-> FALSE]
    /\ pc = [c \in Conn |-> "off"]
    /\ job = [c \in Conn |-> "none"]
    /\ peer = [c \in Conn |-> NoUser]
    /\ target = [c \in Conn |-> NoConn]
    /\ draft = [c \in Conn |-> Blank]
    /\ view = [c \in Conn |-> Blank]
    /\ told = [c \in Conn |-> {}]

GoTo(c, stage) == pc' = [pc EXCEPT ![c] = stage]

(* The handler is done with its packet, or with its bootstrap. *)
Finish(c, stage) ==
    /\ GoTo(c, stage)
    /\ job' = [job EXCEPT ![c] = "none"]
    /\ peer' = [peer EXCEPT ![c] = NoUser]
    /\ target' = [target EXCEPT ![c] = NoConn]
    /\ draft' = [draft EXCEPT ![c] = Blank]

ListOver(c) ==
    IF AfterList(c) = "read"
    THEN Finish(c, "read")
    ELSE /\ GoTo(c, "peer")
         /\ target' = [target EXCEPT ![c] = NoConn]
         /\ draft' = [draft EXCEPT ![c] = Blank]
         /\ UNCHANGED <<job, peer>>

(* The clients of these connections show nothing any more. *)
ClientsLeave(C) ==
    /\ view' = [c \in Conn |-> IF c \in C THEN Blank ELSE view[c]]
    /\ told' = [c \in Conn |-> IF c \in C THEN {} ELSE told[c]]

-----------------------------------------------------------------------------
(* Connections *)

(* A connection that nothing refers to is accepted, authenticated and       *)
(* registered, which closes the user's previous one; sendBootstrap begins.  *)
(* The handler of the previous one may have read a packet that it has yet   *)
(* to handle; while a connection is open, nothing depends on that.          *)
Connect(c) ==
    LET u == Owner[c] IN
    /\ pc[c] = "off" /\ \A d \in Conn : target[d] # c
    /\ clients' = [clients EXCEPT ![u] = c]
    /\ closed' = [d \in Conn |-> d # c /\ (closed[d] \/ d = clients[u])]
    /\ link' = [d \in Conn |-> d = c \/ (link[d] /\ d # clients[u])]
    /\ \E stage \in {"read", "packet"} :
         pc' = [d \in Conn |-> IF d = c THEN "friends"
                               ELSE IF d = clients[u] /\ pc[d] = "read" THEN stage
                               ELSE pc[d]]
    /\ job' = [job EXCEPT ![c] = "bootstrap"]
    /\ target' = [target EXCEPT ![c] = c]
    /\ ClientsLeave({clients[u]})
    /\ UNCHANGED <<tableVars, peer, draft>>

(* The handler has a packet, read while the connection was open. *)
HasPacket(c) == pc[c] = "packet" \/ (pc[c] = "read" /\ ~closed[c])

(* A packet that is refused: on an open connection, that changes nothing. *)
PacketRefused(c) ==
    /\ pc[c] = "packet"
    /\ GoTo(c, "read")
    /\ UNCHANGED <<tableVars, connVars, job, peer, target, draft, clientVars>>

ReadFails(c) ==
    /\ pc[c] = "read" /\ Gone(c)
    /\ GoTo(c, "unregister")
    /\ UNCHANGED <<tableVars, connVars, job, peer, target, draft, clientVars>>

Unregister(c) ==
    /\ pc[c] = "unregister"
    /\ clients' = [u \in User |->
                     IF u = Owner[c] /\ clients[u] = c THEN NoConn ELSE clients[u]]
    /\ GoTo(c, "close")
    /\ UNCHANGED <<tableVars, closed, link, job, peer, target, draft, clientVars>>

Close(c) ==
    /\ pc[c] = "close"
    /\ closed' = [closed EXCEPT ![c] = TRUE]
    /\ link' = [link EXCEPT ![c] = FALSE]
    /\ GoTo(c, "off")
    /\ ClientsLeave({c})
    /\ UNCHANGED <<tableVars, clients, job, peer, target, draft>>

LinkLost(c) ==
    /\ link[c]
    /\ link' = [link EXCEPT ![c] = FALSE]
    /\ ClientsLeave({c})
    /\ UNCHANGED <<tableVars, clients, closed, handlerVars>>

(* The server process stops and is started again. *)
Restart ==
    /\ clients' = [u \in User |-> NoConn]
    /\ closed' = [c \in Conn |-> closed[c] \/ pc[c] # "off"]
    /\ link' = [c \in Conn |-> FALSE]
    /\ pc' = [c \in Conn |-> "off"]
    /\ job' = [c \in Conn |-> "none"]
    /\ peer' = [c \in Conn |-> NoUser]
    /\ target' = [c \in Conn |-> NoConn]
    /\ draft' = [c \in Conn |-> Blank]
    /\ ClientsLeave(Conn)
    /\ UNCHANGED tableVars

-----------------------------------------------------------------------------
(* FRIEND_REQUEST *)

(* SendFriendRequest finds that the two are not friends yet. *)
CheckRequest(c, v) ==
    /\ HasPacket(c)
    /\ v # Owner[c] /\ <<Owner[c], v>> \notin friends
    /\ job' = [job EXCEPT ![c] = "request"]
    /\ peer' = [peer EXCEPT ![c] = v]
    /\ GoTo(c, "insert")
    /\ UNCHANGED <<tableVars, connVars, target, draft, clientVars>>

InsertRequest(c) ==
    /\ pc[c] = "insert" /\ <<Owner[c], peer[c]>> \notin requests
    /\ requests' = requests \cup {<<Owner[c], peer[c]>>}
    /\ GoTo(c, "self")
    /\ UNCHANGED <<friends, connVars, job, peer, target, draft, clientVars>>

(* The request is there already, or the statement fails. *)
InsertFails(c) ==
    /\ pc[c] = "insert"
    /\ Finish(c, "read")
    /\ UNCHANGED <<tableVars, connVars, clientVars>>

-----------------------------------------------------------------------------
(* ACCEPT_FRIEND_REQUEST: one transaction.  If it is not accepted, or not   *)
(* committed, it changes nothing.                                           *)
AcceptRequest(c, v) ==
    LET u == Owner[c] IN
    /\ HasPacket(c)
    /\ Accepts(u, v)
    /\ requests' = requests \ {<<v, u>>}
    /\ friends' = friends \cup {<<u, v>>, <<v, u>>}
    /\ job' = [job EXCEPT ![c] = "accept"]
    /\ peer' = [peer EXCEPT ![c] = v]
    /\ GoTo(c, "self")
    /\ UNCHANGED <<connVars, target, draft, clientVars>>

-----------------------------------------------------------------------------
(* refreshContacts, sendContacts, and the announcement of a request *)

(* refreshContacts for the user of the handler itself. *)
LookupSelf(c) ==
    LET t == clients[Owner[c]] IN
    /\ pc[c] = "self"
    /\ target' = [target EXCEPT ![c] = t]
    /\ GoTo(c, IF t = NoConn THEN "peer" ELSE "friends")
    /\ UNCHANGED <<tableVars, connVars, job, peer, draft, clientVars>>

(* clientForUser for the other user: to announce a request to them, or to   *)
(* refresh their contacts after an acceptance.                              *)
LookupPeer(c) ==
    LET t == IF job[c] = "request" THEN Announced(peer[c]) ELSE clients[peer[c]] IN
    /\ pc[c] = "peer"
    /\ IF t = NoConn
       THEN Finish(c, "read")
       ELSE /\ target' = [target EXCEPT ![c] = t]
            /\ GoTo(c, IF job[c] = "request" THEN "notify" ELSE "friends")
            /\ UNCHANGED <<job, peer, draft>>
    /\ UNCHANGED <<tableVars, connVars, clientVars>>

QueryFriends(c) ==
    /\ pc[c] = "friends"
    /\ draft' = [draft EXCEPT ![c].friends = FriendsOf(Owner[target[c]])]
    /\ GoTo(c, "incoming")
    /\ UNCHANGED <<tableVars, connVars, job, peer, target, clientVars>>

QueryIncoming(c) ==
    /\ pc[c] = "incoming"
    /\ draft' = [draft EXCEPT ![c].incoming = IncomingOf(Owner[target[c]])]
    /\ GoTo(c, "outgoing")
    /\ UNCHANGED <<tableVars, connVars, job, peer, target, clientVars>>

QueryOutgoing(c) ==
    /\ pc[c] = "outgoing"
    /\ draft' = [draft EXCEPT ![c].outgoing = OutgoingOf(Owner[target[c]])]
    /\ GoTo(c, "write")
    /\ UNCHANGED <<tableVars, connVars, job, peer, target, clientVars>>

(* The CONTACTS_RESPONSE: the client replaces its lists by it. *)
WriteContacts(c) ==
    LET t == target[c] IN
    /\ pc[c] = "write" /\ ~closed[t]
    /\ view' = [view EXCEPT ![t] = IF link[t] THEN draft[c] ELSE @]
    /\ told' = [told EXCEPT ![t] = IF link[t] THEN @ \cup draft[c].incoming ELSE @]
    /\ ListOver(c)
    /\ UNCHANGED <<tableVars, connVars>>

(* A query fails, or the write does: a bootstrap ends the connection, a     *)
(* refresh only logs it.                                                    *)
ListFails(c) ==
    /\ pc[c] \in Querying \/ (pc[c] = "write" /\ Gone(target[c]))
    /\ IF job[c] = "bootstrap" THEN Finish(c, "unregister") ELSE ListOver(c)
    /\ UNCHANGED <<tableVars, connVars, clientVars>>

(* FRIEND_REQUEST_RECEIVED: the client adds the name to its incoming list.  *)
Notify(c) ==
    LET t == target[c] IN
    /\ pc[c] = "notify" /\ ~closed[t]
    /\ view' = [view EXCEPT ![t].incoming = IF link[t] THEN @ \cup {Owner[c]} ELSE @]
    /\ told' = [told EXCEPT ![t] = IF link[t] THEN @ \cup {Owner[c]} ELSE @]
    /\ Finish(c, "read")
    /\ UNCHANGED <<tableVars, connVars>>

NotifyFails(c) ==
    /\ pc[c] = "notify" /\ Gone(target[c])
    /\ Finish(c, "read")
    /\ UNCHANGED <<tableVars, connVars, clientVars>>

-----------------------------------------------------------------------------
HandlerStep(c) ==
    \/ PacketRefused(c) \/ ReadFails(c) \/ Unregister(c) \/ Close(c)
    \/ InsertRequest(c) \/ InsertFails(c)
    \/ LookupSelf(c) \/ LookupPeer(c)
    \/ QueryFriends(c) \/ QueryIncoming(c) \/ QueryOutgoing(c)
    \/ WriteContacts(c) \/ ListFails(c) \/ Notify(c) \/ NotifyFails(c)

PeerStep(c) ==
    \/ Connect(c) \/ LinkLost(c)
    \/ \E v \in User : CheckRequest(c, v) \/ AcceptRequest(c, v)

Next == (\E c \in Conn : HandlerStep(c) \/ PeerStep(c)) \/ Restart

Spec == Init /\ [][Next]_vars

-----------------------------------------------------------------------------
(* Properties *)

(* The types of the state. *)
TypeOK ==
    /\ requests \subseteq User \X User
    /\ friends \subseteq User \X User
    /\ clients \in [User -> Conn \cup {NoConn}]
    /\ closed \in [Conn -> BOOLEAN]
    /\ link \in [Conn -> BOOLEAN]
    /\ pc \in [Conn -> Stage]
    /\ job \in [Conn -> {"none", "bootstrap", "request", "accept"}]
    /\ peer \in [Conn -> User \cup {NoUser}]
    /\ target \in [Conn -> Conn \cup {NoConn}]
    /\ draft \in [Conn -> Contacts]
    /\ view \in [Conn -> Contacts]
    /\ told \in [Conn -> SUBSET User]

(* The names on a contact list of user u are there for a reason.            *)
Justified(list, u) ==
    /\ \A v \in list.friends : <<u, v>> \in friends
    /\ \A v \in list.incoming : <<v, u>> \in requests \cup friends
    /\ \A v \in list.outgoing : <<u, v>> \in requests \cup friends

(* What a client shows was so once, although it is put together from three  *)
(* queries and a notice and may be overtaken: the friends it shows are      *)
(* friends, and the requests it shows are still there or were accepted      *)
(* (hub.go, sendContacts and handleFriendRequest).                          *)
ViewJustified == \A c \in Conn : Justified(view[c], Owner[c])

(* The client of c is going to be told of the request of u by the handler   *)
(* that made it.                                                            *)
WillBeTold(c, u) ==
    \E d \in Conn :
        /\ Owner[d] = u /\ job[d] = "request" /\ peer[d] = Owner[c]
        /\ \/ pc[d] \in Listing \cup {"self", "peer"}
           \/ pc[d] = "notify" /\ target[d] = c

(* The client of c is there and in the map, and c has not given up. *)
Attended(c) == pc[c] \in Serving \ {"unregister"} /\ ~closed[c] /\ link[c]

(* No request falls between the bootstrap and the notice: once a connected  *)
(* client has its contact list, it has been told of every pending request   *)
(* to its user, or is about to be.  It rests on sendBootstrap reading the   *)
(* tables after register, and on handleFriendRequest looking the recipient  *)
(* up after the insertion (hub.go).                                         *)
RequestsAnnounced ==
    \A c \in Conn, u \in User :
        <<u, Owner[c]>> \in requests /\ Attended(c) /\ job[c] # "bootstrap"
        => u \in told[c] \/ WillBeTold(c, u)

(* What the stage of a handler says of the rest of its state. *)
HandlerShape ==
    \A c \in Conn :
        /\ target[c] # NoConn <=> pc[c] \in Listing \cup {"notify"}
        /\ target[c] = NoConn => draft[c] = Blank
        /\ pc[c] \in {"off", "close", "read", "packet", "unregister"} => job[c] = "none"
        /\ pc[c] \in {"insert", "notify"} => job[c] = "request"
        /\ pc[c] \in {"self", "peer"} => job[c] \in {"request", "accept"}
        /\ pc[c] \in Listing => job[c] # "none"
        /\ job[c] \in {"request", "accept"} => peer[c] \in User
        /\ job[c] = "bootstrap" => target[c] = c
        /\ job[c] = "request" /\ pc[c] \in Listing => Owner[target[c]] = Owner[c]
        /\ pc[c] = "notify" => Owner[target[c]] = peer[c]
        /\ pc[c] = "insert" => peer[c] # Owner[c]

(* The map and the handlers agree, as in Hub. *)
RegistryConsistent ==
    /\ \A u \in User : clients[u] # NoConn => Owner[clients[u]] = u
    /\ \A c \in Conn : pc[c] \in Serving /\ ~closed[c] => clients[Owner[c]] = c

(* The tables, and what the handlers have read or done to them. *)
TablesAndDrafts ==
    /\ \A u, v \in User : <<u, v>> \in friends => <<v, u>> \in friends
    /\ \A c \in Conn : target[c] # NoConn => Justified(draft[c], Owner[target[c]])
    /\ \A c \in Conn : job[c] = "request" /\ pc[c] # "insert"
                         => <<Owner[c], peer[c]>> \in requests \cup friends

(* RequestsAnnounced, from the beginning of the bootstrap. *)
NoRequestMissed ==
    \A c \in Conn, u \in User :
        <<u, Owner[c]>> \in requests /\ Attended(c)
        => \/ u \in told[c] \/ WillBeTold(c, u)
           \/ job[c] = "bootstrap" /\ pc[c] \in {"friends", "incoming"}
           \/ job[c] = "bootstrap" /\ u \in draft[c].incoming

(* The inductive invariant. *)
FriendsInv ==
    /\ TypeOK
    /\ HandlerShape
    /\ RegistryConsistent
    /\ TablesAndDrafts
    /\ ViewJustified
    /\ NoRequestMissed

(* As the chat view says under the incoming requests, pressing Enter on one *)
(* accepts it: a request that is pending can be accepted.                   *)
PendingIsAcceptable ==
    \A u, v \in User : <<v, u>> \in requests => <<u, v>> \notin friends

-----------------------------------------------------------------------------
(* The two tables implement the friend book: friendship comes from a        *)
(* request of the one and the consent of the other, holds for both, and     *)
(* lasts; a request lasts until then (friends.go, sqlite.go).               *)
Bond(p) ==
    IF p \in friends THEN "friends" ELSE IF p \in requests THEN "asked" ELSE "none"

Book == INSTANCE FriendBook WITH bond <- [p \in User \X User |-> Bond(p)]

FriendBookSpec == Book!Spec

=============================================================================
