-------------------------------- MODULE Hub --------------------------------
(***************************************************************************)
(* The chat hub of bytechat-server: the map from users to their chat       *)
(* connections, the goroutine (handleConn) that serves each connection,    *)
(* and the delivery of messages through the messages table.                *)
(*                                                                         *)
(* What one handler does between two points where another goroutine can    *)
(* interfere is one action:                                                *)
(*   - register and unregister run under h.mu, clientForUser under its     *)
(*     read lock; each is one step;                                        *)
(*   - a writePacket runs under the connection's own mutex, which close    *)
(*     takes too; it is one step, and writes all of its frame or nothing   *)
(*     (who waits for these mutexes is not a question of this module);     *)
(*   - every statement sent to SQLite is one step and may fail             *)
(*     (SQLITE_BUSY: no busy_timeout is set on the pool).                  *)
(*                                                                         *)
(* Abstractions.  A message is its message_id; bodies are not represented, *)
(* except that the RECEIVE_MESSSAGE frame of the messages in Oversize is   *)
(* longer than protocol.MaxFrameSize although the SEND_MESSAGE frame that  *)
(* carried them was not (it has other fields).  The order of the pending   *)
(* rows is left open: created_at counts seconds, and rows of the same      *)
(* second have no order.  Accounts and friendships do not change here.     *)
(* The history, friend-request and accept packets leave this state alone.  *)
(***************************************************************************)
CONSTANTS
    User,       \* rows of the users table
    Conn,       \* clientConn objects (one per accepted TCP connection)
    Message,    \* message ids
    Friends,    \* the friends table, as a symmetric relation
    Holds,      \* the users whose session token the client of a connection has
    Oversize,   \* messages whose RECEIVE_MESSSAGE frame exceeds MaxFrameSize
    NoUser,     \* userID of a connection that has not authenticated
    NoConn,     \* the nil *clientConn
    NoMsg       \* no message in hand

ASSUME NullAssumption ==
    NoUser \notin User /\ NoConn \notin Conn /\ NoMsg \notin Message

ASSUME FriendsAssumption ==
    /\ Friends \subseteq User \X User
    /\ \A u, v \in User : <<u, v>> \in Friends => <<v, u>> \in Friends

ASSUME HoldsAssumption == Holds \in [Conn -> SUBSET User]

ASSUME OversizeAssumption == Oversize \subseteq Message

VARIABLES
    clients,    \* Hub.clients
    pc,         \* where the handler goroutine of a connection stands
    user,       \* clientConn.userID
    closed,     \* clientConn.closed
    queue,      \* sendBootstrap: the rows of `pending' still to be written
    work,       \* the message id the handler has in hand
    target,     \* deliver: the recipient it has looked up
    sender,     \* messages.from_user_id, NoUser while there is no such row
    addressee,  \* messages.to_user_id, NoUser while there is no such row
    delivered,  \* the rows with a delivered_at
    link,       \* is the client still at the other end of the connection?
    written,    \* messages whose frame was written to the connection
    handed      \* messages ever written to some connection

handlerVars == <<clients, pc, user, closed, queue, work, target>>
storeVars   == <<sender, addressee, delivered>>
netVars     == <<link, written, handed>>
vars        == <<handlerVars, storeVars, netVars>>

-----------------------------------------------------------------------------
(* The stages of handleConn, in the order they are met.                     *)

Bootstrapping == {"contacts", "pending", "drain", "confirm"}
Delivering    == {"lookup", "push", "settle"}
Serving       == Bootstrapping \cup {"read", "packet", "unregister"} \cup Delivering
Stage         == {"free", "auth", "register", "close", "done"} \cup Serving

Saved(m) == addressee[m] # NoUser

(* A write fails on a closed connection, may fail once the peer is gone,    *)
(* and still succeeds then as long as the kernel takes the bytes.           *)
CanWrite(c) == ~closed[c]
\* Mutant: nothing tells the server that a client has gone.
GoneIfClosed(c) == closed[c]
Gone(c) == closed[c] \/ ~link[c]

(* protocol.Write refuses an oversized frame before it writes a byte.       *)
CanWriteMessage(c, m)     == CanWrite(c) /\ m \notin Oversize
WriteMessageMayFail(c, m) == Gone(c) \/ m \in Oversize

(* The frame of m goes onto c. *)
PutOnWire(c, m) ==
    /\ written' = [written EXCEPT ![c] = @ \cup {m}]
    /\ handed' = handed \cup {m}
    /\ UNCHANGED link

(* ListUndeliveredMessages.  Mutants: without `delivered_at IS NULL'; by     *)
(* from_user_id.                                                            *)
UndeliveredAll(u) == {m \in Message : addressee[m] = u}
UndeliveredFrom(u) == {m \in Message : sender[m] = u /\ m \notin delivered}
Undelivered(u) == {m \in Message : addressee[m] = u /\ m \notin delivered}

(* The rows MarkMessageDelivered updates for the message in hand.  Mutant:  *)
(* every pending row of the user.                                           *)
MarkedAll(c) == {m \in Message : addressee[m] = addressee[work[c]]}
Marked(c) == {work[c]}

(* clientForUser, for the addressee of m.  Mutant: one still in its         *)
(* bootstrap counts as offline.                                             *)
RecipientReady(m) ==
    LET c == clients[addressee[m]] IN
    IF c # NoConn /\ pc[c] \in Bootstrapping THEN NoConn ELSE c
Recipient(m) == clients[addressee[m]]

(* What register closes, and when unregister removes the entry.  Mutant of  *)
(* the latter: whenever the user has one.                                   *)
Replaced(c) == {clients[user[c]]}
IsAnyEntry(c) == clients[user[c]] # NoConn
IsEntry(c) == clients[user[c]] = c

Init ==
    /\ clients = [u \in User |-> NoConn]
    /\ pc = [c \in Conn |-> "free"]
    /\ user = [c \in Conn |-> NoUser]
    /\ closed = [c \in Conn |-> FALSE]
    /\ queue = [c \in Conn |-> {}]
    /\ work = [c \in Conn |-> NoMsg]
    /\ target = [c \in Conn |-> NoConn]
    /\ sender = [m \in Message |-> NoUser]
    /\ addressee = [m \in Message |-> NoUser]
    /\ delivered = {}
    /\ link = [c \in Conn |-> FALSE]
    /\ written = [c \in Conn |-> {}]
    /\ handed = {}

GoTo(c, stage) == pc' = [pc EXCEPT ![c] = stage]

-----------------------------------------------------------------------------
(* Accepting a connection, and the garbage collection of the old ones.      *)

(* ListenTCP hands a new connection to a goroutine of its own. *)
Accept(c) ==
    /\ pc[c] = "free"
    /\ GoTo(c, "auth")
    /\ link' = [link EXCEPT ![c] = TRUE]
    /\ UNCHANGED <<clients, user, closed, queue, work, target, storeVars,
                   written, handed>>

(* A clientConn nothing refers to any more is collected, and stands for a   *)
(* later connection from then on.                                           *)
Collect(c) ==
    /\ pc[c] = "done"
    /\ \A d \in Conn : target[d] # c
    /\ GoTo(c, "free")
    /\ user' = [user EXCEPT ![c] = NoUser]
    /\ closed' = [closed EXCEPT ![c] = FALSE]
    /\ UNCHANGED <<clients, queue, work, target, storeVars, netVars>>

-----------------------------------------------------------------------------
(* authenticate *)

(* The token names user u, and the AUTH_RESPONSE is written. *)
Authenticate(c, u) ==
    /\ pc[c] = "auth" /\ u \in Holds[c]
    /\ user' = [user EXCEPT ![c] = u]
    /\ GoTo(c, "register")
    /\ UNCHANGED <<clients, closed, queue, work, target, storeVars, netVars>>

(* No REQUEST_AUTH arrives, its token is unknown, or the store fails. *)
AuthRejected(c) ==
    /\ pc[c] = "auth"
    /\ GoTo(c, "close")
    /\ UNCHANGED <<clients, user, closed, queue, work, target, storeVars, netVars>>

(* The token was good, but the AUTH_RESPONSE cannot be written. *)
AuthReplyFails(c, u) ==
    /\ pc[c] = "auth" /\ u \in Holds[c] /\ ~link[c]
    /\ user' = [user EXCEPT ![c] = u]
    /\ GoTo(c, "close")
    /\ UNCHANGED <<clients, closed, queue, work, target, storeVars, netVars>>

-----------------------------------------------------------------------------
(* register: the user's previous connection is closed and replaced.  Its    *)
(* handler may be waiting in protocol.Read, which fails now, or have read a *)
(* packet that it has yet to pass to Send.  As long as a connection is open *)
(* nothing depends on which of the two it is, and both are "read".          *)
Register(c) ==
    /\ pc[c] = "register"
    /\ \E stage \in {"read", "packet"} :
         pc' = [d \in Conn |-> IF d = c THEN "contacts"
                               ELSE IF d \in Replaced(c) /\ pc[d] = "read" THEN stage
                               ELSE pc[d]]
    /\ closed' = [d \in Conn |-> closed[d] \/ d \in Replaced(c)]
    /\ link' = [d \in Conn |-> link[d] /\ d \notin Replaced(c)]
    /\ clients' = [clients EXCEPT ![user[c]] = c]
    /\ UNCHANGED <<user, queue, work, target, storeVars, written, handed>>

(* unregister: only a handler still in the map removes itself from it. *)
Unregister(c) ==
    /\ pc[c] = "unregister"
    /\ clients' = IF IsEntry(c)
                  THEN [clients EXCEPT ![user[c]] = NoConn]
                  ELSE clients
    /\ GoTo(c, "close")
    /\ UNCHANGED <<user, closed, queue, work, target, storeVars, netVars>>

(* The deferred close, the last thing handleConn does. *)
Close(c) ==
    /\ pc[c] = "close"
    /\ closed' = [closed EXCEPT ![c] = TRUE]
    /\ link' = [link EXCEPT ![c] = FALSE]
    /\ written' = [written EXCEPT ![c] = {}]
    /\ GoTo(c, "done")
    /\ UNCHANGED <<clients, user, queue, work, target, storeVars, handed>>

-----------------------------------------------------------------------------
(* sendBootstrap *)

(* The CONTACTS_RESPONSE frame. *)
SendContacts(c) ==
    /\ pc[c] = "contacts" /\ CanWrite(c)
    /\ GoTo(c, "pending")
    /\ UNCHANGED <<clients, user, closed, queue, work, target, storeVars, netVars>>

ListPending(c) ==
    /\ pc[c] = "pending"
    /\ queue' = [queue EXCEPT ![c] = Undelivered(user[c])]
    /\ GoTo(c, "drain")
    /\ UNCHANGED <<clients, user, closed, work, target, storeVars, netVars>>

(* One turn of the loop over `pending': the frame of m is written. *)
WritePending(c, m) ==
    /\ pc[c] = "drain" /\ m \in queue[c] /\ CanWriteMessage(c, m)
    /\ PutOnWire(c, m)
    /\ queue' = [queue EXCEPT ![c] = @ \ {m}]
    /\ work' = [work EXCEPT ![c] = m]
    /\ GoTo(c, "confirm")
    /\ UNCHANGED <<clients, user, closed, target, storeVars>>

MarkPending(c) ==
    /\ pc[c] = "confirm"
    /\ delivered' = delivered \cup Marked(c)
    /\ work' = [work EXCEPT ![c] = NoMsg]
    /\ GoTo(c, "drain")
    /\ UNCHANGED <<clients, user, closed, queue, target, sender, addressee, netVars>>

BootstrapDone(c) ==
    /\ pc[c] = "drain" /\ queue[c] = {}
    /\ GoTo(c, "read")
    /\ UNCHANGED <<clients, user, closed, queue, work, target, storeVars, netVars>>

(* Any error ends the bootstrap, and the connection with it: a statement    *)
(* that fails, a frame that cannot be written.                              *)
BootstrapFails(c) ==
    /\ \/ pc[c] \in {"contacts", "pending", "confirm"}
       \/ pc[c] = "drain" /\ \E m \in queue[c] : WriteMessageMayFail(c, m)
    /\ queue' = [queue EXCEPT ![c] = {}]
    /\ work' = [work EXCEPT ![c] = NoMsg]
    /\ GoTo(c, "unregister")
    /\ UNCHANGED <<clients, user, closed, target, storeVars, netVars>>

-----------------------------------------------------------------------------
(* The read loop, and deliver *)

(* A SEND_MESSAGE from this connection to v, read from it while it was open *)
(* (see Register), which Send accepts and stores as message m.              *)
SaveMessage(c, v, m) ==
    /\ pc[c] = "packet" \/ (pc[c] = "read" /\ ~closed[c])
    /\ v # user[c] /\ <<user[c], v>> \in Friends
    /\ ~Saved(m)
    /\ sender' = [sender EXCEPT ![m] = user[c]]
    /\ addressee' = [addressee EXCEPT ![m] = v]
    /\ work' = [work EXCEPT ![c] = m]
    /\ GoTo(c, "lookup")
    /\ UNCHANGED <<clients, user, closed, queue, target, delivered, netVars>>

(* Send rejects the packet or cannot store it: the error is logged, and the *)
(* handler reads on.  On an open connection that is no step: a packet that  *)
(* changes nothing.                                                         *)
SendFails(c) ==
    /\ pc[c] = "packet"
    /\ GoTo(c, "read")
    /\ UNCHANGED <<clients, user, closed, queue, work, target, storeVars, netVars>>

(* clientForUser: without a connection the row stays as it is. *)
Lookup(c) ==
    LET recipient == Recipient(work[c]) IN
    /\ pc[c] = "lookup"
    /\ target' = [target EXCEPT ![c] = recipient]
    /\ IF recipient = NoConn
       THEN GoTo(c, "read") /\ work' = [work EXCEPT ![c] = NoMsg]
       ELSE GoTo(c, "push") /\ UNCHANGED work
    /\ UNCHANGED <<clients, user, closed, queue, storeVars, netVars>>

(* The RECEIVE_MESSSAGE frame goes to the connection found by Lookup, which *)
(* may have been replaced or have lost its client in the meantime.          *)
Push(c) ==
    /\ pc[c] = "push" /\ CanWriteMessage(target[c], work[c])
    /\ PutOnWire(target[c], work[c])
    /\ target' = [target EXCEPT ![c] = NoConn]
    /\ GoTo(c, "settle")
    /\ UNCHANGED <<clients, user, closed, queue, work, storeVars>>

PushFails(c) ==
    /\ pc[c] = "push" /\ WriteMessageMayFail(target[c], work[c])
    /\ target' = [target EXCEPT ![c] = NoConn]
    /\ work' = [work EXCEPT ![c] = NoMsg]
    /\ GoTo(c, "read")
    /\ UNCHANGED <<clients, user, closed, queue, storeVars, netVars>>

MarkDelivered(c) ==
    /\ pc[c] = "settle"
    /\ delivered' = delivered \cup Marked(c)
    /\ work' = [work EXCEPT ![c] = NoMsg]
    /\ GoTo(c, "read")
    /\ UNCHANGED <<clients, user, closed, queue, target, sender, addressee, netVars>>

(* The UPDATE fails: the error is logged, the row stays undelivered. *)
MarkFails(c) ==
    /\ pc[c] = "settle"
    /\ work' = [work EXCEPT ![c] = NoMsg]
    /\ GoTo(c, "read")
    /\ UNCHANGED <<clients, user, closed, queue, target, storeVars, netVars>>

(* protocol.Read fails: the connection is closed or its client is gone. *)
ReadFails(c) ==
    /\ pc[c] = "read" /\ Gone(c)
    /\ GoTo(c, "unregister")
    /\ UNCHANGED <<clients, user, closed, queue, work, target, storeVars, netVars>>

-----------------------------------------------------------------------------
(* The network, the clients, and the server process *)

(* The client quits, or the network drops the connection. *)
LinkLost(c) ==
    /\ link[c]
    /\ link' = [link EXCEPT ![c] = FALSE]
    /\ UNCHANGED <<handlerVars, storeVars, written, handed>>

(* The server process stops and is started again: the database survives,    *)
(* the goroutines and the map do not.                                       *)
Restart ==
    /\ clients' = [u \in User |-> NoConn]
    /\ pc' = [c \in Conn |-> IF pc[c] = "free" THEN "free" ELSE "done"]
    /\ closed' = [c \in Conn |-> pc[c] # "free"]
    /\ queue' = [c \in Conn |-> {}]
    /\ work' = [c \in Conn |-> NoMsg]
    /\ target' = [c \in Conn |-> NoConn]
    /\ link' = [c \in Conn |-> FALSE]
    /\ written' = [c \in Conn |-> {}]
    /\ UNCHANGED <<user, storeVars, handed>>

-----------------------------------------------------------------------------
(* What a handler does next without waiting for its client. *)
HandlerStep(c) ==
    \/ Register(c) \/ SendContacts(c) \/ ListPending(c)
    \/ \E m \in Message : WritePending(c, m)
    \/ MarkPending(c) \/ BootstrapDone(c) \/ BootstrapFails(c)
    \/ Lookup(c) \/ Push(c) \/ PushFails(c) \/ MarkDelivered(c) \/ MarkFails(c)
    \/ SendFails(c) \/ ReadFails(c) \/ Unregister(c) \/ Close(c)

(* What the client of a connection or the network make happen. *)
PeerStep(c) ==
    \/ Accept(c) \/ Collect(c)
    \/ \E u \in User : Authenticate(c, u) \/ AuthReplyFails(c, u)
    \/ AuthRejected(c)
    \/ \E v \in User, m \in Message : SaveMessage(c, v, m)
    \/ LinkLost(c)

Next == (\E c \in Conn : HandlerStep(c) \/ PeerStep(c)) \/ Restart

SafeSpec == Init /\ [][Next]_vars

(* Goroutines are scheduled fairly, and every statement and every write     *)
(* returns, with an error or without (that a write can wait for its client  *)
(* is in module HubLocks).  Nothing else is assumed of the clients, the     *)
(* network or the store: they may lose, refuse and fail for ever.           *)
Spec == SafeSpec /\ \A c \in Conn : WF_vars(HandlerStep(c))

-----------------------------------------------------------------------------
(* Properties *)

(* The types of the state. *)
TypeOK ==
    /\ clients \in [User -> Conn \cup {NoConn}]
    /\ pc \in [Conn -> Stage]
    /\ user \in [Conn -> User \cup {NoUser}]
    /\ closed \in [Conn -> BOOLEAN]
    /\ queue \in [Conn -> SUBSET Message]
    /\ work \in [Conn -> Message \cup {NoMsg}]
    /\ target \in [Conn -> Conn \cup {NoConn}]
    /\ sender \in [Message -> User \cup {NoUser}]
    /\ addressee \in [Message -> User \cup {NoUser}]
    /\ delivered \subseteq Message
    /\ link \in [Conn -> BOOLEAN]
    /\ written \in [Conn -> SUBSET Message]
    /\ handed \subseteq Message

(* The map and the handlers agree: a mapped connection is open and served   *)
(* for that very user, and a handler whose connection is still open is the  *)
(* one in the map.  So a user never has two open registered connections,    *)
(* and the late unregister of a replaced handler cannot evict its           *)
(* successor (hub.go, register and unregister).                             *)
RegistryConsistent ==
    /\ \A u \in User : clients[u] # NoConn =>
         /\ user[clients[u]] = u
         /\ pc[clients[u]] \in Serving
         /\ ~closed[clients[u]]
    /\ \A c \in Conn :
         pc[c] \in Serving /\ ~closed[c] => clients[user[c]] = c

(* A message is only ever written to connections authenticated as its       *)
(* addressee, although deliver holds on to the connection it looked up      *)
(* while that one is replaced and closed (hub.go, deliver).                 *)
HandedToAddressee ==
    \A c \in Conn : \A m \in written[c] : addressee[m] = user[c]

(* A row gets its delivered_at only after its frame was written to a        *)
(* connection, on both paths that mark (hub.go, deliver and sendBootstrap). *)
DeliveredWasHanded == delivered \subseteq handed

(* Somebody still has to push m to connection c. *)
OnItsWay(m, c) ==
    \E d \in Conn :
        /\ work[d] = m
        /\ \/ pc[d] = "lookup"
           \/ pc[d] = "push" /\ target[d] = c

(* No message is stranded between the two delivery paths: once a user's     *)
(* connection has finished its bootstrap and its link holds, every message  *)
(* to that user which was never written to a connection is in the hands of  *)
(* a handler that will find that connection.  It rests on sendBootstrap     *)
(* listing the rows after register, and deliver looking the recipient up    *)
(* after SaveMessage (hub.go, handleConn and deliver).                      *)
NoMessageStranded ==
    \A c \in Conn, m \in Message \ (handed \cup Oversize) :
        /\ pc[c] \in {"read"} \cup Delivering /\ ~closed[c] /\ link[c]
        /\ Saved(m) /\ addressee[m] = user[c]
        => OnItsWay(m, c)

(* What the stage of a handler says of the rest of its state. *)
HandlerShape ==
    \A c \in Conn :
        /\ work[c] # NoMsg <=> pc[c] \in {"confirm"} \cup Delivering
        /\ target[c] # NoConn <=> pc[c] = "push"
        /\ queue[c] # {} => pc[c] \in {"drain", "confirm"}
        /\ pc[c] \in {"register"} \cup Serving => user[c] \in User
        /\ pc[c] \in {"free", "auth", "register"} => ~closed[c]
        /\ pc[c] \in {"packet", "done"} => closed[c]
        /\ pc[c] \in {"free", "auth", "register", "done"} => written[c] = {}
        /\ user[c] = NoUser => written[c] = {}

(* The messages the handlers hold are rows of the table, held for the right *)
(* user, and a handler about to mark one has written it.                    *)
HeldForAddressee ==
    /\ \A m \in handed : Saved(m)
    /\ \A c \in Conn :
        /\ \A m \in queue[c] : addressee[m] = user[c]
        /\ pc[c] \in Delivering => Saved(work[c])
        /\ pc[c] \in {"confirm", "settle"} => work[c] \in handed
        /\ pc[c] = "push" =>
             /\ pc[target[c]] \in Serving \cup {"close", "done"}
             /\ user[target[c]] = addressee[work[c]]

(* NoMessageStranded, from the moment the pending rows have been listed. *)
NoMessageMissed ==
    \A c \in Conn, m \in Message \ (handed \cup Oversize) :
        /\ pc[c] \in {"drain", "confirm", "read"} \cup Delivering
        /\ ~closed[c] /\ link[c]
        /\ addressee[m] = user[c]
        => OnItsWay(m, c) \/ m \in queue[c]

(* The inductive invariant. *)
HubInv ==
    /\ TypeOK
    /\ HandlerShape
    /\ RegistryConsistent
    /\ HeldForAddressee
    /\ HandedToAddressee
    /\ DeliveredWasHanded
    /\ NoMessageMissed

(* m is marked delivered and no handler has it in hand or in its queue. *)
Settled(m) ==
    /\ m \in delivered
    /\ \A c \in Conn : m \notin queue[c] /\ work[c] # m

(* A message that is settled stays so: nothing takes it up again, whatever  *)
(* reconnects or restarts follow (sendBootstrap lists undelivered rows).    *)
NoRedelivery == [][\A m \in Message : Settled(m) => Settled(m)']_vars

(* The handler of a connection that was replaced, or whose client is gone,  *)
(* ends: no goroutine and no map entry outlives its connection for ever     *)
(* (hub.go, handleConn).                                                    *)
HandlersEnd ==
    \A c \in Conn :
        pc[c] \in Serving /\ (closed[c] \/ ~link[c]) ~> pc[c] \in {"done", "free"}

(* As the README has it, a message is either pushed to the recipient or     *)
(* delivered when they connect: the bootstrap of a connection does not      *)
(* write a message that was pushed to this connection already.              *)
DeliveredOnce ==
    \A c \in Conn : pc[c] = "drain" => queue[c] \cap written[c] = {}

-----------------------------------------------------------------------------
(* The hub implements the mailbox.                                          *)

MailStatus(m) ==
    CASE ~Saved(m)                     -> "unsent"
      [] m \in delivered               -> "confirmed"
      [] m \in handed \ delivered      -> "handed"
      [] Saved(m) /\ m \notin handed \cup delivered -> "stored"

(* The connection that reaches u: in the map, and its client still there.   *)
MailSession(u) ==
    IF \E c \in Conn : clients[u] = c /\ link[c] THEN clients[u] ELSE NoConn

Mail == INSTANCE Mailbox WITH
    Session   <- Conn,
    NoSession <- NoConn,
    status    <- [m \in Message |-> MailStatus(m)],
    session   <- [u \in User |-> MailSession(u)]

(* Every behaviour of the hub is one of the mailbox: a message is stored,   *)
(* then handed over, then confirmed, and never goes back (hub.go, deliver   *)
(* and sendBootstrap).                                                      *)
MailboxSafety == Mail!SafeSpec

(* Moreover, a message to a user who is and stays online on one connection  *)
(* is handed over, by the bootstrap or by a push, whichever order sender    *)
(* and recipient come in (hub.go, deliver and sendBootstrap).               *)
MailboxSpec == Mail!Spec

=============================================================================
