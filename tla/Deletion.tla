------------------------------ MODULE Deletion ------------------------------
(***************************************************************************)
(* Messages under way while accounts are deleted: the rows of messages and *)
(* the ids of users may be given out again, and the handlers of chat       *)
(* connections hold on to both between their statements.                   *)
(*                                                                         *)
(* As in Accounts, an account is a user id and how many users have had it; *)
(* likewise a message is a message_id and how many messages have had it,   *)
(* as that column, too, is an INTEGER PRIMARY KEY without AUTOINCREMENT.   *)
(* The code knows the ids only.  As in Hub, a step of a handler is what it *)
(* does between two points where another goroutine can interfere.  Who may *)
(* delete is in Accounts, who are friends in Friends: here an account that *)
(* exists may befriend any other.  A restart and oversized messages are in *)
(* Hub.                                                                    *)
(***************************************************************************)
EXTENDS Integers

CONSTANTS
    MaxUser,    \* bound: user ids are 1 .. MaxUser
    MaxRow,     \* bound: message ids are 1 .. MaxRow
    MaxLife,    \* bound: so many users, or messages, may have the same id in turn
    Conn,       \* chat connections
    NoConn, NoRow

ASSUME DeletionAssumption ==
    MaxUser \in Nat /\ MaxRow \in Nat /\ MaxLife \in Nat /\ NoConn \notin Conn

VARIABLES
    existing,   \* users: the ids that have a row
    life,       \* how many users have had each id
    rows,       \* messages: each message with the accounts it is from and to
    count,      \* how many messages have had each message_id
    marked,     \* messages: the message_ids with a delivered_at
    clients,    \* Hub.clients
    closed,     \* connections that are closed, or not made yet
    lost,       \* connections whose client is gone
    stage,      \* where the handler of each connection stands
    account,    \* the account it authenticated as
    to,         \* Send: the account that the addressee's name was found to be
    queue,      \* sendBootstrap: the rows still to be written
    work,       \* the row that the handler has in hand
    target,     \* deliver: the connection it has looked up
    written     \* history: <<message, account it was for, account that got it>>

userVars     == <<existing, life>>
rowVars      == <<rows, count, marked>>
connVars     == <<clients, closed, lost, account>>
handVars     == <<to, queue, work, target>>
deletionVars == <<userVars, rowVars, connVars, stage, handVars, written>>

-----------------------------------------------------------------------------
Id        == 1 .. MaxUser
Account   == Id \X (1 .. MaxLife)
NoAccount == <<0, 0>>
RowId     == 1 .. MaxRow
Mail      == RowId \X (1 .. MaxLife)
Row       == [message : Mail, from : Account, to : Account]

Delivering == {"lookup", "push", "settle"}
Reading    == {"read", "packet", "check", "save"} \cup Delivering
Serving    == {"pending", "drain", "confirm", "leave"} \cup Reading
Stage      == {"off", "register", "close"} \cup Serving

AccountAt(i) == <<i, life[i]>>
Living(a)    == a[1] \in existing /\ life[a[1]] = a[2]
RowIds       == {row.message[1] : row \in rows}
Written      == {w[1] : w \in written}

(* What SQLite gives to a new row: one more than the largest. *)
IsNext(i, taken) == (\A j \in taken : j < i) /\ (i = 1 \/ i - 1 \in taken)

DeletionInit ==
    /\ existing = {} /\ life = [i \in Id |-> 0]
    /\ rows = {} /\ count = [r \in RowId |-> 0] /\ marked = {}
    /\ clients = [i \in Id |-> NoConn] /\ closed = Conn /\ lost = {}
    /\ stage = [c \in Conn |-> "off"]
    /\ account = [c \in Conn |-> NoAccount]
    /\ to = [c \in Conn |-> NoAccount]
    /\ queue = [c \in Conn |-> {}]
    /\ work = [c \in Conn |-> NoRow]
    /\ target = [c \in Conn |-> NoConn]
    /\ written = {}

Goto(c, s) == stage' = [stage EXCEPT ![c] = s]

(* The message in hand is done with. *)
PutDown(c, s) ==
    /\ work' = [work EXCEPT ![c] = NoRow]
    /\ target' = [target EXCEPT ![c] = NoConn]
    /\ Goto(c, s)
    /\ UNCHANGED <<to, queue>>

-----------------------------------------------------------------------------
(* Accounts *)

CreateUser(i) ==
    /\ IsNext(i, existing) /\ life[i] < MaxLife
    /\ existing' = existing \cup {i}
    /\ life' = [life EXCEPT ![i] = @ + 1]
    /\ UNCHANGED <<rowVars, connVars, stage, handVars, written>>

(* What a deletion leaves of messages. *)
Remains(table) ==
    /\ rows' = table
    /\ marked' = marked \cap {row.message[1] : row \in table}
    /\ UNCHANGED <<count, life, connVars, stage, handVars, written>>

(* Of the one transaction, what concerns users and messages. *)
DeleteUser(i) ==
    /\ Remains({row \in rows : row.from[1] # i /\ row.to[1] # i})
    /\ existing' = existing \ {i}

WipeAllData == Remains({}) /\ existing' = {}

-----------------------------------------------------------------------------
(* Connections *)

(* authenticate: the token says which id, and the connection keeps it.      *)
Authenticate(c, i) ==
    /\ stage[c] = "off" /\ \A d \in Conn : target[d] # c
    /\ i \in existing
    /\ account' = [account EXCEPT ![c] = AccountAt(i)]
    /\ closed' = closed \ {c}
    /\ Goto(c, "register")
    /\ UNCHANGED <<userVars, rowVars, clients, lost, handVars, written>>

(* register: the one that is in the map for this id is closed.  Its handler *)
(* may have read a packet that it has yet to pass to Send: "packet".  While *)
(* a connection is open, a handler with a packet is one that reads it now.  *)
Register(c) ==
    LET old == clients[account[c][1]] IN
    /\ stage[c] = "register"
    /\ closed' = closed \cup ({old} \ {NoConn})
    /\ clients' = [clients EXCEPT ![account[c][1]] = c]
    /\ \E s \in {"read", "packet"} :
         stage' = [d \in Conn |-> IF d = c THEN "pending"
                                  ELSE IF d = old /\ stage[d] = "read" THEN s
                                  ELSE stage[d]]
    /\ UNCHANGED <<userVars, rowVars, lost, account, handVars, written>>

(* protocol.Read fails. *)
ReadFails(c) ==
    /\ stage[c] = "read" /\ c \in closed \cup lost
    /\ Goto(c, "leave")
    /\ UNCHANGED <<userVars, rowVars, connVars, handVars, written>>

(* unregister: only a handler that is still in the map removes itself.      *)
Unregister(c) ==
    /\ stage[c] = "leave"
    /\ clients' = [i \in Id |-> IF i = account[c][1] /\ clients[i] = c
                                THEN NoConn ELSE clients[i]]
    /\ Goto(c, "close")
    /\ UNCHANGED <<userVars, rowVars, closed, lost, account, handVars, written>>

\* close; one that cannot be told AUTH_RESPONSE was never registered.
CloseConn(c) ==
    /\ stage[c] \in {"register", "close"}
    /\ closed' = closed \cup {c} /\ lost' = lost \ {c}
    /\ account' = [account EXCEPT ![c] = NoAccount]
    /\ Goto(c, "off")
    /\ UNCHANGED <<userVars, rowVars, clients, handVars, written>>

LinkLost(c) ==
    /\ stage[c] # "off" /\ c \notin lost
    /\ lost' = lost \cup {c}
    /\ UNCHANGED <<userVars, rowVars, clients, closed, account, stage, handVars, written>>

-----------------------------------------------------------------------------
(* Frames, and the UPDATE that follows them *)

CanWrite(c)     == c \notin closed
WriteMayFail(c) == c \in closed \cup lost

(* The frame of a row goes to whoever is at the other end of c.  Mutant: the *)
(* error of a write is dropped.                                              *)
WritesOrDrops(c, row) ==
    written' = IF c \in lost THEN written
               ELSE written \cup {<<row.message, row.to, account[c]>>}
Writes(c, row) == written' = written \cup {<<row.message, row.to, account[c]>>}

(* MarkMessageDelivered, by message_id; there may be no such row any more.  *)
MarkedIds(c) == {work[c].message[1]} \cap RowIds
Marks(c) == marked' = marked \cup MarkedIds(c)

-----------------------------------------------------------------------------
(* sendBootstrap; in which order is in Hub *)

(* ListUndeliveredMessages joins messages with users on the sender. *)
Undelivered(i) ==
    {row \in rows : /\ row.to[1] = i /\ row.message[1] \notin marked
                    /\ row.from[1] \in existing}

ListPending(c) ==
    /\ stage[c] = "pending"
    /\ queue' = [queue EXCEPT ![c] = Undelivered(account[c][1])]
    /\ Goto(c, "drain")
    /\ UNCHANGED <<userVars, rowVars, connVars, to, work, target, written>>

WritePending(c, row) ==
    /\ stage[c] = "drain" /\ row \in queue[c] /\ CanWrite(c)
    /\ Writes(c, row)
    /\ queue' = [queue EXCEPT ![c] = @ \ {row}]
    /\ work' = [work EXCEPT ![c] = row]
    /\ Goto(c, "confirm")
    /\ UNCHANGED <<userVars, rowVars, connVars, to, target>>

MarkPending(c) ==
    /\ stage[c] = "confirm"
    /\ Marks(c)
    /\ PutDown(c, "drain")
    /\ UNCHANGED <<userVars, rows, count, connVars, written>>

BootstrapDone(c) ==
    /\ stage[c] = "drain" /\ queue[c] = {}
    /\ Goto(c, "read")
    /\ UNCHANGED <<userVars, rowVars, connVars, handVars, written>>

(* The contacts, a statement or a frame fails: the connection ends. *)
BootstrapFails(c) ==
    /\ \/ stage[c] \in {"pending", "confirm"}
       \/ stage[c] = "drain" /\ WriteMayFail(c)
    /\ queue' = [queue EXCEPT ![c] = {}]
    /\ work' = [work EXCEPT ![c] = NoRow]
    /\ Goto(c, "leave")
    /\ UNCHANGED <<userVars, rowVars, connVars, to, target, written>>

-----------------------------------------------------------------------------
(* Send and deliver *)

(* A packet that the handler has read, be it that the connection was closed *)
(* since then.                                                              *)
HasPacket(c) == stage[c] = "packet" \/ (stage[c] = "read" /\ c \notin closed)

\* GetUserByUsername, which is an account then.
FindAddressee(c, i) ==
    /\ HasPacket(c)
    /\ i \in existing \ {account[c][1]}
    /\ to' = [to EXCEPT ![c] = AccountAt(i)]
    /\ Goto(c, "check")
    /\ UNCHANGED <<userVars, rowVars, connVars, queue, work, target, written>>

(* AreFriends, by id: either account may be another one's successor by now. *)
(* A friendship goes with each of the two.                                  *)
AreFriends(c) ==
    /\ stage[c] = "check" /\ {account[c][1], to[c][1]} \subseteq existing
    /\ Goto(c, "save")
    /\ UNCHANGED <<userVars, rowVars, connVars, handVars, written>>

(* SaveMessage.  Foreign keys are enforced on one connection of the pool, so *)
(* that the row may be inserted although one of the two is gone.             *)
SaveMessage(c, r) ==
    LET row == [message |-> <<r, count[r] + 1>>, from |-> account[c], to |-> to[c]] IN
    /\ stage[c] = "save"
    /\ IsNext(r, RowIds) /\ count[r] < MaxLife
    /\ rows' = rows \cup {row}
    /\ count' = [count EXCEPT ![r] = @ + 1]
    /\ work' = [work EXCEPT ![c] = row]
    /\ to' = [to EXCEPT ![c] = NoAccount]
    /\ Goto(c, "lookup")
    /\ UNCHANGED <<userVars, marked, connVars, queue, target, written>>

(* ... or it is refused, or a statement fails. *)
SendFails(c) ==
    /\ stage[c] \in {"packet", "check", "save"}
    /\ to' = [to EXCEPT ![c] = NoAccount]
    /\ Goto(c, "read")
    /\ UNCHANGED <<userVars, rowVars, connVars, queue, work, target, written>>

(* clientForUser.  Mutants: one still in its bootstrap counts as offline;   *)
(* the sender's connection.                                                 *)
RecipientReady(c) ==
    LET d == clients[work[c].to[1]] IN
    IF d # NoConn /\ stage[d] \in {"pending", "drain", "confirm"} THEN NoConn ELSE d
RecipientSelf(c) == clients[work[c].from[1]]
Recipient(c) == clients[work[c].to[1]]

Lookup(c) ==
    /\ stage[c] = "lookup"
    /\ IF Recipient(c) = NoConn
       THEN PutDown(c, "read")
       ELSE /\ target' = [target EXCEPT ![c] = Recipient(c)]
            /\ Goto(c, "push")
            /\ UNCHANGED <<to, queue, work>>
    /\ UNCHANGED <<userVars, rowVars, connVars, written>>

PushRow(c) ==
    /\ stage[c] = "push" /\ CanWrite(target[c])
    /\ Writes(target[c], work[c])
    /\ target' = [target EXCEPT ![c] = NoConn]
    /\ Goto(c, "settle")
    /\ UNCHANGED <<userVars, rowVars, connVars, to, queue, work>>

PushFails(c) ==
    /\ stage[c] = "push" /\ WriteMayFail(target[c])
    /\ PutDown(c, "read")
    /\ UNCHANGED <<userVars, rowVars, connVars, written>>

MarkDelivered(c) ==
    /\ stage[c] = "settle"
    /\ Marks(c)
    /\ PutDown(c, "read")
    /\ UNCHANGED <<userVars, rows, count, connVars, written>>

MarkFails(c) ==
    /\ stage[c] = "settle"
    /\ PutDown(c, "read")
    /\ UNCHANGED <<userVars, rowVars, connVars, written>>

-----------------------------------------------------------------------------
UserStep == (\E i \in Id : CreateUser(i) \/ DeleteUser(i)) \/ WipeAllData

ConnStep(c) ==
    \/ \E i \in Id : Authenticate(c, i)
    \/ Register(c) \/ ReadFails(c) \/ Unregister(c) \/ CloseConn(c) \/ LinkLost(c)

BootstrapStep(c) ==
    \/ ListPending(c) \/ MarkPending(c) \/ BootstrapDone(c) \/ BootstrapFails(c)
    \/ \E row \in queue[c] : WritePending(c, row)

DeliverStep(c) ==
    \/ \E i \in Id : FindAddressee(c, i)
    \/ AreFriends(c)
    \/ \E r \in RowId : SaveMessage(c, r)
    \/ SendFails(c) \/ Lookup(c) \/ PushRow(c) \/ PushFails(c) \/ MarkDelivered(c) \/ MarkFails(c)

DeletionNext ==
    UserStep \/ \E c \in Conn : ConnStep(c) \/ BootstrapStep(c) \/ DeliverStep(c)

DeletionSpec == DeletionInit /\ [][DeletionNext]_deletionVars

-----------------------------------------------------------------------------
(* Properties *)

(* The types of the state. *)
DeletionTypeOK ==
    /\ existing \subseteq Id /\ life \in [Id -> 0 .. MaxLife]
    /\ rows \subseteq Row /\ count \in [RowId -> 0 .. MaxLife] /\ marked \subseteq RowIds
    /\ clients \in [Id -> Conn \cup {NoConn}]
    /\ closed \subseteq Conn /\ lost \subseteq Conn
    /\ stage \in [Conn -> Stage]
    /\ account \in [Conn -> Account \cup {NoAccount}]
    /\ to \in [Conn -> Account \cup {NoAccount}]
    /\ queue \in [Conn -> SUBSET Row]
    /\ work \in [Conn -> Row \cup {NoRow}]
    /\ target \in [Conn -> Conn \cup {NoConn}]
    /\ written \subseteq Mail \X Account \X Account

(* A row that is marked delivered was written to somebody, whatever was     *)
(* deleted between the write and the mark, if its message_id had not been   *)
(* another message's before (hub.go, deliver and sendBootstrap).  Where it  *)
(* had, a late mark for the older message falls upon the new one.           *)
MarkedWasWritten ==
    \A row \in rows :
        row.message[1] \in marked /\ row.message[2] = 1 => row.message \in Written

(* A handler is going to push the row to c. *)
OnItsWay(row, c) ==
    \E d \in Conn :
        /\ work[d] = row
        /\ \/ stage[d] = "lookup"
           \/ stage[d] = "push" /\ target[d] = c

(* Deletions and new users with old ids strand no message between the two   *)
(* paths: one to the id of a connection that has its bootstrap behind it    *)
(* and its client there, from an account that lives, and never written, is  *)
(* in the hands of a handler that will find that connection; if again its   *)
(* message_id is new.  The sender has to live as ListUndeliveredMessages    *)
(* joins with the users (hub.go, sqlite.go).                                *)
NoneStranded ==
    \A c \in Conn, row \in rows :
        /\ stage[c] \in Reading /\ c \notin closed \cup lost
        /\ row.to[1] = account[c][1] /\ Living(row.from)
        /\ row.message[2] = 1 /\ row.message \notin Written
        => OnItsWay(row, c)

(* A message reaches another account than the one it was for only if one of *)
(* the two has been deleted: a row that is inserted late goes to the next   *)
(* user of the id, a connection that stays open gets what is for the next.  *)
(* Otherwise ids do as well as accounts, in rows, queues and lookups        *)
(* (hub.go, deliver and sendBootstrap).                                     *)
ReadByAddressee ==
    \A w \in written : w[2] = w[3] \/ ~Living(w[2]) \/ ~Living(w[3])

=============================================================================
