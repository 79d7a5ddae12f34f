------------------------------ MODULE Accounts ------------------------------
(***************************************************************************)
(* Accounts: the users and sessions tables, the HTTP handlers that create, *)
(* promote, delete and wipe them, and the chat connections that go on      *)
(* while they do.                                                          *)
(*                                                                         *)
(* A step is one SQL statement or transaction.  users.user_id is an        *)
(* INTEGER PRIMARY KEY without AUTOINCREMENT: a new row gets the largest   *)
(* id plus one, so the id of a deleted user is given out again.  An        *)
(* account is a user id and how many users have had it: the code knows the *)
(* id only.  Any statement may fail (no busy timeout is set), and any      *)
(* request may be cancelled by its client: Abandon.  Foreign keys are      *)
(* switched on for one connection of the pool only, so an INSERT that      *)
(* names a missing user may fail or not.                                   *)
(*                                                                         *)
(* Passwords: who logs in as a name knows its password.  How friendships   *)
(* come about and how messages are delivered is in Friends and Hub.        *)
(***************************************************************************)
EXTENDS Integers

CONSTANTS
    Name,       \* usernames
    MaxId,      \* bound: user ids are 1 .. MaxId
    MaxLife,    \* bound: so many users may have the same id in turn
    Req,        \* HTTP requests under way, and -create-admin processes
    Conn,       \* chat connections
    NoName

ASSUME NameAssumption == NoName \notin Name
ASSUME BoundAssumption == MaxId \in Nat /\ MaxLife \in Nat

VARIABLES
    named,      \* users: the username of each id, NoName without a row
    admin,      \* users: is_admin
    life,       \* how many users have had this id
    sessions,   \* sessions somebody holds the token of: the account it is for
    friends,    \* friends: pairs of ids
    messages,   \* messages: <<account that sent it, to_user_id>>
    stage,      \* where a request stands: the next statement
    task,       \* what it is for
    asked,      \* the username it names
    found,      \* the user id it has got, 0 before
    asker,      \* the account it authenticated as, or created, or logged in
    by,         \* the username it authenticated as
    chat,       \* where the handler of a connection stands
    conn,       \* the account a connection authenticated as
    open,       \* the connections that are registered and not closed
    to,         \* the addressee's id in the message a handler is sending
    met,        \* history: pairs of accounts that became friends
    wiped       \* history: was the database ever wiped?

userVars    == <<named, admin, life>>
tableVars   == <<userVars, sessions, friends, messages>>
requestVars == <<stage, task, asked, found, asker, by>>
chatVars    == <<chat, conn, open, to>>
historyVars == <<met, wiped>>
vars        == <<tableVars, requestVars, chatVars, historyVars>>

-----------------------------------------------------------------------------
Id        == 1 .. MaxId
Account   == Id \X (1 .. MaxLife)
NoAccount == <<0, 0>>
Task      == {"none", "register", "login", "console", "promote", "delete", "wipe"}
Stage     == {"idle", "create", "session", "refind", "grant",
              "isadmin", "target", "check", "commit"}

Exists(i)    == named[i] # NoName
AccountNext(i) == <<i, life[i] + 1>>    \* mutant: the user to come
AccountAt(i) == <<i, life[i]>>
Living(a)    == Exists(a[1]) /\ life[a[1]] = a[2]
HasAdmin     == \E i \in Id : admin[i]

(* The rowid SQLite gives to a new row: one more than the largest. *)
IsNewId(i) ==
    /\ \A j \in Id : j >= i => ~Exists(j)
    /\ \A j \in Id : j = i - 1 => Exists(j)

Init ==
    /\ named = [i \in Id |-> NoName]
    /\ admin = [i \in Id |-> FALSE]
    /\ life = [i \in Id |-> 0]
    /\ sessions = {} /\ friends = {} /\ messages = {}
    /\ stage = [r \in Req |-> "idle"]
    /\ task = [r \in Req |-> "none"]
    /\ asked = [r \in Req |-> NoName]
    /\ found = [r \in Req |-> 0]
    /\ asker = [r \in Req |-> NoAccount]
    /\ by = [r \in Req |-> NoName]
    /\ chat = [c \in Conn |-> "off"]
    /\ conn = [c \in Conn |-> NoAccount]
    /\ open = {}
    /\ to = [c \in Conn |-> 0]
    /\ met = {} /\ wiped = FALSE

GoTo(r, s) == stage' = [stage EXCEPT ![r] = s]

(* The request has been answered. *)
Finish(r) ==
    /\ GoTo(r, "idle")
    /\ task' = [task EXCEPT ![r] = "none"]
    /\ asked' = [asked EXCEPT ![r] = NoName]
    /\ found' = [found EXCEPT ![r] = 0]
    /\ asker' = [asker EXCEPT ![r] = NoAccount]
    /\ by' = [by EXCEPT ![r] = NoName]

-----------------------------------------------------------------------------
(* Registration, login, and -create-admin *)

Register(r, n) ==
    /\ stage[r] = "idle"
    /\ task' = [task EXCEPT ![r] = "register"]
    /\ asked' = [asked EXCEPT ![r] = n]
    /\ GoTo(r, "create")
    /\ UNCHANGED <<tableVars, found, asker, by, chatVars, historyVars>>

(* CreateUser, if the name is free.  SetE2EKeyBundle may follow: see E2EKeys *)
CreateUser(r) ==
    \E i \in Id :
        /\ stage[r] = "create"
        /\ \A j \in Id : named[j] # asked[r]
        /\ IsNewId(i) /\ life[i] < MaxLife
        /\ named' = [named EXCEPT ![i] = asked[r]]
        /\ life' = [life EXCEPT ![i] = @ + 1]
        /\ found' = [found EXCEPT ![r] = i]
        /\ asker' = [asker EXCEPT ![r] = <<i, life[i] + 1>>]
        /\ GoTo(r, "session")
        /\ UNCHANGED <<admin, sessions, friends, messages, task, asked, by,
                       chatVars, historyVars>>

(* GetUserByUsername, then the password, which takes its time; for a chat   *)
(* client, or for the admin console.                                        *)
Login(r, n, do) ==
    \E i \in Id :
        /\ stage[r] = "idle" /\ named[i] = n
        /\ task' = [task EXCEPT ![r] = do]
        /\ asked' = [asked EXCEPT ![r] = IF do = "console" THEN n ELSE NoName]
        /\ found' = [found EXCEPT ![r] = i]
        /\ asker' = [asker EXCEPT ![r] = AccountAt(i)]
        /\ GoTo(r, "session")
        /\ UNCHANGED <<tableVars, by, chatVars, historyVars>>

(* issueSession.  The token of a -create-admin registration is thrown away; *)
(* that of the console is given after a check, or not at all, but whoever   *)
(* asked for it can have one from the other login.                          *)
CreateSession(r) ==
    /\ stage[r] = "session"
    /\ sessions' = IF task[r] = "promote" THEN sessions ELSE sessions \cup {asker[r]}
    /\ IF task[r] \in {"promote", "console"}
       THEN GoTo(r, "refind") /\ UNCHANGED <<task, asked, found, asker, by>>
       ELSE Finish(r)
    /\ UNCHANGED <<userVars, friends, messages, chatVars, historyVars>>

(* CreateAdmin looks the user up, registers them if they are new, and looks *)
(* them up again, as AdminService.Login does.                               *)
Promote(r, n) ==
    /\ stage[r] = "idle"
    /\ task' = [task EXCEPT ![r] = "promote"]
    /\ asked' = [asked EXCEPT ![r] = n]
    /\ \/ \E i \in Id : /\ named[i] = n
                        /\ found' = [found EXCEPT ![r] = i]
                        /\ GoTo(r, "grant")
       \/ /\ \A i \in Id : named[i] # n
          /\ GoTo(r, "create")
          /\ UNCHANGED found
    /\ UNCHANGED <<tableVars, asker, by, chatVars, historyVars>>

Refind(r) ==
    \E i \in Id :
        /\ stage[r] = "refind" /\ named[i] = asked[r]
        /\ found' = [found EXCEPT ![r] = i]
        /\ GoTo(r, IF task[r] = "promote" THEN "grant" ELSE "isadmin")
        /\ UNCHANGED <<tableVars, task, asked, asker, by, chatVars, historyVars>>

SetAdmin(r) ==
    /\ stage[r] = "grant"
    /\ admin' = [admin EXCEPT ![found[r]] = Exists(found[r])]
    /\ Finish(r)
    /\ UNCHANGED <<named, life, sessions, friends, messages, chatVars, historyVars>>

-----------------------------------------------------------------------------
(* Administration *)

(* adminAuth: ValidateToken resolves the token to a user ... *)
AdminRequest(r, a, do, n) ==
    /\ stage[r] = "idle" /\ a \in sessions /\ Exists(a[1])
    /\ task' = [task EXCEPT ![r] = do]
    /\ asked' = [asked EXCEPT ![r] = n]
    /\ found' = [found EXCEPT ![r] = a[1]]
    /\ asker' = [asker EXCEPT ![r] = AccountAt(a[1])]
    /\ by' = [by EXCEPT ![r] = named[a[1]]]
    /\ GoTo(r, "isadmin")
    /\ UNCHANGED <<tableVars, chatVars, historyVars>>

(* ... and IsAdmin says whether that user may.  Mutant: the row that holds  *)
(* the token need not be an administrator's.                                *)
MayAdministerAny(i) == Exists(i)
MayAdminister(i) == Exists(i) /\ admin[i]

Validate(r) ==
    /\ stage[r] = "isadmin"
    /\ IF MayAdminister(found[r]) /\ task[r] # "console"
       THEN /\ GoTo(r, IF task[r] = "delete" THEN "target" ELSE "commit")
            /\ UNCHANGED <<task, asked, found, asker, by>>
       ELSE Finish(r)
    /\ UNCHANGED <<tableVars, chatVars, historyVars>>

(* DeleteUser: not oneself, by name, and the target's id.  Mutant: without  *)
(* the first test.                                                          *)
IsTargetAny(r, i) == named[i] = asked[r]
IsTarget(r, i) == named[i] = asked[r] /\ asked[r] # by[r]

FindTarget(r) ==
    /\ stage[r] = "target"
    /\ \/ \E i \in Id : /\ IsTarget(r, i)
                        /\ found' = [found EXCEPT ![r] = i]
                        /\ GoTo(r, "check")
                        /\ UNCHANGED <<task, asked, asker, by>>
       \/ (\A i \in Id : ~IsTarget(r, i)) /\ Finish(r)
    /\ UNCHANGED <<tableVars, chatVars, historyVars>>

(* Not an administrator.  Mutant: anybody. *)
DeletableAny(i) == Exists(i)
Deletable(i) == Exists(i) /\ ~admin[i]

CheckTarget(r) ==
    /\ stage[r] = "check"
    /\ IF Deletable(found[r])
       THEN GoTo(r, "commit") /\ UNCHANGED <<task, asked, found, asker, by>>
       ELSE Finish(r)
    /\ UNCHANGED <<tableVars, chatVars, historyVars>>

(* The rows that do not name user i. *)
OthersOf(i) ==
    [sessions |-> {a \in sessions : a[1] # i},
     friends  |-> {p \in friends : p[1] # i /\ p[2] # i},
     messages |-> {m \in messages : m[1][1] # i /\ m[2] # i}]

(* The five DELETEs of one transaction. *)
DeleteUser(r) ==
    LET i == found[r] IN
    /\ stage[r] = "commit" /\ task[r] = "delete"
    /\ named' = [named EXCEPT ![i] = NoName]
    /\ admin' = [admin EXCEPT ![i] = FALSE]
    /\ sessions' = OthersOf(i).sessions
    /\ friends' = OthersOf(i).friends
    /\ messages' = OthersOf(i).messages
    /\ Finish(r)
    /\ UNCHANGED <<life, chatVars, historyVars>>

(* WipeAllData: every row of every table, again in one transaction. *)
WipeAllData(r) ==
    /\ stage[r] = "commit" /\ task[r] = "wipe"
    /\ named' = [i \in Id |-> NoName]
    /\ admin' = [i \in Id |-> FALSE]
    /\ sessions' = {} /\ friends' = {} /\ messages' = {}
    /\ wiped' = TRUE
    /\ Finish(r)
    /\ UNCHANGED <<life, chatVars, met>>

(* A statement fails, the name is taken, the client gives up. *)
Abandon(r) ==
    /\ stage[r] # "idle"
    /\ Finish(r)
    /\ UNCHANGED <<tableVars, chatVars, historyVars>>

-----------------------------------------------------------------------------
(* Chat connections: pinned to what the token said when they began *)

(* authenticate: the token says who it is. *)
Authenticate(c, a) ==
    /\ chat[c] = "off" /\ a \in sessions /\ Exists(a[1])
    /\ chat' = [chat EXCEPT ![c] = "register"]
    /\ conn' = [conn EXCEPT ![c] = AccountAt(a[1])]
    /\ UNCHANGED <<tableVars, requestVars, open, to, historyVars>>

(* Hub.register closes the previous connection of this id.  The handler of  *)
(* that one may have read a packet that it has yet to handle; while a       *)
(* connection is open, nothing depends on that.                             *)
Enter(c) ==
    LET previous == {d \in open : conn[d][1] = conn[c][1]} IN
    /\ chat[c] = "register"
    /\ \E s \in {"read", "packet"} :
         chat' = [d \in Conn |-> IF d = c THEN "read"
                                 ELSE IF d \in previous /\ chat[d] = "read" THEN s
                                 ELSE chat[d]]
    /\ open' = (open \ previous) \cup {c}
    /\ UNCHANGED <<tableVars, requestVars, conn, to, historyVars>>

(* The handler has a packet, read while the connection was open. *)
HasPacket(c) == chat[c] = "packet" \/ (chat[c] = "read" /\ c \in open)

(* The client leaves, or its connection is closed. *)
Disconnect(c) ==
    /\ chat[c] \in {"register", "read"}
    /\ chat' = [chat EXCEPT ![c] = "off"]
    /\ conn' = [conn EXCEPT ![c] = NoAccount]
    /\ open' = open \ {c}
    /\ UNCHANGED <<tableVars, requestVars, to, historyVars>>

(* A request of the one and the consent of the other: see Friends. *)
Befriend(c, d) ==
    LET i == conn[c][1]  j == conn[d][1] IN
    /\ HasPacket(c) /\ HasPacket(d)
    /\ i # j /\ Exists(i) /\ Exists(j)
    /\ friends' = friends \cup {<<i, j>>, <<j, i>>}
    /\ met' = met \cup {<<conn[c], conn[d]>>, <<conn[d], conn[c]>>}
    /\ UNCHANGED <<userVars, sessions, messages, requestVars, chatVars, wiped>>

(* Send looks the addressee up by name, ... *)
FindAddressee(c, n) ==
    \E i \in Id :
        /\ HasPacket(c)
        /\ named[i] = n /\ i # conn[c][1]
        /\ to' = [to EXCEPT ![c] = i]
        /\ chat' = [chat EXCEPT ![c] = "friends?"]
        /\ UNCHANGED <<tableVars, requestVars, conn, open, historyVars>>

(* ... asks AreFriends, by id, ...  Mutant: that there is such a user.     *)
AreFriendsAny(i, j) == Exists(j)
AreFriends(i, j) == <<i, j>> \in friends

CheckFriends(c) ==
    /\ chat[c] = "friends?"
    /\ IF AreFriends(conn[c][1], to[c])
       THEN chat' = [chat EXCEPT ![c] = "save"] /\ UNCHANGED to
       ELSE chat' = [chat EXCEPT ![c] = "read"] /\ to' = [to EXCEPT ![c] = 0]
    /\ UNCHANGED <<tableVars, requestVars, conn, open, historyVars>>

(* ... and inserts the row. *)
SaveMessage(c) ==
    /\ chat[c] = "save"
    /\ messages' = messages \cup {<<conn[c], to[c]>>}
    /\ chat' = [chat EXCEPT ![c] = "read"]
    /\ to' = [to EXCEPT ![c] = 0]
    /\ UNCHANGED <<userVars, sessions, friends, requestVars, conn, open, historyVars>>

\* So may any packet, and on an open connection, that changes nothing.
SendFails(c) ==
    /\ chat[c] \in {"packet", "friends?", "save"}
    /\ chat' = [chat EXCEPT ![c] = "read"]
    /\ to' = [to EXCEPT ![c] = 0]
    /\ UNCHANGED <<tableVars, requestVars, conn, open, historyVars>>

-----------------------------------------------------------------------------
RequestStep(r) ==
    \/ \E n \in Name : Register(r, n) \/ Promote(r, n)
    \/ \E n \in Name : Login(r, n, "login") \/ Login(r, n, "console")
    \/ \E a \in sessions, n \in Name : AdminRequest(r, a, "delete", n)
    \/ \E a \in sessions : AdminRequest(r, a, "wipe", NoName)
    \/ CreateUser(r) \/ CreateSession(r) \/ Refind(r) \/ SetAdmin(r)
    \/ Validate(r) \/ FindTarget(r) \/ CheckTarget(r)
    \/ DeleteUser(r) \/ WipeAllData(r) \/ Abandon(r)

ChatStep(c) ==
    \/ Enter(c) \/ \E a \in sessions : Authenticate(c, a)
    \/ \E d \in Conn : Befriend(c, d)
    \/ \E n \in Name : FindAddressee(c, n)
    \/ CheckFriends(c) \/ SaveMessage(c) \/ SendFails(c) \/ Disconnect(c)

Next == (\E r \in Req : RequestStep(r)) \/ (\E c \in Conn : ChatStep(c))

Spec == Init /\ [][Next]_vars

-----------------------------------------------------------------------------
(* Properties *)

(* The types of the state. *)
TypeOK ==
    /\ named \in [Id -> Name \cup {NoName}]
    /\ admin \in [Id -> BOOLEAN]
    /\ life \in [Id -> 0 .. MaxLife]
    /\ sessions \subseteq Account
    /\ friends \subseteq Id \X Id
    /\ messages \subseteq Account \X Id
    /\ stage \in [Req -> Stage]
    /\ task \in [Req -> Task]
    /\ asked \in [Req -> Name \cup {NoName}]
    /\ found \in [Req -> Id \cup {0}]
    /\ asker \in [Req -> Account \cup {NoAccount}]
    /\ by \in [Req -> Name \cup {NoName}]
    /\ chat \in [Conn -> {"off", "register", "read", "packet", "friends?", "save"}]
    /\ conn \in [Conn -> Account \cup {NoAccount}]
    /\ open \subseteq Conn
    /\ to \in [Conn -> Id \cup {0}]
    /\ met \subseteq Account \X Account
    /\ wiped \in BOOLEAN

(* Once there is an administrator there is one until the database is wiped, *)
(* although the check that a target is none and its deletion are separate   *)
(* statements, -create-admin may promote the target in between, and ids are *)
(* reused: the first administrator cannot be the target of a request that   *)
(* an administrator made before (admin.go, DeleteUser).                     *)
AdminRemains == [][HasAdmin => HasAdmin' \/ wiped']_vars

(* Nobody deletes the account they act for ("cannot delete self",           *)
(* README.md:272): the code compares names when the request begins and ids  *)
(* are found later, but as long as the administrator's account lives the id *)
(* found is another's (admin.go, DeleteUser).                               *)
DeletesAnother ==
    \A r \in Req :
        /\ task[r] = "delete" /\ stage[r] \in {"check", "commit"}
        /\ Living(asker[r])
        => found[r] # asker[r][1]

(* The row of a message goes to whoever has the id of its addressee now, if *)
(* its sender's id is somebody's (ListUndeliveredMessages joins the two).   *)
SentBetweenFriends(m) ==
    Exists(m[1][1]) /\ Exists(m[2]) => <<m[1], AccountAt(m[2])>> \in met

(* As long as no id has been given out twice, whoever gets a message and    *)
(* whoever sent it are friends, across the three statements of Send, and    *)
(* for rows and connections that outlive the user (messaging.go).           *)
FriendsUnlessReused ==
    \A m \in messages :
        life[m[1][1]] = 1 /\ life[m[2]] = 1 => SentBetweenFriends(m)

(* "Only friends can message each other" (README.md:133). *)
OnlyFriends == \A m \in messages : SentBetweenFriends(m)

=============================================================================
