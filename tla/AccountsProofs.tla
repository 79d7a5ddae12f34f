--------------------------- MODULE AccountsProofs ---------------------------
(***************************************************************************)
(* What holds of the accounts for any names, ids, lives, requests and chat *)
(* connections.                                                            *)
(*                                                                         *)
(* An account that the code has met has lived: its number is not beyond    *)
(* life of its id.  As life only grows, an account that is gone stays so,  *)
(* which is what makes "as long as the account lives" a sound condition.   *)
(***************************************************************************)
EXTENDS Accounts, TLAPS

Lived(a) == a \in Account /\ a[2] <= life[a[1]]

(* What a request or a connection holds at each stage. *)
Holdings ==
    /\ \A i \in Id : (Exists(i) => life[i] >= 1) /\ (admin[i] => Exists(i))
    /\ \A r \in Req :
          /\ stage[r] \notin {"idle", "create"} => found[r] \in Id
          /\ stage[r] \notin {"idle", "create", "grant"} => Lived(asker[r])
          /\ stage[r] \in {"target", "check"} => task[r] = "delete"
          /\ task[r] = "delete" => stage[r] \in {"isadmin", "target", "check", "commit"}
    /\ \A c \in Conn :
          /\ chat[c] # "off" => Lived(conn[c])
          /\ chat[c] \in {"friends?", "save"} => to[c] \in Id /\ life[to[c]] >= 1
          /\ c \in open => chat[c] # "off"

(* The name that a deletion was asked by is that of the asker's account, as *)
(* long as this lives, so that who is found by another name is another.     *)
KnownByName ==
    \A r \in Req :
        task[r] = "delete" /\ stage[r] \in {"isadmin", "target"} /\ Living(asker[r]) =>
            named[asker[r][1]] = by[r]

(* A deletion whose target has been checked.                                *)
Condemns(r, i) == task[r] = "delete" /\ stage[r] = "commit" /\ found[r] = i

(* Until a wipe, there has been an administrator ever since a deletion got  *)
(* past adminAuth, and one of them is no deletion's target: whoever is one  *)
(* had been checked before becoming an administrator.                       *)
AdminSafe ==
    ~wiped =>
        /\ \A r \in Req : task[r] = "delete" /\ stage[r] \in {"target", "check", "commit"}
                              => HasAdmin
        /\ HasAdmin => \E i \in Id : admin[i] /\ \A r \in Req : ~Condemns(r, i)

(* Friendship by id is friendship of accounts where neither id was reused,  *)
(* in the table, in the hands of a connection, and in the rows of messages. *)
FirstLives(i, j) == life[i] = 1 /\ life[j] = 1
FriendsMet ==
    /\ \A p \in friends :
          /\ life[p[1]] >= 1 /\ life[p[2]] >= 1
          /\ FirstLives(p[1], p[2]) => <<<<p[1], 1>>, <<p[2], 1>>>> \in met
    /\ \A c \in Conn :
          chat[c] = "save" /\ FirstLives(conn[c][1], to[c]) =>
              <<conn[c], <<to[c], 1>>>> \in met
    /\ \A m \in messages :
          /\ Lived(m[1]) /\ life[m[2]] >= 1
          /\ FirstLives(m[1][1], m[2]) => <<m[1], <<m[2], 1>>>> \in met

AccountsInv == TypeOK /\ Holdings /\ KnownByName /\ DeletesAnother /\ AdminSafe /\ FriendsMet

-----------------------------------------------------------------------------
(* An account is an id and a number. *)
LEMMA AccountParts ==
    ASSUME NEW a \in Account
    PROVE  a[1] \in Id /\ a[2] \in 1 .. MaxLife /\ a = <<a[1], a[2]>>
BY DEF Account

(* Whoever has an id now is an account that lives. *)
LEMMA HolderLives ==
    ASSUME TypeOK, Holdings, NEW i \in Id, Exists(i)
    PROVE  /\ Lived(AccountAt(i)) /\ Living(AccountAt(i)) /\ AccountAt(i) \in Account
           /\ AccountAt(i)[1] = i /\ AccountAt(i)[2] = life[i]
BY BoundAssumption DEF TypeOK, Holdings, Lived, Living, AccountAt, Account

LEMMA NewAccount ==
    ASSUME TypeOK, NEW i \in Id, life[i] < MaxLife
    PROVE  <<i, life[i] + 1>> \in Account
BY BoundAssumption DEF TypeOK, Account

(* A user is created at an id that nobody has. *)
CreatesAt(r, i) ==
    /\ stage[r] = "create" /\ ~Exists(i) /\ ~admin[i] /\ life[i] < MaxLife
    /\ named' = [named EXCEPT ![i] = asked[r]]
    /\ life' = [life EXCEPT ![i] = @ + 1]
    /\ found' = [found EXCEPT ![r] = i]
    /\ asker' = [asker EXCEPT ![r] = <<i, life[i] + 1>>]
    /\ stage' = [stage EXCEPT ![r] = "session"]
    /\ UNCHANGED <<admin, sessions, friends, messages, task, asked, by, chatVars, historyVars>>

LEMMA CreateUserEffect ==
    ASSUME TypeOK, Holdings, NEW r \in Req, CreateUser(r)
    PROVE  \E i \in Id : CreatesAt(r, i)
<1>1. PICK i \in Id : /\ stage[r] = "create" /\ IsNewId(i) /\ life[i] < MaxLife
                     /\ named' = [named EXCEPT ![i] = asked[r]]
                     /\ life' = [life EXCEPT ![i] = @ + 1]
                     /\ found' = [found EXCEPT ![r] = i]
                     /\ asker' = [asker EXCEPT ![r] = <<i, life[i] + 1>>]
                     /\ stage' = [stage EXCEPT ![r] = "session"]
                     /\ UNCHANGED <<admin, sessions, friends, messages, task,
                                    asked, by, chatVars, historyVars>>
  BY DEF CreateUser, GoTo
<1>2. i >= i
  BY BoundAssumption DEF Id
<1>3. ~Exists(i) /\ ~admin[i]
  BY <1>1, <1>2 DEF IsNewId, Holdings
<1>. QED  BY <1>1, <1>3 DEF CreatesAt

(* A request's steps leave the connections alone, a connection's steps the  *)
(* requests and the users.                                                  *)
LEMMA RequestKeeps ==
    ASSUME NEW r \in Req, RequestStep(r)
    PROVE  UNCHANGED <<chatVars, met>> /\ friends' \subseteq friends /\ messages' \subseteq messages
<1>1. ASSUME NEW n \in Name, Register(r, n)
      PROVE  UNCHANGED <<chatVars, met>> /\ friends' \subseteq friends /\ messages' \subseteq messages
  BY <1>1 DEF Register, GoTo, vars, tableVars, userVars, requestVars,
     chatVars, historyVars
<1>2. ASSUME NEW n \in Name, Promote(r, n)
      PROVE  UNCHANGED <<chatVars, met>> /\ friends' \subseteq friends /\ messages' \subseteq messages
  BY <1>2 DEF Promote, GoTo, vars, tableVars, userVars, requestVars, chatVars,
     historyVars
<1>3. ASSUME NEW n \in Name, NEW do \in {"login", "console"}, Login(r, n, do)
      PROVE  UNCHANGED <<chatVars, met>> /\ friends' \subseteq friends /\ messages' \subseteq messages
  BY <1>3 DEF Login, GoTo, vars, tableVars, userVars, requestVars, chatVars,
     historyVars
<1>4. ASSUME NEW a \in sessions, NEW n \in Name \cup {NoName}, NEW do \in
             {"delete", "wipe"}, AdminRequest(r, a, do, n)
      PROVE  UNCHANGED <<chatVars, met>> /\ friends' \subseteq friends /\ messages' \subseteq messages
  BY <1>4 DEF AdminRequest, GoTo, vars, tableVars, userVars, requestVars,
     chatVars, historyVars
<1>5. ASSUME CreateUser(r)
      PROVE  UNCHANGED <<chatVars, met>> /\ friends' \subseteq friends /\ messages' \subseteq messages
  BY <1>5 DEF CreateUser, GoTo, vars, tableVars, userVars, requestVars,
     chatVars, historyVars
<1>6. ASSUME CreateSession(r)
      PROVE  UNCHANGED <<chatVars, met>> /\ friends' \subseteq friends /\ messages' \subseteq messages
  BY <1>6 DEF CreateSession, GoTo, Finish, vars, tableVars, userVars,
     requestVars, chatVars, historyVars
<1>7. ASSUME Refind(r)
      PROVE  UNCHANGED <<chatVars, met>> /\ friends' \subseteq friends /\ messages' \subseteq messages
  BY <1>7 DEF Refind, GoTo, vars, tableVars, userVars, requestVars, chatVars,
     historyVars
<1>8. ASSUME SetAdmin(r)
      PROVE  UNCHANGED <<chatVars, met>> /\ friends' \subseteq friends /\ messages' \subseteq messages
  BY <1>8 DEF SetAdmin, GoTo, Finish, vars, tableVars, userVars, requestVars,
     chatVars, historyVars
<1>9. ASSUME Validate(r)
      PROVE  UNCHANGED <<chatVars, met>> /\ friends' \subseteq friends /\ messages' \subseteq messages
  BY <1>9 DEF Validate, MayAdminister, GoTo, Finish, vars, tableVars,
     userVars, requestVars, chatVars, historyVars
<1>10. ASSUME FindTarget(r)
      PROVE  UNCHANGED <<chatVars, met>> /\ friends' \subseteq friends /\ messages' \subseteq messages
  BY <1>10 DEF FindTarget, IsTarget, GoTo, Finish, vars, tableVars, userVars,
     requestVars, chatVars, historyVars
<1>11. ASSUME CheckTarget(r)
      PROVE  UNCHANGED <<chatVars, met>> /\ friends' \subseteq friends /\ messages' \subseteq messages
  BY <1>11 DEF CheckTarget, Deletable, GoTo, Finish, vars, tableVars,
     userVars, requestVars, chatVars, historyVars
<1>12. ASSUME DeleteUser(r)
      PROVE  UNCHANGED <<chatVars, met>> /\ friends' \subseteq friends /\ messages' \subseteq messages
  BY <1>12 DEF DeleteUser, OthersOf, GoTo, Finish, vars, tableVars, userVars,
     requestVars, chatVars, historyVars
<1>13. ASSUME WipeAllData(r)
      PROVE  UNCHANGED <<chatVars, met>> /\ friends' \subseteq friends /\ messages' \subseteq messages
  BY <1>13 DEF WipeAllData, GoTo, Finish, vars, tableVars, userVars,
     requestVars, chatVars, historyVars
<1>14. ASSUME Abandon(r)
      PROVE  UNCHANGED <<chatVars, met>> /\ friends' \subseteq friends /\ messages' \subseteq messages
  BY <1>14 DEF Abandon, GoTo, Finish, vars, tableVars, userVars, requestVars,
     chatVars, historyVars
<1>. QED
  BY <1>1, <1>2, <1>3, <1>4, <1>5, <1>6, <1>7, <1>8, <1>9, <1>10, <1>11,
     <1>12, <1>13, <1>14 DEF RequestStep

(* Enter moves its own handler, and at most those it replaces, which then   *)
(* have a packet in hand.                                                   *)
LEMMA EnterMoves ==
    ASSUME TypeOK, NEW c \in Conn, Enter(c)
    PROVE  /\ chat[c] = "register" /\ chat'[c] = "read"
           /\ chat' \in [Conn -> {"off", "register", "read", "packet", "friends?", "save"}]
           /\ \A d \in Conn \ {c} :
                 chat'[d] = chat[d] \/ (chat[d] = "read" /\ chat'[d] = "packet")
<1>. DEFINE previous == {d \in open : conn[d][1] = conn[c][1]}
<1>1. PICK s \in {"read", "packet"} :
        chat' = [d \in Conn |-> IF d = c THEN "read"
                                ELSE IF d \in previous /\ chat[d] = "read" THEN s
                                ELSE chat[d]]
  BY DEF Enter
<1>2. \A d \in Conn : chat'[d] \in {"off", "register", "read", "packet", "friends?", "save"}
  <2>. HIDE DEF previous
  <2>. QED  BY <1>1 DEF TypeOK
<1>3. chat[c] = "register"
  BY DEF Enter
<1>. HIDE DEF previous
<1>. QED  BY <1>1, <1>2, <1>3

LEMMA ChatKeeps ==
    ASSUME NEW c \in Conn, ChatStep(c)
    PROVE  UNCHANGED <<userVars, sessions, requestVars, wiped>>
<1>1. ASSUME NEW a \in sessions, Authenticate(c, a)
      PROVE  UNCHANGED <<userVars, sessions, requestVars, wiped>>
  BY <1>1 DEF Authenticate, vars, tableVars, userVars, requestVars, chatVars,
     historyVars
<1>2. ASSUME NEW d \in Conn, Befriend(c, d)
      PROVE  UNCHANGED <<userVars, sessions, requestVars, wiped>>
  BY <1>2 DEF Befriend, HasPacket, vars, tableVars, userVars, requestVars, chatVars,
     historyVars
<1>3. ASSUME NEW n \in Name, FindAddressee(c, n)
      PROVE  UNCHANGED <<userVars, sessions, requestVars, wiped>>
  BY <1>3 DEF FindAddressee, HasPacket, vars, tableVars, userVars, requestVars, chatVars,
     historyVars
<1>4. ASSUME CheckFriends(c)
      PROVE  UNCHANGED <<userVars, sessions, requestVars, wiped>>
  BY <1>4 DEF CheckFriends, AreFriends, vars, tableVars, userVars,
     requestVars, chatVars, historyVars
<1>5. ASSUME SaveMessage(c)
      PROVE  UNCHANGED <<userVars, sessions, requestVars, wiped>>
  BY <1>5 DEF SaveMessage, vars, tableVars, userVars, requestVars, chatVars,
     historyVars
<1>6. ASSUME SendFails(c)
      PROVE  UNCHANGED <<userVars, sessions, requestVars, wiped>>
  BY <1>6 DEF SendFails, vars, tableVars, userVars, requestVars, chatVars,
     historyVars
<1>7. ASSUME Disconnect(c)
      PROVE  UNCHANGED <<userVars, sessions, requestVars, wiped>>
  BY <1>7 DEF Disconnect, vars, tableVars, userVars, requestVars, chatVars,
     historyVars
<1>8. ASSUME Enter(c)
      PROVE  UNCHANGED <<userVars, sessions, requestVars, wiped>>
  BY <1>8 DEF Enter, tableVars, requestVars, historyVars
<1>. QED
  BY <1>1, <1>2, <1>3, <1>4, <1>5, <1>6, <1>7, <1>8 DEF ChatStep

-----------------------------------------------------------------------------
(* A step keeps the types. *)
LEMMA TypeStep ==
    ASSUME TypeOK, Holdings, [Next]_vars
    PROVE  TypeOK'
<1>. USE NameAssumption, BoundAssumption DEF TypeOK, Lived, Task, Stage
<1>1. CASE UNCHANGED vars
  BY <1>1 DEF vars, tableVars, userVars, requestVars, chatVars, historyVars
<1>2. ASSUME NEW r \in Req, RequestStep(r)
      PROVE  TypeOK'
  <2>1. ASSUME NEW n \in Name, Register(r, n)
        PROVE  TypeOK'
    BY <2>1 DEF Register, GoTo, vars, tableVars, userVars, requestVars,
       chatVars, historyVars
  <2>2. ASSUME NEW n \in Name, Promote(r, n)
        PROVE  TypeOK'
    BY <2>2 DEF Promote, GoTo, vars, tableVars, userVars, requestVars,
       chatVars, historyVars
  <2>3. ASSUME NEW n \in Name, NEW do \in {"login", "console"}, Login(r, n,
               do)
        PROVE  TypeOK'
    BY <2>3, HolderLives DEF Login, GoTo, vars, tableVars, userVars,
       requestVars, chatVars, historyVars, Exists
  <2>4. ASSUME NEW a \in sessions, NEW n \in Name \cup {NoName}, NEW do \in
               {"delete", "wipe"}, AdminRequest(r, a, do, n)
        PROVE  TypeOK'
    BY <2>4, HolderLives, AccountParts DEF AdminRequest, GoTo, vars,
       tableVars, userVars, requestVars, chatVars, historyVars
  <2>5. ASSUME CreateUser(r)
        PROVE  TypeOK'
    BY <2>5, NewAccount DEF CreateUser, GoTo, vars, tableVars, userVars,
       requestVars, chatVars, historyVars, IsNewId
  <2>6. ASSUME CreateSession(r)
        PROVE  TypeOK'
    BY <2>6 DEF CreateSession, GoTo, Finish, vars, tableVars, userVars,
       requestVars, chatVars, historyVars, Holdings
  <2>7. ASSUME Refind(r)
        PROVE  TypeOK'
    BY <2>7 DEF Refind, GoTo, vars, tableVars, userVars, requestVars,
       chatVars, historyVars
  <2>8. ASSUME SetAdmin(r)
        PROVE  TypeOK'
    BY <2>8 DEF SetAdmin, GoTo, Finish, vars, tableVars, userVars,
       requestVars, chatVars, historyVars, Exists
  <2>9. ASSUME Validate(r)
        PROVE  TypeOK'
    BY <2>9 DEF Validate, MayAdminister, GoTo, Finish, vars, tableVars,
       userVars, requestVars, chatVars, historyVars
  <2>10. ASSUME FindTarget(r)
        PROVE  TypeOK'
    BY <2>10 DEF FindTarget, IsTarget, GoTo, Finish, vars, tableVars,
       userVars, requestVars, chatVars, historyVars
  <2>11. ASSUME CheckTarget(r)
        PROVE  TypeOK'
    BY <2>11 DEF CheckTarget, Deletable, GoTo, Finish, vars, tableVars,
       userVars, requestVars, chatVars, historyVars
  <2>12. ASSUME DeleteUser(r)
        PROVE  TypeOK'
    BY <2>12 DEF DeleteUser, OthersOf, GoTo, Finish, vars, tableVars,
       userVars, requestVars, chatVars, historyVars
  <2>13. ASSUME WipeAllData(r)
        PROVE  TypeOK'
    BY <2>13 DEF WipeAllData, GoTo, Finish, vars, tableVars, userVars,
       requestVars, chatVars, historyVars
  <2>14. ASSUME Abandon(r)
        PROVE  TypeOK'
    BY <2>14 DEF Abandon, GoTo, Finish, vars, tableVars, userVars,
       requestVars, chatVars, historyVars
  <2>. QED
    BY <1>2, <2>1, <2>2, <2>3, <2>4, <2>5, <2>6, <2>7, <2>8, <2>9, <2>10,
       <2>11, <2>12, <2>13, <2>14 DEF RequestStep
<1>3. ASSUME NEW c \in Conn, ChatStep(c)
      PROVE  TypeOK'
  <2>1. ASSUME NEW a \in sessions, Authenticate(c, a)
        PROVE  TypeOK'
    BY <2>1, HolderLives, AccountParts DEF Authenticate, vars, tableVars, userVars,
       requestVars, chatVars, historyVars
  <2>2. ASSUME NEW d \in Conn, Befriend(c, d)
        PROVE  TypeOK'
    BY <2>2, AccountParts DEF Befriend, HasPacket, vars, tableVars, userVars,
       requestVars, chatVars, historyVars, Holdings
  <2>3. ASSUME NEW n \in Name, FindAddressee(c, n)
        PROVE  TypeOK'
    BY <2>3 DEF FindAddressee, HasPacket, vars, tableVars, userVars, requestVars,
       chatVars, historyVars
  <2>4. ASSUME CheckFriends(c)
        PROVE  TypeOK'
    BY <2>4 DEF CheckFriends, AreFriends, vars, tableVars, userVars,
       requestVars, chatVars, historyVars
  <2>5. ASSUME SaveMessage(c)
        PROVE  TypeOK'
    BY <2>5 DEF SaveMessage, vars, tableVars, userVars, requestVars, chatVars,
       historyVars, Holdings
  <2>6. ASSUME SendFails(c)
        PROVE  TypeOK'
    BY <2>6 DEF SendFails, vars, tableVars, userVars, requestVars, chatVars,
       historyVars
  <2>7. ASSUME Disconnect(c)
        PROVE  TypeOK'
    BY <2>7 DEF Disconnect, vars, tableVars, userVars, requestVars, chatVars,
       historyVars
  <2>8. ASSUME Enter(c)
        PROVE  TypeOK'
    BY <2>8, EnterMoves DEF Enter, tableVars, userVars, requestVars,
       historyVars, Exists
  <2>. QED
    BY <1>3, <2>1, <2>2, <2>3, <2>4, <2>5, <2>6, <2>7,
       <2>8 DEF ChatStep
<1>. QED  BY <1>1, <1>2, <1>3 DEF Next

(* What has lived has lived, and what is gone stays gone. *)
LEMMA LifeGrows ==
    ASSUME TypeOK, Holdings, [Next]_vars
    PROVE  /\ \A i \in Id : life'[i] >= life[i]
           /\ \A a : Lived(a) => Lived(a)'
           /\ \A a : Lived(a) /\ Living(a)' => Living(a) /\ named'[a[1]] = named[a[1]]
<1>. USE NameAssumption, BoundAssumption DEF TypeOK
<1>. DEFINE Grows == /\ \A i \in Id : life'[i] >= life[i]
                     /\ \A i \in Id : life'[i] = life[i] /\ named'[i] # NoName
                                       => named'[i] = named[i]
<1>1. ASSUME NEW r \in Req, CreateUser(r)
      PROVE  Grows
  BY <1>1 DEF CreateUser
<1>2. ASSUME NEW r \in Req, DeleteUser(r) \/ WipeAllData(r)
      PROVE  Grows
  BY <1>2 DEF DeleteUser, WipeAllData
<1>3. ASSUME UNCHANGED <<named, life>>
      PROVE  Grows
  <2>1. named' = named /\ life' = life
    BY <1>3
  <2>2. \A i \in Id : life[i] >= life[i]
    OBVIOUS
  <2>. QED  BY <2>1, <2>2
<1>4. ASSUME NEW r \in Req, RequestStep(r), ~CreateUser(r), ~DeleteUser(r), ~WipeAllData(r)
      PROVE  UNCHANGED <<named, life>>
  BY <1>4 DEF RequestStep, Register, Promote, Login, AdminRequest, CreateSession,
     Refind, SetAdmin, Validate, FindTarget, CheckTarget, Abandon, tableVars, userVars
<1>5. Grows
  BY <1>1, <1>2, <1>3, <1>4, ChatKeeps DEF Next, vars, tableVars, userVars
<1>6. ASSUME NEW a, Lived(a)
      PROVE  Lived(a)'
  <2>1. a \in Account /\ a[2] <= life[a[1]]
    BY <1>6 DEF Lived
  <2>2. a[1] \in Id /\ a[2] \in Nat
    BY <2>1, AccountParts
  <2>3. life[a[1]] \in Nat /\ life'[a[1]] \in Nat /\ life'[a[1]] >= life[a[1]]
    BY <1>5, <2>2, TypeStep
  <2>. QED  BY <2>1, <2>2, <2>3 DEF Lived, Account, Id
<1>7. ASSUME NEW a, Lived(a), Living(a)'
      PROVE  Living(a) /\ named'[a[1]] = named[a[1]]
  <2>1. a[1] \in Id /\ a[2] <= life[a[1]] /\ life'[a[1]] = a[2] /\ a[2] \in Nat
    BY <1>7, AccountParts DEF Lived, Living
  <2>2. life'[a[1]] = life[a[1]]
    BY <1>5, <2>1
  <2>. QED  BY <1>5, <1>7, <2>1, <2>2 DEF Living, Exists
<1>. QED  BY <1>5, <1>6, <1>7

(* A step keeps what requests and connections hold. *)
LEMMA HoldingsStep ==
    ASSUME TypeOK, Holdings, [Next]_vars
    PROVE  Holdings'
<1>. USE NameAssumption, BoundAssumption, LifeGrows DEF TypeOK, Holdings, Stage, Task
<1>1. CASE UNCHANGED vars
  BY <1>1 DEF vars, tableVars, userVars, requestVars, chatVars, historyVars,
     Lived, Exists
<1>2. ASSUME NEW r \in Req, RequestStep(r)
      PROVE  Holdings'
  <2>1. ASSUME NEW n \in Name, Register(r, n)
        PROVE  Holdings'
    BY <2>1 DEF Register, GoTo, vars, tableVars, userVars, requestVars,
       chatVars, historyVars, Exists
  <2>2. ASSUME NEW n \in Name, Promote(r, n)
        PROVE  Holdings'
    BY <2>2 DEF Promote, GoTo, vars, tableVars, userVars, requestVars,
       chatVars, historyVars, Exists
  <2>3. ASSUME NEW n \in Name, NEW do \in {"login", "console"}, Login(r, n,
               do)
        PROVE  Holdings'
    BY <2>3, HolderLives DEF Login, GoTo, vars, tableVars, userVars,
       requestVars, chatVars, historyVars, Exists, Exists
  <2>4. ASSUME NEW a \in sessions, NEW n \in Name \cup {NoName}, NEW do \in
               {"delete", "wipe"}, AdminRequest(r, a, do, n)
        PROVE  Holdings'
    BY <2>4, HolderLives, AccountParts DEF AdminRequest, GoTo, vars,
       tableVars, userVars, requestVars, chatVars, historyVars, Exists, Exists
  <2>5. ASSUME CreateUser(r)
        PROVE  Holdings'
    <3>. PICK i \in Id : CreatesAt(r, i)
      BY <2>5, CreateUserEffect
    <3>1. asker'[r] = <<i, life[i] + 1>> /\ life'[i] = life[i] + 1 /\ life[i] \in Nat
      BY DEF CreatesAt
    <3>2. asker'[r] \in Account
      BY <3>1, NewAccount DEF CreatesAt
    <3>3. Lived(asker[r])'
      BY <3>1, <3>2 DEF Lived, Account, Id
    <3>4. \A j \in Id : (Exists(j)' => life'[j] >= 1) /\ (admin'[j] => Exists(j)')
      BY <3>1 DEF Exists, CreatesAt
    <3>. QED  BY <2>5, <3>3, <3>4 DEF chatVars, CreatesAt
  <2>6. ASSUME CreateSession(r)
        PROVE  Holdings'
    BY <2>6 DEF CreateSession, GoTo, Finish, vars, tableVars, userVars,
       requestVars, chatVars, historyVars, Exists
  <2>7. ASSUME Refind(r)
        PROVE  Holdings'
    BY <2>7 DEF Refind, GoTo, vars, tableVars, userVars, requestVars,
       chatVars, historyVars, Exists
  <2>8. ASSUME SetAdmin(r)
        PROVE  Holdings'
    BY <2>8 DEF SetAdmin, GoTo, Finish, vars, tableVars, userVars,
       requestVars, chatVars, historyVars, Exists
  <2>9. ASSUME Validate(r)
        PROVE  Holdings'
    BY <2>9 DEF Validate, MayAdminister, GoTo, Finish, vars, tableVars,
       userVars, requestVars, chatVars, historyVars, Exists
  <2>10. ASSUME FindTarget(r)
        PROVE  Holdings'
    BY <2>10 DEF FindTarget, IsTarget, GoTo, Finish, vars, tableVars,
       userVars, requestVars, chatVars, historyVars, Exists
  <2>11. ASSUME CheckTarget(r)
        PROVE  Holdings'
    BY <2>11 DEF CheckTarget, Deletable, GoTo, Finish, vars, tableVars,
       userVars, requestVars, chatVars, historyVars, Exists
  <2>12. ASSUME DeleteUser(r)
        PROVE  Holdings'
    BY <2>12 DEF DeleteUser, OthersOf, GoTo, Finish, vars, tableVars,
       userVars, requestVars, chatVars, historyVars, Exists
  <2>13. ASSUME WipeAllData(r)
        PROVE  Holdings'
    BY <2>13 DEF WipeAllData, GoTo, Finish, vars, tableVars, userVars,
       requestVars, chatVars, historyVars, Exists
  <2>14. ASSUME Abandon(r)
        PROVE  Holdings'
    BY <2>14 DEF Abandon, GoTo, Finish, vars, tableVars, userVars,
       requestVars, chatVars, historyVars, Exists
  <2>. QED
    BY <1>2, <2>1, <2>2, <2>3, <2>4, <2>5, <2>6, <2>7, <2>8, <2>9, <2>10,
       <2>11, <2>12, <2>13, <2>14 DEF RequestStep
<1>3. ASSUME NEW c \in Conn, ChatStep(c)
      PROVE  Holdings'
  <2>1. ASSUME NEW a \in sessions, Authenticate(c, a)
        PROVE  Holdings'
    BY <2>1, HolderLives, AccountParts DEF Authenticate, vars, tableVars, userVars,
       requestVars, chatVars, historyVars, Exists
  <2>2. ASSUME NEW d \in Conn, Befriend(c, d)
        PROVE  Holdings'
    BY <2>2 DEF Befriend, HasPacket, vars, tableVars, userVars, requestVars, chatVars,
       historyVars, Exists
  <2>3. ASSUME NEW n \in Name, FindAddressee(c, n)
        PROVE  Holdings'
    BY <2>3 DEF FindAddressee, HasPacket, vars, tableVars, userVars, requestVars,
       chatVars, historyVars, Exists
  <2>4. ASSUME CheckFriends(c)
        PROVE  Holdings'
    BY <2>4 DEF CheckFriends, AreFriends, vars, tableVars, userVars,
       requestVars, chatVars, historyVars, Exists
  <2>5. ASSUME SaveMessage(c)
        PROVE  Holdings'
    BY <2>5 DEF SaveMessage, vars, tableVars, userVars, requestVars, chatVars,
       historyVars, Exists
  <2>6. ASSUME SendFails(c)
        PROVE  Holdings'
    BY <2>6 DEF SendFails, vars, tableVars, userVars, requestVars, chatVars,
       historyVars, Exists
  <2>7. ASSUME Disconnect(c)
        PROVE  Holdings'
    BY <2>7 DEF Disconnect, vars, tableVars, userVars, requestVars, chatVars,
       historyVars, Exists
  <2>8. ASSUME Enter(c)
        PROVE  Holdings'
    BY <2>8, EnterMoves DEF Enter, tableVars, userVars, requestVars,
       historyVars, Exists
  <2>. QED
    BY <1>3, <2>1, <2>2, <2>3, <2>4, <2>5, <2>6, <2>7,
       <2>8 DEF ChatStep
<1>. QED  BY <1>1, <1>2, <1>3 DEF Next

-----------------------------------------------------------------------------
(* What a request's step may do to requests, and to the users. *)
LEMMA OtherRequestsKeep ==
    ASSUME TypeOK, NEW r \in Req, RequestStep(r), NEW q \in Req \ {r}
    PROVE  /\ stage'[q] = stage[q] /\ task'[q] = task[q] /\ asked'[q] = asked[q]
           /\ found'[q] = found[q] /\ asker'[q] = asker[q] /\ by'[q] = by[q]
<1>. DEFINE Keeps == /\ stage'[q] = stage[q] /\ task'[q] = task[q] /\ asked'[q] = asked[q]
                     /\ found'[q] = found[q] /\ asker'[q] = asker[q] /\ by'[q] = by[q]
<1>. USE DEF TypeOK
<1>1. ASSUME NEW n \in Name, Register(r, n)
      PROVE  Keeps
  BY <1>1 DEF Register, GoTo
<1>2. ASSUME NEW n \in Name, Promote(r, n)
      PROVE  Keeps
  BY <1>2 DEF Promote, GoTo
<1>3. ASSUME NEW n \in Name, NEW do \in {"login", "console"}, Login(r, n, do)
      PROVE  Keeps
  BY <1>3 DEF Login, GoTo
<1>4. ASSUME NEW a \in sessions, NEW n \in Name \cup {NoName}, NEW do \in
             {"delete", "wipe"}, AdminRequest(r, a, do, n)
      PROVE  Keeps
  BY <1>4 DEF AdminRequest, GoTo
<1>5. ASSUME CreateUser(r)
      PROVE  Keeps
  BY <1>5 DEF CreateUser, GoTo
<1>6. ASSUME CreateSession(r)
      PROVE  Keeps
  BY <1>6 DEF CreateSession, GoTo, Finish
<1>7. ASSUME Refind(r)
      PROVE  Keeps
  BY <1>7 DEF Refind, GoTo
<1>8. ASSUME SetAdmin(r)
      PROVE  Keeps
  BY <1>8 DEF SetAdmin, GoTo, Finish
<1>9. ASSUME Validate(r)
      PROVE  Keeps
  BY <1>9 DEF Validate, MayAdminister, GoTo, Finish
<1>10. ASSUME FindTarget(r)
      PROVE  Keeps
  BY <1>10 DEF FindTarget, IsTarget, GoTo, Finish
<1>11. ASSUME CheckTarget(r)
      PROVE  Keeps
  BY <1>11 DEF CheckTarget, Deletable, GoTo, Finish
<1>12. ASSUME DeleteUser(r)
      PROVE  Keeps
  BY <1>12 DEF DeleteUser, OthersOf, GoTo, Finish
<1>13. ASSUME WipeAllData(r)
      PROVE  Keeps
  BY <1>13 DEF WipeAllData, GoTo, Finish
<1>14. ASSUME Abandon(r)
      PROVE  Keeps
  BY <1>14 DEF Abandon, GoTo, Finish
<1>. QED
  BY <1>1, <1>2, <1>3, <1>4, <1>5, <1>6, <1>7, <1>8, <1>9, <1>10, <1>11,
     <1>12, <1>13, <1>14 DEF RequestStep

(* A deletion begins, or goes on with what it has found. *)
DeletionBegins(r) ==
    /\ stage'[r] = "isadmin"
    /\ found'[r] \in Id /\ Exists(found'[r])
    /\ asker'[r] = AccountAt(found'[r]) /\ by'[r] = named[found'[r]]
DeletionGoesOn(r) ==
    /\ task[r] = "delete" /\ asker'[r] = asker[r] /\ by'[r] = by[r]
    /\ \/ stage[r] = "isadmin" /\ stage'[r] = "target" /\ MayAdminister(found[r])
       \/ stage[r] = "target" /\ stage'[r] = "check" /\ IsTarget(r, found'[r])
       \/ /\ stage[r] = "check" /\ stage'[r] = "commit"
          /\ found'[r] = found[r] /\ Deletable(found[r])

LEMMA DeletionProgress ==
    ASSUME TypeOK, Holdings, NEW r \in Req, RequestStep(r), task'[r] = "delete"
    PROVE  /\ DeletionBegins(r) \/ DeletionGoesOn(r)
           /\ UNCHANGED <<tableVars, wiped>>
<1>. DEFINE Progress == /\ DeletionBegins(r) \/ DeletionGoesOn(r)
                        /\ UNCHANGED <<tableVars, wiped>>
<1>. USE DEF TypeOK, Holdings, DeletionBegins, DeletionGoesOn
<1>1. ASSUME NEW n \in Name, Register(r, n)
      PROVE  Progress
  BY <1>1 DEF Register, GoTo, historyVars, tableVars, userVars
<1>2. ASSUME NEW n \in Name, Promote(r, n)
      PROVE  Progress
  BY <1>2 DEF Promote, GoTo, historyVars, tableVars, userVars
<1>3. ASSUME NEW n \in Name, NEW do \in {"login", "console"}, Login(r, n, do)
      PROVE  Progress
  BY <1>3 DEF Login, GoTo, historyVars, tableVars, userVars
<1>4. ASSUME NEW a \in sessions, NEW n \in Name \cup {NoName}, NEW do \in
             {"delete", "wipe"}, AdminRequest(r, a, do, n)
      PROVE  Progress
  BY <1>4, AccountParts DEF AdminRequest, GoTo, historyVars, tableVars,
     userVars
<1>5. ASSUME CreateUser(r)
      PROVE  Progress
  BY <1>5 DEF CreateUser, GoTo, historyVars, tableVars, userVars
<1>6. ASSUME CreateSession(r)
      PROVE  Progress
  BY <1>6 DEF CreateSession, GoTo, Finish, historyVars, tableVars, userVars
<1>7. ASSUME Refind(r)
      PROVE  Progress
  BY <1>7 DEF Refind, GoTo, historyVars, tableVars, userVars
<1>8. ASSUME SetAdmin(r)
      PROVE  Progress
  BY <1>8 DEF SetAdmin, GoTo, Finish, historyVars, tableVars, userVars
<1>9. ASSUME Validate(r)
      PROVE  Progress
  BY <1>9 DEF Validate, MayAdminister, GoTo, Finish, historyVars, tableVars,
     userVars
<1>10. ASSUME FindTarget(r)
      PROVE  Progress
  BY <1>10 DEF FindTarget, IsTarget, GoTo, Finish, historyVars, tableVars,
     userVars
<1>11. ASSUME CheckTarget(r)
      PROVE  Progress
  BY <1>11 DEF CheckTarget, Deletable, GoTo, Finish, historyVars, tableVars,
     userVars
<1>12. ASSUME DeleteUser(r)
      PROVE  Progress
  BY <1>12 DEF DeleteUser, OthersOf, GoTo, Finish, historyVars, tableVars,
     userVars
<1>13. ASSUME WipeAllData(r)
      PROVE  Progress
  BY <1>13 DEF WipeAllData, GoTo, Finish, historyVars, tableVars, userVars
<1>14. ASSUME Abandon(r)
      PROVE  Progress
  BY <1>14 DEF Abandon, GoTo, Finish, historyVars, tableVars, userVars
<1>. QED
  BY <1>1, <1>2, <1>3, <1>4, <1>5, <1>6, <1>7, <1>8, <1>9, <1>10, <1>11,
     <1>12, <1>13, <1>14 DEF RequestStep

LEMMA UserChange ==
    ASSUME TypeOK, Holdings, NEW r \in Req, RequestStep(r)
    PROVE  \/ UNCHANGED <<userVars, wiped>>
           \/ \E i \in Id : CreatesAt(r, i)
           \/ SetAdmin(r) \/ DeleteUser(r) \/ WipeAllData(r)
<1>. DEFINE Change == \/ UNCHANGED <<userVars, wiped>>
                      \/ \E i \in Id : CreatesAt(r, i)
                      \/ SetAdmin(r) \/ DeleteUser(r) \/ WipeAllData(r)
<1>1. ASSUME NEW n \in Name, Register(r, n)
      PROVE  Change
  BY <1>1 DEF Register, GoTo, historyVars, tableVars, userVars
<1>2. ASSUME NEW n \in Name, Promote(r, n)
      PROVE  Change
  BY <1>2 DEF Promote, GoTo, historyVars, tableVars, userVars
<1>3. ASSUME NEW n \in Name, NEW do \in {"login", "console"}, Login(r, n, do)
      PROVE  Change
  BY <1>3 DEF Login, GoTo, historyVars, tableVars, userVars
<1>4. ASSUME NEW a \in sessions, NEW n \in Name \cup {NoName}, NEW do \in
             {"delete", "wipe"}, AdminRequest(r, a, do, n)
      PROVE  Change
  BY <1>4 DEF AdminRequest, GoTo, historyVars, tableVars, userVars
<1>5. ASSUME CreateUser(r)
      PROVE  Change
  BY <1>5, CreateUserEffect
<1>6. ASSUME CreateSession(r)
      PROVE  Change
  BY <1>6 DEF CreateSession, GoTo, Finish, historyVars, tableVars, userVars
<1>7. ASSUME Refind(r)
      PROVE  Change
  BY <1>7 DEF Refind, GoTo, historyVars, tableVars, userVars
<1>8. ASSUME Validate(r)
      PROVE  Change
  BY <1>8 DEF Validate, MayAdminister, GoTo, Finish, historyVars, tableVars,
     userVars
<1>9. ASSUME FindTarget(r)
      PROVE  Change
  BY <1>9 DEF FindTarget, IsTarget, GoTo, Finish, historyVars, tableVars,
     userVars
<1>10. ASSUME CheckTarget(r)
      PROVE  Change
  BY <1>10 DEF CheckTarget, Deletable, GoTo, Finish, historyVars, tableVars,
     userVars
<1>11. ASSUME Abandon(r)
      PROVE  Change
  BY <1>11 DEF Abandon, GoTo, Finish, historyVars, tableVars, userVars
<1>. QED
  BY <1>1, <1>2, <1>3, <1>4, <1>5, <1>6, <1>7, <1>8, <1>9, <1>10, <1>11 DEF
     RequestStep

-----------------------------------------------------------------------------
(* A deletion's asker keeps the name it was asked by. *)
LEMMA KnownByNameStep ==
    ASSUME TypeOK, Holdings, KnownByName, [Next]_vars
    PROVE  KnownByName'
<1>. DEFINE Known(r) == task[r] = "delete" /\ stage[r] \in {"isadmin", "target"} /\ Living(asker[r])
                            => named[asker[r][1]] = by[r]
<1>1. ASSUME NEW q \in Req, task'[q] = task[q], stage'[q] = stage[q],
             asker'[q] = asker[q], by'[q] = by[q]
      PROVE  Known(q)'
  BY <1>1, LifeGrows DEF Holdings, KnownByName
<1>2. CASE UNCHANGED requestVars
  BY <1>1, <1>2 DEF requestVars, KnownByName
<1>3. ASSUME NEW r \in Req, RequestStep(r)
      PROVE  KnownByName'
  <2>1. \A q \in Req \ {r} : Known(q)'
    BY <1>1, <1>3, OtherRequestsKeep
  <2>2. ASSUME task'[r] = "delete", DeletionBegins(r), UNCHANGED tableVars
        PROVE  Known(r)'
    BY <2>2, HolderLives DEF DeletionBegins, tableVars, userVars
  <2>3. ASSUME task'[r] = "delete", DeletionGoesOn(r), UNCHANGED tableVars
        PROVE  Known(r)'
    BY <2>3 DEF DeletionGoesOn, KnownByName, Living, Exists, tableVars, userVars
  <2>4. Known(r)'
    BY <2>2, <2>3, <1>3, DeletionProgress
  <2>. QED  BY <2>1, <2>4 DEF KnownByName
<1>. QED  BY <1>2, <1>3, ChatKeeps DEF Next, vars

(* Who is found is not the asker. *)
LEMMA DeletesAnotherStep ==
    ASSUME TypeOK, Holdings, KnownByName, DeletesAnother, [Next]_vars
    PROVE  DeletesAnother'
<1>. DEFINE Another(r) == task[r] = "delete" /\ stage[r] \in {"check", "commit"} /\ Living(asker[r])
                              => found[r] # asker[r][1]
<1>1. ASSUME NEW q \in Req, task'[q] = task[q], stage'[q] = stage[q],
             asker'[q] = asker[q], found'[q] = found[q]
      PROVE  Another(q)'
  BY <1>1, LifeGrows DEF Holdings, DeletesAnother
<1>2. CASE UNCHANGED requestVars
  BY <1>1, <1>2 DEF requestVars, DeletesAnother
<1>3. ASSUME NEW r \in Req, RequestStep(r)
      PROVE  DeletesAnother'
  <2>1. \A q \in Req \ {r} : Another(q)'
    BY <1>1, <1>3, OtherRequestsKeep
  <2>2. ASSUME task'[r] = "delete", DeletionGoesOn(r), UNCHANGED tableVars
        PROVE  Another(r)'
    BY <2>2 DEF DeletionGoesOn, IsTarget, KnownByName, DeletesAnother, Living, Exists,
       tableVars, userVars
  <2>3. Another(r)'
    BY <2>2, <1>3, DeletionProgress DEF DeletionBegins
  <2>. QED  BY <2>1, <2>3 DEF DeletesAnother
<1>. QED  BY <1>2, <1>3, ChatKeeps DEF Next, vars

(* Some administrator stays out of every deletion's reach. *)
LEMMA AdminSafeStep ==
    ASSUME TypeOK, Holdings, AdminSafe, [Next]_vars
    PROVE  AdminSafe'
<1>. DEFINE Past(r) == task[r] = "delete" /\ stage[r] \in {"target", "check", "commit"}
<1>. DEFINE Unharmed(i) == admin[i] /\ \A r \in Req : ~Condemns(r, i)
<1>1. CASE UNCHANGED <<userVars, requestVars, wiped>>
  BY <1>1 DEF AdminSafe, Condemns, HasAdmin, userVars, requestVars
<1>2. ASSUME NEW r \in Req, RequestStep(r), ~wiped'
      PROVE  AdminSafe'
  <2>1. ~wiped
    <3>1. ~WipeAllData(r)
      BY <1>2 DEF WipeAllData
    <3>. QED  BY <3>1, <1>2, UserChange DEF CreatesAt, SetAdmin, DeleteUser, historyVars
  <2>2. \A q \in Req \ {r} : /\ Past(q)' <=> Past(q)
                             /\ \A i : Condemns(q, i)' <=> Condemns(q, i)
    BY <1>2, OtherRequestsKeep DEF Condemns
  <2>3. \A q \in Req : Past(q) => HasAdmin
    BY <2>1 DEF AdminSafe
  <2>4. HasAdmin => \E i \in Id : Unharmed(i)
    BY <2>1 DEF AdminSafe
  <2>5. ASSUME admin' = admin
        PROVE  AdminSafe'
    <3>1. Past(r)' => HasAdmin
      BY <1>2, <2>3, DeletionProgress
         DEF DeletionBegins, DeletionGoesOn, MayAdminister, HasAdmin, Holdings
    <3>2. ASSUME NEW i \in Id, Unharmed(i)
          PROVE  Unharmed(i)'
      <4>1. ~Condemns(r, i)'
        BY <1>2, <3>2, DeletionProgress
           DEF Condemns, DeletionBegins, DeletionGoesOn, Deletable
      <4>2. admin'[i] /\ \A q \in Req \ {r} : ~Condemns(q, i)'
        BY <2>2, <2>5, <3>2
      <4>. QED  BY <4>1, <4>2
    <3>3. HasAdmin' <=> HasAdmin
      BY <2>5 DEF HasAdmin, Id
    <3>4. \A q \in Req : Past(q)' => HasAdmin'
      BY <2>2, <2>3, <3>1, <3>3
    <3>5. HasAdmin' => \E i \in Id : Unharmed(i)'
      BY <2>4, <3>2, <3>3
    <3>. QED  BY <3>4, <3>5 DEF AdminSafe, Id
  <2>6. ASSUME ~Past(r)', NEW i \in Id, Unharmed(i), admin'[i]
        PROVE  AdminSafe'
    <3>1. Unharmed(i)'
      BY <2>2, <2>6 DEF Condemns
    <3>2. HasAdmin'
      BY <2>6 DEF HasAdmin, Id
    <3>. QED  BY <3>1, <3>2 DEF AdminSafe, Id
  <2>7. CASE SetAdmin(r)
    <3>1. ~Past(r)'
      BY <2>7 DEF SetAdmin, Finish, GoTo, TypeOK
    <3>2. ASSUME NEW i \in Id, Unharmed(i)
          PROVE  admin'[i]
      BY <2>7, <3>2 DEF SetAdmin, TypeOK, Holdings
    <3>3. CASE HasAdmin
      BY <2>4, <2>6, <3>1, <3>2, <3>3
    <3>4. CASE ~HasAdmin
      <4>1. \A q \in Req : ~Past(q)'
        BY <2>2, <2>3, <3>1, <3>4
      <4>2. \A q \in Req, i \in Id : ~Condemns(q, i)'
        BY <4>1 DEF Condemns
      <4>. QED  BY <4>1, <4>2 DEF AdminSafe, HasAdmin, Id
    <3>. QED  BY <3>3, <3>4
  <2>8. CASE DeleteUser(r)
    <3>1. ~Past(r)'
      BY <2>8 DEF DeleteUser, Finish, GoTo, TypeOK
    <3>2. Past(r)
      BY <2>8 DEF DeleteUser
    <3>3. PICK i \in Id : Unharmed(i)
      BY <2>3, <2>4, <3>2
    <3>4. found[r] # i
      BY <2>8, <3>3 DEF DeleteUser, Condemns
    <3>5. admin'[i]
      BY <2>8, <3>3, <3>4 DEF DeleteUser, TypeOK
    <3>. QED  BY <2>6, <3>1, <3>3, <3>5
  <2>. QED  BY <1>2, <2>5, <2>7, <2>8, UserChange DEF CreatesAt, WipeAllData, userVars
<1>. QED  BY <1>1, <1>2, ChatKeeps DEF Next, vars, tableVars, historyVars, AdminSafe

(* So a deletion never takes the last administrator. *)
LEMMA AdminRemainsStep ==
    ASSUME TypeOK, Holdings, AdminSafe, wiped \in BOOLEAN, [Next]_vars, HasAdmin
    PROVE  HasAdmin' \/ wiped'
<1>1. ASSUME NEW r \in Req, RequestStep(r)
      PROVE  HasAdmin' \/ wiped'
  <2>1. CASE admin' = admin
    BY <2>1 DEF HasAdmin, Id
  <2>2. CASE SetAdmin(r)
    <3>1. PICK i \in Id : admin[i]
      BY DEF HasAdmin
    <3>2. admin'[i]
      BY <2>2, <3>1 DEF SetAdmin, TypeOK, Holdings
    <3>. QED  BY <3>2 DEF HasAdmin, Id
  <2>3. CASE DeleteUser(r) /\ wiped
    BY <2>3 DEF DeleteUser, historyVars
  <2>4. CASE DeleteUser(r) /\ ~wiped
    <3>1. PICK i \in Id : admin[i] /\ ~Condemns(r, i)
      BY <2>4 DEF AdminSafe
    <3>2. admin'[i]
      BY <2>4, <3>1 DEF DeleteUser, Condemns, TypeOK
    <3>. QED  BY <3>2 DEF HasAdmin, Id
  <2>5. CASE WipeAllData(r)
    BY <2>5 DEF WipeAllData
  <2>. QED  BY <1>1, <2>1, <2>2, <2>3, <2>4, <2>5, UserChange DEF CreatesAt, userVars
<1>2. CASE UNCHANGED userVars
  BY <1>2 DEF userVars, HasAdmin, Id
<1>. QED  BY <1>1, <1>2, ChatKeeps DEF Next, vars, tableVars

-----------------------------------------------------------------------------
(* Friends by id are friends as accounts. *)
LEMMA FriendsMetStep ==
    ASSUME TypeOK, Holdings, FriendsMet, [Next]_vars
    PROVE  FriendsMet'
<1>. DEFINE Met(p) == FirstLives(p[1], p[2]) => <<<<p[1], 1>>, <<p[2], 1>>>> \in met
<1>. DEFINE Pair(p) == life[p[1]] >= 1 /\ life[p[2]] >= 1 /\ Met(p)
<1>. DEFINE Saving(c) == chat[c] = "save" /\ FirstLives(conn[c][1], to[c]) =>
                            <<conn[c], <<to[c], 1>>>> \in met
<1>. DEFINE Row(m) == /\ Lived(m[1]) /\ life[m[2]] >= 1
                      /\ FirstLives(m[1][1], m[2]) => <<m[1], <<m[2], 1>>>> \in met
<1>1. /\ \A i \in Id : life[i] \in Nat /\ life'[i] \in Nat /\ life'[i] >= life[i]
      /\ \A i, j \in Id : life[i] >= 1 /\ life[j] >= 1 /\ FirstLives(i, j)' => FirstLives(i, j)
  <2>1. \A i \in Id : life[i] \in Nat /\ life'[i] \in Nat /\ life'[i] >= life[i]
    BY TypeStep, LifeGrows, BoundAssumption DEF TypeOK
  <2>. QED  BY <2>1 DEF FirstLives
<1>2. ASSUME NEW p \in Id \X Id, Pair(p), met \subseteq met'
      PROVE  Pair(p)'
  <2>1. p[1] \in Id /\ p[2] \in Id
    OBVIOUS
  <2>. QED  BY <1>1, <1>2, <2>1
<1>3. ASSUME NEW m \in Account \X Id, Row(m), met \subseteq met'
      PROVE  Row(m)'
  <2>1. m[1] \in Account /\ m[2] \in Id /\ m[1][1] \in Id /\ m[1][2] \in Nat
    BY AccountParts
  <2>2. life[m[1][1]] >= 1
    BY <1>1, <1>3, <2>1, AccountParts, BoundAssumption DEF Lived
  <2>3. Lived(m[1])'
    BY <1>3, LifeGrows
  <2>. QED  BY <1>1, <1>3, <2>1, <2>2, <2>3
<1>4. ASSUME NEW c \in Conn, Saving(c), chat'[c] = chat[c], conn'[c] = conn[c], to'[c] = to[c],
             met \subseteq met'
      PROVE  Saving(c)'
  <2>1. CASE chat[c] = "save"
    <3>1. Lived(conn[c]) /\ to[c] \in Id /\ life[to[c]] >= 1
      BY <2>1 DEF Holdings
    <3>2. conn[c][1] \in Id /\ life[conn[c][1]] >= 1
      BY <1>1, <3>1, AccountParts, BoundAssumption DEF Lived
    <3>. QED  BY <1>1, <1>4, <3>1, <3>2
  <2>. QED  BY <1>4, <2>1
<1>5. /\ \A p \in friends : p \in Id \X Id /\ Pair(p)
      /\ \A c \in Conn : Saving(c)
      /\ \A m \in messages : m \in Account \X Id /\ Row(m)
  BY DEF FriendsMet, TypeOK
<1>6. ASSUME friends' \subseteq friends, messages' \subseteq messages, met \subseteq met',
             \A c \in Conn : Saving(c)'
      PROVE  FriendsMet'
  <2>1. \A p \in friends' : Pair(p)'
    BY <1>2, <1>5, <1>6
  <2>2. \A m \in messages' : Row(m)'
    BY <1>3, <1>5, <1>6
  <2>. QED  BY <1>6, <2>1, <2>2 DEF FriendsMet
<1>7. CASE UNCHANGED <<friends, messages, chatVars, met>>
  <2>1. \A c \in Conn : Saving(c)'
    BY <1>4, <1>5, <1>7 DEF chatVars
  <2>. QED  BY <1>6, <1>7, <2>1
<1>8. ASSUME NEW r \in Req, RequestStep(r)
      PROVE  FriendsMet'
  <2>1. /\ friends' \subseteq friends /\ messages' \subseteq messages /\ met \subseteq met'
        /\ chat' = chat /\ conn' = conn /\ to' = to
    BY <1>8, RequestKeeps DEF chatVars
  <2>2. \A c \in Conn : Saving(c)'
    BY <1>4, <1>5, <2>1
  <2>. QED  BY <1>6, <2>1, <2>2
<1>9. ASSUME NEW c \in Conn, ChatStep(c)
      PROVE  FriendsMet'
  <2>1. ASSUME chat'[c] # "save", friends' = friends, messages' = messages, met' = met,
               \A d \in Conn \ {c} : chat'[d] = chat[d] /\ conn'[d] = conn[d] /\ to'[d] = to[d]
        PROVE  FriendsMet'
    <3>1. Saving(c)'
      BY <2>1
    <3>2. \A d \in Conn \ {c} : Saving(d)'
      BY <1>4, <1>5, <2>1
    <3>3. \A d \in Conn : Saving(d)'
      BY <3>1, <3>2
    <3>. QED  BY <1>6, <2>1, <3>3
  <2>2. ASSUME NEW d \in Conn, Lived(conn[d]), life[conn[d][1]] = 1
        PROVE  conn[d] = <<conn[d][1], 1>>
    <3>1. conn[d] = <<conn[d][1], conn[d][2]>> /\ conn[d][2] \in 1 .. MaxLife /\ conn[d][2] <= 1
      BY <2>2, AccountParts DEF Lived
    <3>. QED  BY <3>1, BoundAssumption
  <2>3. ASSUME NEW a \in sessions, Authenticate(c, a)
        PROVE  FriendsMet'
    BY <2>1, <2>3 DEF Authenticate, TypeOK, tableVars, historyVars
  <2>4. ASSUME NEW d \in Conn, Befriend(c, d)
        PROVE  FriendsMet'
    <3>. DEFINE i == conn[c][1]
    <3>. DEFINE j == conn[d][1]
    <3>1. Lived(conn[c]) /\ Lived(conn[d])
      BY <2>4 DEF Befriend, HasPacket, Holdings
    <3>2. i \in Id /\ j \in Id /\ life[i] >= 1 /\ life[j] >= 1
      BY <2>4, <3>1, AccountParts DEF Befriend, HasPacket, Holdings, Lived
    <3>3. met' = met \cup {<<conn[c], conn[d]>>, <<conn[d], conn[c]>>} /\ life' = life
      BY <2>4 DEF Befriend, userVars
    <3>4. FirstLives(i, j) => conn[c] = <<i, 1>> /\ conn[d] = <<j, 1>>
      BY <2>2, <3>1 DEF FirstLives
    <3>5. \A p : p = <<i, j>> \/ p = <<j, i>> => Pair(p)'
      BY <3>2, <3>3, <3>4 DEF FirstLives
    <3>6. \A p \in friends : Pair(p)'
      BY <1>2, <1>5, <3>3
    <3>7. friends' = friends \cup {<<i, j>>, <<j, i>>}
      BY <2>4 DEF Befriend
    <3>8. \A p \in friends' : Pair(p)'
      <4>1. \A p \in friends' : p = <<i, j>> \/ p = <<j, i>> \/ p \in friends
        BY <3>7
      <4>. QED  BY <3>5, <3>6, <4>1
    <3>9. \A e \in Conn : Saving(e)'
      BY <1>4, <1>5, <2>4, <3>3 DEF Befriend, chatVars
    <3>10. \A m \in messages' : Row(m)'
      BY <1>3, <1>5, <2>4, <3>3 DEF Befriend
    <3>. QED  BY <3>8, <3>9, <3>10 DEF FriendsMet
  <2>5. ASSUME NEW n \in Name, FindAddressee(c, n)
        PROVE  FriendsMet'
    BY <2>1, <2>5 DEF FindAddressee, HasPacket, TypeOK, tableVars, historyVars
  <2>6. CASE CheckFriends(c)
    <3>1. CASE AreFriends(conn[c][1], to[c])
      <4>1. Pair(<<conn[c][1], to[c]>>) /\ Lived(conn[c])
        BY <1>5, <2>6, <3>1 DEF CheckFriends, AreFriends, Holdings
      <4>2. UNCHANGED <<tableVars, conn, to, met>>
        BY <2>6, <3>1 DEF CheckFriends, historyVars
      <4>3. Saving(c)'
        BY <2>2, <4>1, <4>2 DEF FirstLives, tableVars, userVars
      <4>4. \A d \in Conn \ {c} : Saving(d)'
        BY <1>4, <1>5, <2>6, <4>2 DEF CheckFriends, TypeOK
      <4>5. \A d \in Conn : Saving(d)'
        BY <4>3, <4>4
      <4>. QED  BY <1>6, <4>2, <4>5 DEF tableVars
    <3>2. CASE ~AreFriends(conn[c][1], to[c])
      BY <2>1, <2>6, <3>2 DEF CheckFriends, TypeOK, tableVars, historyVars
    <3>. QED  BY <3>1, <3>2
  <2>7. CASE SaveMessage(c)
    <3>1. Lived(conn[c]) /\ life[to[c]] >= 1 /\ Saving(c) /\ chat[c] = "save"
      BY <1>5, <2>7 DEF SaveMessage, Holdings
    <3>2. UNCHANGED <<userVars, friends, conn, met>> /\ messages' = messages \cup {<<conn[c], to[c]>>}
      BY <2>7 DEF SaveMessage, historyVars
    <3>3. \A m : m = <<conn[c], to[c]>> => Row(m)'
      BY <3>1, <3>2 DEF FirstLives, Lived, userVars, Account, Id
    <3>4. \A m \in messages' : Row(m)'
      <4>1. \A m \in messages' : m = <<conn[c], to[c]>> \/ m \in messages
        BY <3>2
      <4>2. \A m \in messages : Row(m)'
        BY <1>3, <1>5, <3>2
      <4>. QED  BY <3>3, <4>1, <4>2
    <3>5. \A e \in Conn : Saving(e)'
      BY <1>4, <1>5, <2>7, <3>2 DEF SaveMessage, TypeOK
    <3>6. \A p \in friends' : Pair(p)'
      BY <1>2, <1>5, <3>2
    <3>. QED  BY <3>4, <3>5, <3>6 DEF FriendsMet
  <2>8. CASE SendFails(c)
    BY <2>1, <2>8 DEF SendFails, TypeOK, tableVars, historyVars
  <2>9. CASE Disconnect(c)
    BY <2>1, <2>9 DEF Disconnect, TypeOK, tableVars, historyVars
  <2>10. CASE Enter(c)
    <3>1. UNCHANGED <<userVars, friends, messages, conn, to, met>>
      BY <2>10 DEF Enter, tableVars, historyVars
    <3>2. \A d \in Conn : chat'[d] = "save" => chat[d] = "save"
      BY <2>10, EnterMoves
    <3>3. \A d \in Conn : Saving(d)'
      BY <1>4, <1>5, <3>1, <3>2
    <3>. QED  BY <1>6, <3>1, <3>3 DEF userVars
  <2>. QED
    BY <1>9, <2>3, <2>4, <2>5, <2>6, <2>7, <2>8, <2>9, <2>10 DEF ChatStep
<1>. QED  BY <1>7, <1>8, <1>9 DEF Next, vars, tableVars, historyVars

-----------------------------------------------------------------------------
(* AccountsInv is inductive: the types, what requests and connections hold, *)
(* and what each of the properties below rests on.                          *)
THEOREM AccountsInvariant == Spec => []AccountsInv
<1>1. Init => AccountsInv
  <2>. SUFFICES ASSUME Init PROVE AccountsInv
    OBVIOUS
  <2>1. TypeOK
    <3>1. /\ named \in [Id -> Name \cup {NoName}] /\ admin \in [Id -> BOOLEAN]
          /\ life \in [Id -> 0 .. MaxLife]
      BY BoundAssumption DEF Init
    <3>2. /\ stage \in [Req -> Stage] /\ task \in [Req -> Task]
          /\ asked \in [Req -> Name \cup {NoName}] /\ found \in [Req -> Id \cup {0}]
          /\ asker \in [Req -> Account \cup {NoAccount}] /\ by \in [Req -> Name \cup {NoName}]
      BY DEF Init, Stage, Task
    <3>3. /\ chat \in [Conn -> {"off", "register", "read", "packet", "friends?", "save"}]
          /\ conn \in [Conn -> Account \cup {NoAccount}] /\ to \in [Conn -> Id \cup {0}]
      BY DEF Init
    <3>. QED  BY <3>1, <3>2, <3>3 DEF Init, TypeOK
  <2>2. Holdings
    BY DEF Init, Holdings, Exists
  <2>3. KnownByName /\ DeletesAnother
    BY DEF Init, KnownByName, DeletesAnother
  <2>4. AdminSafe
    BY DEF Init, AdminSafe, HasAdmin
  <2>5. FriendsMet
    BY DEF Init, FriendsMet
  <2>. QED  BY <2>1, <2>2, <2>3, <2>4, <2>5 DEF AccountsInv
<1>2. AccountsInv /\ [Next]_vars => AccountsInv'
  BY TypeStep, HoldingsStep, KnownByNameStep, DeletesAnotherStep, AdminSafeStep, FriendsMetStep
     DEF AccountsInv
<1>. QED  BY <1>1, <1>2, PTL DEF Spec

(* The types of the tables, the requests and the connections. *)
THEOREM TypeCorrect == Spec => []TypeOK
<1>1. AccountsInv => TypeOK
  BY DEF AccountsInv
<1>. QED  BY <1>1, AccountsInvariant, PTL

(* No request deletes the account it acts for while that lives (admin.go,   *)
(* DeleteUser), whatever requests run at the same time.                     *)
THEOREM DeletionSparesAsker == Spec => []DeletesAnother
<1>1. AccountsInv => DeletesAnother
  BY DEF AccountsInv
<1>. QED  BY <1>1, AccountsInvariant, PTL

(* With one administrator there is always one, until the database is wiped. *)
THEOREM AdministratorRemains == Spec => AdminRemains
<1>1. AccountsInv /\ [Next]_vars => [HasAdmin => HasAdmin' \/ wiped']_vars
  BY AdminRemainsStep DEF AccountsInv, TypeOK
<1>. QED  BY <1>1, AccountsInvariant, PTL DEF Spec, AdminRemains

(* Only friends get each other's messages, as long as no id was reused.     *)
THEOREM MessagesBetweenFriends == Spec => []FriendsUnlessReused
<1>1. ASSUME AccountsInv
      PROVE  FriendsUnlessReused
  <2>1. ASSUME NEW m \in messages, life[m[1][1]] = 1, life[m[2]] = 1
        PROVE  SentBetweenFriends(m)
    BY <1>1, <2>1 DEF AccountsInv, FriendsMet, FirstLives, SentBetweenFriends, AccountAt
  <2>. QED  BY <2>1 DEF FriendsUnlessReused
<1>. QED  BY <1>1, AccountsInvariant, PTL

=============================================================================
