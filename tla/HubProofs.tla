----------------------------- MODULE HubProofs -----------------------------
(***************************************************************************)
(* What holds of the hub for every number of users, connections and        *)
(* messages.  The invariant HubInv of module Hub is inductive; each lemma  *)
(* ...Step shows that a step keeps one of its conjuncts, action by action, *)
(* from the conjuncts it needs.  The safety properties follow from it, and *)
(* so does the refinement of Mailbox.                                      *)
(***************************************************************************)
EXTENDS Hub, TLAPS

-----------------------------------------------------------------------------
(* Register moves its own handler, and at most the one it replaces, which   *)
(* then has a packet in hand and its connection closed.                     *)
LEMMA RegisterMoves ==
    ASSUME TypeOK, HandlerShape, RegistryConsistent, NEW c \in Conn, Register(c)
    PROVE  /\ pc' \in [Conn -> Stage] /\ pc'[c] = "contacts" /\ ~closed'[c]
           /\ \A d \in Conn : closed[d] => closed'[d]
           /\ \A d \in Conn \ {c} :
                 pc'[d] = pc[d] \/ (pc[d] = "read" /\ pc'[d] = "packet" /\ closed'[d])
<1>1. clients[user[c]] # c /\ ~closed[c]
  BY NullAssumption
     DEF Register, TypeOK, HandlerShape, RegistryConsistent, Serving,
         Bootstrapping, Delivering
<1>2. PICK stage \in {"read", "packet"} :
        pc' = [d \in Conn |-> IF d = c THEN "contacts"
                              ELSE IF d \in Replaced(c) /\ pc[d] = "read" THEN stage
                              ELSE pc[d]]
  BY DEF Register
<1>3. closed' = [d \in Conn |-> closed[d] \/ d \in Replaced(c)]
  BY DEF Register
<1>4. \A d \in Conn : pc'[d] \in Stage
  BY <1>2 DEF TypeOK, Stage, Serving, Bootstrapping
<1>5. pc' \in [Conn -> Stage] /\ pc'[c] = "contacts"
  BY <1>2, <1>4
<1>6. ~closed'[c] /\ \A d \in Conn : closed[d] => closed'[d]
  BY <1>1, <1>3 DEF Replaced
<1>7. \A d \in Conn \ {c} :
        pc'[d] = pc[d] \/ (pc[d] = "read" /\ pc'[d] = "packet" /\ closed'[d])
  BY <1>2, <1>3
<1>. QED  BY <1>5, <1>6, <1>7

(* A step keeps the types: the message a handler marks is a message, and    *)
(* the recipient it looks up is the addressee of a stored row.              *)
LEMMA TypeStep ==
    ASSUME TypeOK, HandlerShape, HeldForAddressee, [Next]_vars
    PROVE  TypeOK'
<1>. USE NullAssumption, FriendsAssumption, HoldsAssumption
       DEF GoTo, Saved, Stage, Serving, Bootstrapping, Delivering,
           TypeOK, HandlerShape, HeldForAddressee
<1>1. CASE UNCHANGED vars
  BY <1>1 DEF vars, handlerVars, storeVars, netVars
<1>2. ASSUME NEW c \in Conn, Register(c)
      PROVE  TypeOK'
  BY <1>2 DEF Register, Replaced, storeVars, netVars
<1>3. ASSUME NEW c \in Conn, Unregister(c)
      PROVE  TypeOK'
  BY <1>3 DEF Unregister, IsEntry, storeVars, netVars
<1>4. ASSUME NEW c \in Conn, Close(c)
      PROVE  TypeOK'
  BY <1>4 DEF Close, storeVars, netVars
<1>5. ASSUME NEW c \in Conn, SendContacts(c)
      PROVE  TypeOK'
  BY <1>5 DEF SendContacts, storeVars, netVars
<1>6. ASSUME NEW c \in Conn, ListPending(c)
      PROVE  TypeOK'
  BY <1>6 DEF ListPending, Undelivered, storeVars, netVars
<1>7. ASSUME NEW c \in Conn, NEW m \in Message, WritePending(c, m)
      PROVE  TypeOK'
  BY <1>7 DEF WritePending, CanWriteMessage, CanWrite, PutOnWire,
     storeVars, netVars
<1>8. ASSUME NEW c \in Conn, MarkPending(c)
      PROVE  TypeOK'
  BY <1>8 DEF MarkPending, Marked, storeVars, netVars
<1>9. ASSUME NEW c \in Conn, BootstrapDone(c)
      PROVE  TypeOK'
  BY <1>9 DEF BootstrapDone, storeVars, netVars
<1>10. ASSUME NEW c \in Conn, BootstrapFails(c)
      PROVE  TypeOK'
  BY <1>10 DEF BootstrapFails, storeVars, netVars
<1>11. ASSUME NEW c \in Conn, Lookup(c)
      PROVE  TypeOK'
  BY <1>11 DEF Lookup, Recipient, storeVars, netVars
<1>12. ASSUME NEW c \in Conn, Push(c)
      PROVE  TypeOK'
  BY <1>12 DEF Push, CanWriteMessage, CanWrite, PutOnWire, storeVars, netVars
<1>13. ASSUME NEW c \in Conn, PushFails(c)
      PROVE  TypeOK'
  BY <1>13 DEF PushFails, WriteMessageMayFail, Gone, storeVars, netVars
<1>14. ASSUME NEW c \in Conn, MarkDelivered(c)
      PROVE  TypeOK'
  BY <1>14 DEF MarkDelivered, Marked, storeVars, netVars
<1>15. ASSUME NEW c \in Conn, MarkFails(c)
      PROVE  TypeOK'
  BY <1>15 DEF MarkFails, storeVars, netVars
<1>16. ASSUME NEW c \in Conn, ReadFails(c)
      PROVE  TypeOK'
  BY <1>16 DEF ReadFails, Gone, storeVars, netVars
<1>17. ASSUME NEW c \in Conn, Accept(c)
      PROVE  TypeOK'
  BY <1>17 DEF Accept, storeVars, netVars
<1>18. ASSUME NEW c \in Conn, Collect(c)
      PROVE  TypeOK'
  BY <1>18 DEF Collect, storeVars, netVars
<1>19. ASSUME NEW c \in Conn, NEW u \in User, Authenticate(c, u)
      PROVE  TypeOK'
  BY <1>19 DEF Authenticate, storeVars, netVars
<1>20. ASSUME NEW c \in Conn, NEW u \in User, AuthReplyFails(c, u)
      PROVE  TypeOK'
  BY <1>20 DEF AuthReplyFails, storeVars, netVars
<1>21. ASSUME NEW c \in Conn, AuthRejected(c)
      PROVE  TypeOK'
  BY <1>21 DEF AuthRejected, storeVars, netVars
<1>22. ASSUME NEW c \in Conn, NEW v \in User, NEW m \in Message, SaveMessage(c, v, m)
      PROVE  TypeOK'
  BY <1>22 DEF SaveMessage, storeVars, netVars
<1>23. ASSUME NEW c \in Conn, LinkLost(c)
      PROVE  TypeOK'
  BY <1>23 DEF LinkLost, handlerVars, storeVars, netVars
<1>24. CASE Restart
  BY <1>24 DEF Restart, storeVars, netVars
<1>25. ASSUME NEW c \in Conn, SendFails(c)
      PROVE  TypeOK'
  BY <1>25 DEF SendFails, storeVars, netVars
<1>. QED
    BY <1>1, <1>2, <1>3, <1>4, <1>5, <1>6, <1>7, <1>8, <1>9, <1>10, <1>11,
     <1>12, <1>13, <1>14, <1>15, <1>16, <1>17, <1>18, <1>19, <1>20, <1>21,
     <1>22, <1>23, <1>24, <1>25 DEF Next, HandlerStep, PeerStep

(* A handler's stage keeps telling what else it holds.                      *)
LEMMA ShapeStep ==
    ASSUME TypeOK, HandlerShape, RegistryConsistent, HeldForAddressee, [Next]_vars
    PROVE  HandlerShape'
<1>. USE NullAssumption, FriendsAssumption, HoldsAssumption
       DEF GoTo, Saved, Stage, Serving, Bootstrapping, Delivering,
           TypeOK, HandlerShape, RegistryConsistent, HeldForAddressee
<1>1. CASE UNCHANGED vars
  BY <1>1 DEF vars, handlerVars, storeVars, netVars
<1>2. ASSUME NEW c \in Conn, Register(c)
      PROVE  HandlerShape'
  <2>1. pc[c] = "register" /\ UNCHANGED <<user, queue, work, target, written>>
    BY <1>2 DEF Register
  <2>2. /\ pc' \in [Conn -> Stage] /\ pc'[c] = "contacts" /\ ~closed'[c]
        /\ \A d \in Conn : closed[d] => closed'[d]
        /\ \A d \in Conn \ {c} :
              \/ pc'[d] = pc[d] /\ (pc[d] \in {"free", "auth", "register"} => ~closed'[d])
              \/ pc[d] = "read" /\ pc'[d] = "packet" /\ closed'[d]
    <3>1. \A d \in Conn : pc[d] \in {"free", "auth", "register"} => ~closed'[d]
      BY <1>2 DEF Register, Replaced
    <3>. QED  BY <1>2, <3>1, RegisterMoves
  <2>. QED  BY <2>1, <2>2
<1>3. ASSUME NEW c \in Conn, Unregister(c)
      PROVE  HandlerShape'
  BY <1>3 DEF Unregister, IsEntry, storeVars, netVars
<1>4. ASSUME NEW c \in Conn, Close(c)
      PROVE  HandlerShape'
  BY <1>4 DEF Close, storeVars, netVars
<1>5. ASSUME NEW c \in Conn, SendContacts(c)
      PROVE  HandlerShape'
  BY <1>5 DEF SendContacts, storeVars, netVars
<1>6. ASSUME NEW c \in Conn, ListPending(c)
      PROVE  HandlerShape'
  BY <1>6 DEF ListPending, Undelivered, storeVars, netVars
<1>7. ASSUME NEW c \in Conn, NEW m \in Message, WritePending(c, m)
      PROVE  HandlerShape'
  BY <1>7 DEF WritePending, CanWriteMessage, CanWrite, PutOnWire,
     storeVars, netVars
<1>8. ASSUME NEW c \in Conn, MarkPending(c)
      PROVE  HandlerShape'
  BY <1>8 DEF MarkPending, Marked, storeVars, netVars
<1>9. ASSUME NEW c \in Conn, BootstrapDone(c)
      PROVE  HandlerShape'
  BY <1>9 DEF BootstrapDone, storeVars, netVars
<1>10. ASSUME NEW c \in Conn, BootstrapFails(c)
      PROVE  HandlerShape'
  BY <1>10 DEF BootstrapFails, storeVars, netVars
<1>11. ASSUME NEW c \in Conn, Lookup(c)
      PROVE  HandlerShape'
  BY <1>11 DEF Lookup, Recipient, storeVars, netVars
<1>12. ASSUME NEW c \in Conn, Push(c)
      PROVE  HandlerShape'
  BY <1>12 DEF Push, CanWriteMessage, CanWrite, PutOnWire, storeVars, netVars
<1>13. ASSUME NEW c \in Conn, PushFails(c)
      PROVE  HandlerShape'
  BY <1>13 DEF PushFails, WriteMessageMayFail, Gone, storeVars, netVars
<1>14. ASSUME NEW c \in Conn, MarkDelivered(c)
      PROVE  HandlerShape'
  BY <1>14 DEF MarkDelivered, Marked, storeVars, netVars
<1>15. ASSUME NEW c \in Conn, MarkFails(c)
      PROVE  HandlerShape'
  BY <1>15 DEF MarkFails, storeVars, netVars
<1>16. ASSUME NEW c \in Conn, ReadFails(c)
      PROVE  HandlerShape'
  BY <1>16 DEF ReadFails, Gone, storeVars, netVars
<1>17. ASSUME NEW c \in Conn, Accept(c)
      PROVE  HandlerShape'
  BY <1>17 DEF Accept, storeVars, netVars
<1>18. ASSUME NEW c \in Conn, Collect(c)
      PROVE  HandlerShape'
  BY <1>18 DEF Collect, storeVars, netVars
<1>19. ASSUME NEW c \in Conn, NEW u \in User, Authenticate(c, u)
      PROVE  HandlerShape'
  BY <1>19 DEF Authenticate, storeVars, netVars
<1>20. ASSUME NEW c \in Conn, NEW u \in User, AuthReplyFails(c, u)
      PROVE  HandlerShape'
  BY <1>20 DEF AuthReplyFails, storeVars, netVars
<1>21. ASSUME NEW c \in Conn, AuthRejected(c)
      PROVE  HandlerShape'
  BY <1>21 DEF AuthRejected, storeVars, netVars
<1>22. ASSUME NEW c \in Conn, NEW v \in User, NEW m \in Message, SaveMessage(c, v, m)
      PROVE  HandlerShape'
  BY <1>22 DEF SaveMessage, storeVars, netVars
<1>23. ASSUME NEW c \in Conn, LinkLost(c)
      PROVE  HandlerShape'
  BY <1>23 DEF LinkLost, handlerVars, storeVars, netVars
<1>24. CASE Restart
  BY <1>24 DEF Restart, storeVars, netVars
<1>25. ASSUME NEW c \in Conn, SendFails(c)
      PROVE  HandlerShape'
  BY <1>25 DEF SendFails, storeVars, netVars
<1>. QED
    BY <1>1, <1>2, <1>3, <1>4, <1>5, <1>6, <1>7, <1>8, <1>9, <1>10, <1>11,
     <1>12, <1>13, <1>14, <1>15, <1>16, <1>17, <1>18, <1>19, <1>20, <1>21,
     <1>22, <1>23, <1>24, <1>25 DEF Next, HandlerStep, PeerStep

(* Register and Unregister are the steps to look at: the first closes the   *)
(* connection it replaces, the second leaves a successor alone.             *)
LEMMA RegistryStep ==
    ASSUME TypeOK, HandlerShape, RegistryConsistent, [Next]_vars
    PROVE  RegistryConsistent'
<1>. USE NullAssumption, FriendsAssumption, HoldsAssumption
       DEF GoTo, Saved, Stage, Serving, Bootstrapping, Delivering,
           TypeOK, HandlerShape, RegistryConsistent
<1>1. CASE UNCHANGED vars
  BY <1>1 DEF vars, handlerVars, storeVars, netVars
<1>2. ASSUME NEW c \in Conn, Register(c)
      PROVE  RegistryConsistent'
  <2>1. /\ user[c] \in User /\ ~closed[c]
        /\ clients' = [clients EXCEPT ![user[c]] = c]
        /\ pc' \in [Conn -> Stage] /\ pc'[c] = "contacts"
        /\ \A d \in Conn \ {c} :
              pc'[d] = pc[d] \/ (pc[d] = "read" /\ pc'[d] = "packet")
        /\ user' = user
        /\ closed' = [d \in Conn |-> closed[d] \/ d = clients[user[c]]]
    BY <1>2 DEF Register, Replaced
  <2>2. clients[user[c]] # c
    BY <2>1, <1>2 DEF Register
  <2>3. ASSUME NEW u \in User, clients'[u] # NoConn
        PROVE  /\ user'[clients'[u]] = u
               /\ pc'[clients'[u]] \in Serving
               /\ ~closed'[clients'[u]]
    <3>1. CASE u = user[c]
      BY <2>1, <2>2, <3>1
    <3>2. CASE u # user[c]
      BY <2>1, <2>3, <3>2
    <3>. QED BY <3>1, <3>2
  <2>4. ASSUME NEW d \in Conn, pc'[d] \in Serving, ~closed'[d]
        PROVE  clients'[user'[d]] = d
    <3>1. CASE d = c
      BY <2>1, <3>1
    <3>2. CASE d # c
      <4>1. ~closed[d] /\ d # clients[user[c]]
        BY <2>1, <2>4, Zenon
      <4>2. pc[d] \in Serving
        BY <2>1, <2>4, <3>2
      <4>3. clients[user[d]] = d
        BY <4>1, <4>2
      <4>. QED BY <2>1, <4>1, <4>3
    <3>. QED BY <3>1, <3>2
  <2>. QED BY <2>3, <2>4
<1>3. ASSUME NEW c \in Conn, Unregister(c)
      PROVE  RegistryConsistent'
  BY <1>3 DEF Unregister, IsEntry, storeVars, netVars
<1>4. ASSUME NEW c \in Conn, Close(c)
      PROVE  RegistryConsistent'
  BY <1>4 DEF Close, storeVars, netVars
<1>5. ASSUME NEW c \in Conn, SendContacts(c)
      PROVE  RegistryConsistent'
  BY <1>5 DEF SendContacts, storeVars, netVars
<1>6. ASSUME NEW c \in Conn, ListPending(c)
      PROVE  RegistryConsistent'
  BY <1>6 DEF ListPending, Undelivered, storeVars, netVars
<1>7. ASSUME NEW c \in Conn, NEW m \in Message, WritePending(c, m)
      PROVE  RegistryConsistent'
  BY <1>7 DEF WritePending, CanWriteMessage, CanWrite, PutOnWire,
     storeVars, netVars
<1>8. ASSUME NEW c \in Conn, MarkPending(c)
      PROVE  RegistryConsistent'
  BY <1>8 DEF MarkPending, Marked, storeVars, netVars
<1>9. ASSUME NEW c \in Conn, BootstrapDone(c)
      PROVE  RegistryConsistent'
  BY <1>9 DEF BootstrapDone, storeVars, netVars
<1>10. ASSUME NEW c \in Conn, BootstrapFails(c)
      PROVE  RegistryConsistent'
  BY <1>10 DEF BootstrapFails, storeVars, netVars
<1>11. ASSUME NEW c \in Conn, Lookup(c)
      PROVE  RegistryConsistent'
  BY <1>11 DEF Lookup, Recipient, storeVars, netVars
<1>12. ASSUME NEW c \in Conn, Push(c)
      PROVE  RegistryConsistent'
  BY <1>12 DEF Push, CanWriteMessage, CanWrite, PutOnWire, storeVars, netVars
<1>13. ASSUME NEW c \in Conn, PushFails(c)
      PROVE  RegistryConsistent'
  BY <1>13 DEF PushFails, WriteMessageMayFail, Gone, storeVars, netVars
<1>14. ASSUME NEW c \in Conn, MarkDelivered(c)
      PROVE  RegistryConsistent'
  BY <1>14 DEF MarkDelivered, Marked, storeVars, netVars
<1>15. ASSUME NEW c \in Conn, MarkFails(c)
      PROVE  RegistryConsistent'
  BY <1>15 DEF MarkFails, storeVars, netVars
<1>16. ASSUME NEW c \in Conn, ReadFails(c)
      PROVE  RegistryConsistent'
  BY <1>16 DEF ReadFails, Gone, storeVars, netVars
<1>17. ASSUME NEW c \in Conn, Accept(c)
      PROVE  RegistryConsistent'
  BY <1>17 DEF Accept, storeVars, netVars
<1>18. ASSUME NEW c \in Conn, Collect(c)
      PROVE  RegistryConsistent'
  BY <1>18 DEF Collect, storeVars, netVars
<1>19. ASSUME NEW c \in Conn, NEW u \in User, Authenticate(c, u)
      PROVE  RegistryConsistent'
  BY <1>19 DEF Authenticate, storeVars, netVars
<1>20. ASSUME NEW c \in Conn, NEW u \in User, AuthReplyFails(c, u)
      PROVE  RegistryConsistent'
  BY <1>20 DEF AuthReplyFails, storeVars, netVars
<1>21. ASSUME NEW c \in Conn, AuthRejected(c)
      PROVE  RegistryConsistent'
  BY <1>21 DEF AuthRejected, storeVars, netVars
<1>22. ASSUME NEW c \in Conn, NEW v \in User, NEW m \in Message, SaveMessage(c, v, m)
      PROVE  RegistryConsistent'
  BY <1>22 DEF SaveMessage, storeVars, netVars
<1>23. ASSUME NEW c \in Conn, LinkLost(c)
      PROVE  RegistryConsistent'
  BY <1>23 DEF LinkLost, handlerVars, storeVars, netVars
<1>24. CASE Restart
  BY <1>24 DEF Restart, storeVars, netVars
<1>25. ASSUME NEW c \in Conn, SendFails(c)
      PROVE  RegistryConsistent'
  BY <1>25 DEF SendFails, storeVars, netVars
<1>. QED
    BY <1>1, <1>2, <1>3, <1>4, <1>5, <1>6, <1>7, <1>8, <1>9, <1>10, <1>11,
     <1>12, <1>13, <1>14, <1>15, <1>16, <1>17, <1>18, <1>19, <1>20, <1>21,
     <1>22, <1>23, <1>24, <1>25 DEF Next, HandlerStep, PeerStep

(* What a handler holds stays addressed to the user it is held for: rows    *)
(* are never re-addressed, and a connection that is a target is not         *)
(* collected.                                                               *)
LEMMA HeldStep ==
    ASSUME TypeOK, HandlerShape, RegistryConsistent, HeldForAddressee, [Next]_vars
    PROVE  HeldForAddressee'
<1>. USE NullAssumption, FriendsAssumption, HoldsAssumption
       DEF GoTo, Saved, Stage, Serving, Bootstrapping, Delivering,
           TypeOK, HandlerShape, RegistryConsistent, HeldForAddressee
<1>1. CASE UNCHANGED vars
  BY <1>1 DEF vars, handlerVars, storeVars, netVars
<1>2. ASSUME NEW c \in Conn, Register(c)
      PROVE  HeldForAddressee'
  BY <1>2 DEF Register, Replaced, storeVars, netVars
<1>3. ASSUME NEW c \in Conn, Unregister(c)
      PROVE  HeldForAddressee'
  BY <1>3 DEF Unregister, IsEntry, storeVars, netVars
<1>4. ASSUME NEW c \in Conn, Close(c)
      PROVE  HeldForAddressee'
  BY <1>4 DEF Close, storeVars, netVars
<1>5. ASSUME NEW c \in Conn, SendContacts(c)
      PROVE  HeldForAddressee'
  BY <1>5 DEF SendContacts, storeVars, netVars
<1>6. ASSUME NEW c \in Conn, ListPending(c)
      PROVE  HeldForAddressee'
  BY <1>6 DEF ListPending, Undelivered, storeVars, netVars
<1>7. ASSUME NEW c \in Conn, NEW m \in Message, WritePending(c, m)
      PROVE  HeldForAddressee'
  BY <1>7 DEF WritePending, CanWriteMessage, CanWrite, PutOnWire,
     storeVars, netVars
<1>8. ASSUME NEW c \in Conn, MarkPending(c)
      PROVE  HeldForAddressee'
  BY <1>8 DEF MarkPending, Marked, storeVars, netVars
<1>9. ASSUME NEW c \in Conn, BootstrapDone(c)
      PROVE  HeldForAddressee'
  BY <1>9 DEF BootstrapDone, storeVars, netVars
<1>10. ASSUME NEW c \in Conn, BootstrapFails(c)
      PROVE  HeldForAddressee'
  BY <1>10 DEF BootstrapFails, storeVars, netVars
<1>11. ASSUME NEW c \in Conn, Lookup(c)
      PROVE  HeldForAddressee'
  BY <1>11 DEF Lookup, Recipient, storeVars, netVars
<1>12. ASSUME NEW c \in Conn, Push(c)
      PROVE  HeldForAddressee'
  BY <1>12 DEF Push, CanWriteMessage, CanWrite, PutOnWire, storeVars, netVars
<1>13. ASSUME NEW c \in Conn, PushFails(c)
      PROVE  HeldForAddressee'
  BY <1>13 DEF PushFails, WriteMessageMayFail, Gone, storeVars, netVars
<1>14. ASSUME NEW c \in Conn, MarkDelivered(c)
      PROVE  HeldForAddressee'
  BY <1>14 DEF MarkDelivered, Marked, storeVars, netVars
<1>15. ASSUME NEW c \in Conn, MarkFails(c)
      PROVE  HeldForAddressee'
  BY <1>15 DEF MarkFails, storeVars, netVars
<1>16. ASSUME NEW c \in Conn, ReadFails(c)
      PROVE  HeldForAddressee'
  BY <1>16 DEF ReadFails, Gone, storeVars, netVars
<1>17. ASSUME NEW c \in Conn, Accept(c)
      PROVE  HeldForAddressee'
  BY <1>17 DEF Accept, storeVars, netVars
<1>18. ASSUME NEW c \in Conn, Collect(c)
      PROVE  HeldForAddressee'
  BY <1>18 DEF Collect, storeVars, netVars
<1>19. ASSUME NEW c \in Conn, NEW u \in User, Authenticate(c, u)
      PROVE  HeldForAddressee'
  BY <1>19 DEF Authenticate, storeVars, netVars
<1>20. ASSUME NEW c \in Conn, NEW u \in User, AuthReplyFails(c, u)
      PROVE  HeldForAddressee'
  BY <1>20 DEF AuthReplyFails, storeVars, netVars
<1>21. ASSUME NEW c \in Conn, AuthRejected(c)
      PROVE  HeldForAddressee'
  BY <1>21 DEF AuthRejected, storeVars, netVars
<1>22. ASSUME NEW c \in Conn, NEW v \in User, NEW m \in Message, SaveMessage(c, v, m)
      PROVE  HeldForAddressee'
  BY <1>22 DEF SaveMessage, storeVars, netVars
<1>23. ASSUME NEW c \in Conn, LinkLost(c)
      PROVE  HeldForAddressee'
  BY <1>23 DEF LinkLost, handlerVars, storeVars, netVars
<1>24. CASE Restart
  BY <1>24 DEF Restart, storeVars, netVars
<1>25. ASSUME NEW c \in Conn, SendFails(c)
      PROVE  HeldForAddressee'
  BY <1>25 DEF SendFails, storeVars, netVars
<1>. QED
    BY <1>1, <1>2, <1>3, <1>4, <1>5, <1>6, <1>7, <1>8, <1>9, <1>10, <1>11,
     <1>12, <1>13, <1>14, <1>15, <1>16, <1>17, <1>18, <1>19, <1>20, <1>21,
     <1>22, <1>23, <1>24, <1>25 DEF Next, HandlerStep, PeerStep

(* Only WritePending and Push put frames on a connection, and what they     *)
(* write is held for its user.                                              *)
LEMMA HandedStep ==
    ASSUME TypeOK, HandlerShape, HeldForAddressee, HandedToAddressee, [Next]_vars
    PROVE  HandedToAddressee'
<1>. USE NullAssumption, FriendsAssumption, HoldsAssumption
       DEF GoTo, Saved, Stage, Serving, Bootstrapping, Delivering,
           TypeOK, HandlerShape, HeldForAddressee, HandedToAddressee
<1>1. CASE UNCHANGED vars
  BY <1>1 DEF vars, handlerVars, storeVars, netVars
<1>2. ASSUME NEW c \in Conn, Register(c)
      PROVE  HandedToAddressee'
  BY <1>2 DEF Register, Replaced, storeVars, netVars
<1>3. ASSUME NEW c \in Conn, Unregister(c)
      PROVE  HandedToAddressee'
  BY <1>3 DEF Unregister, IsEntry, storeVars, netVars
<1>4. ASSUME NEW c \in Conn, Close(c)
      PROVE  HandedToAddressee'
  BY <1>4 DEF Close, storeVars, netVars
<1>5. ASSUME NEW c \in Conn, SendContacts(c)
      PROVE  HandedToAddressee'
  BY <1>5 DEF SendContacts, storeVars, netVars
<1>6. ASSUME NEW c \in Conn, ListPending(c)
      PROVE  HandedToAddressee'
  BY <1>6 DEF ListPending, Undelivered, storeVars, netVars
<1>7. ASSUME NEW c \in Conn, NEW m \in Message, WritePending(c, m)
      PROVE  HandedToAddressee'
  BY <1>7 DEF WritePending, CanWriteMessage, CanWrite, PutOnWire,
     storeVars, netVars
<1>8. ASSUME NEW c \in Conn, MarkPending(c)
      PROVE  HandedToAddressee'
  BY <1>8 DEF MarkPending, Marked, storeVars, netVars
<1>9. ASSUME NEW c \in Conn, BootstrapDone(c)
      PROVE  HandedToAddressee'
  BY <1>9 DEF BootstrapDone, storeVars, netVars
<1>10. ASSUME NEW c \in Conn, BootstrapFails(c)
      PROVE  HandedToAddressee'
  BY <1>10 DEF BootstrapFails, storeVars, netVars
<1>11. ASSUME NEW c \in Conn, Lookup(c)
      PROVE  HandedToAddressee'
  BY <1>11 DEF Lookup, Recipient, storeVars, netVars
<1>12. ASSUME NEW c \in Conn, Push(c)
      PROVE  HandedToAddressee'
  BY <1>12 DEF Push, CanWriteMessage, CanWrite, PutOnWire, storeVars, netVars
<1>13. ASSUME NEW c \in Conn, PushFails(c)
      PROVE  HandedToAddressee'
  BY <1>13 DEF PushFails, WriteMessageMayFail, Gone, storeVars, netVars
<1>14. ASSUME NEW c \in Conn, MarkDelivered(c)
      PROVE  HandedToAddressee'
  BY <1>14 DEF MarkDelivered, Marked, storeVars, netVars
<1>15. ASSUME NEW c \in Conn, MarkFails(c)
      PROVE  HandedToAddressee'
  BY <1>15 DEF MarkFails, storeVars, netVars
<1>16. ASSUME NEW c \in Conn, ReadFails(c)
      PROVE  HandedToAddressee'
  BY <1>16 DEF ReadFails, Gone, storeVars, netVars
<1>17. ASSUME NEW c \in Conn, Accept(c)
      PROVE  HandedToAddressee'
  BY <1>17 DEF Accept, storeVars, netVars
<1>18. ASSUME NEW c \in Conn, Collect(c)
      PROVE  HandedToAddressee'
  BY <1>18 DEF Collect, storeVars, netVars
<1>19. ASSUME NEW c \in Conn, NEW u \in User, Authenticate(c, u)
      PROVE  HandedToAddressee'
  BY <1>19 DEF Authenticate, storeVars, netVars
<1>20. ASSUME NEW c \in Conn, NEW u \in User, AuthReplyFails(c, u)
      PROVE  HandedToAddressee'
  BY <1>20 DEF AuthReplyFails, storeVars, netVars
<1>21. ASSUME NEW c \in Conn, AuthRejected(c)
      PROVE  HandedToAddressee'
  BY <1>21 DEF AuthRejected, storeVars, netVars
<1>22. ASSUME NEW c \in Conn, NEW v \in User, NEW m \in Message, SaveMessage(c, v, m)
      PROVE  HandedToAddressee'
  BY <1>22 DEF SaveMessage, storeVars, netVars
<1>23. ASSUME NEW c \in Conn, LinkLost(c)
      PROVE  HandedToAddressee'
  BY <1>23 DEF LinkLost, handlerVars, storeVars, netVars
<1>24. CASE Restart
  BY <1>24 DEF Restart, storeVars, netVars
<1>25. ASSUME NEW c \in Conn, SendFails(c)
      PROVE  HandedToAddressee'
  BY <1>25 DEF SendFails, storeVars, netVars
<1>. QED
    BY <1>1, <1>2, <1>3, <1>4, <1>5, <1>6, <1>7, <1>8, <1>9, <1>10, <1>11,
     <1>12, <1>13, <1>14, <1>15, <1>16, <1>17, <1>18, <1>19, <1>20, <1>21,
     <1>22, <1>23, <1>24, <1>25 DEF Next, HandlerStep, PeerStep

(* A handler that marks a message has written it.                           *)
LEMMA DeliveredStep ==
    ASSUME TypeOK, HandlerShape, HeldForAddressee, DeliveredWasHanded, [Next]_vars
    PROVE  DeliveredWasHanded'
<1>. USE NullAssumption, FriendsAssumption, HoldsAssumption
       DEF GoTo, Saved, Stage, Serving, Bootstrapping, Delivering,
           TypeOK, HandlerShape, HeldForAddressee, DeliveredWasHanded
<1>1. CASE UNCHANGED vars
  BY <1>1 DEF vars, handlerVars, storeVars, netVars
<1>2. ASSUME NEW c \in Conn, Register(c)
      PROVE  DeliveredWasHanded'
  BY <1>2 DEF Register, Replaced, storeVars, netVars
<1>3. ASSUME NEW c \in Conn, Unregister(c)
      PROVE  DeliveredWasHanded'
  BY <1>3 DEF Unregister, IsEntry, storeVars, netVars
<1>4. ASSUME NEW c \in Conn, Close(c)
      PROVE  DeliveredWasHanded'
  BY <1>4 DEF Close, storeVars, netVars
<1>5. ASSUME NEW c \in Conn, SendContacts(c)
      PROVE  DeliveredWasHanded'
  BY <1>5 DEF SendContacts, storeVars, netVars
<1>6. ASSUME NEW c \in Conn, ListPending(c)
      PROVE  DeliveredWasHanded'
  BY <1>6 DEF ListPending, Undelivered, storeVars, netVars
<1>7. ASSUME NEW c \in Conn, NEW m \in Message, WritePending(c, m)
      PROVE  DeliveredWasHanded'
  BY <1>7 DEF WritePending, CanWriteMessage, CanWrite, PutOnWire,
     storeVars, netVars
<1>8. ASSUME NEW c \in Conn, MarkPending(c)
      PROVE  DeliveredWasHanded'
  BY <1>8 DEF MarkPending, Marked, storeVars, netVars
<1>9. ASSUME NEW c \in Conn, BootstrapDone(c)
      PROVE  DeliveredWasHanded'
  BY <1>9 DEF BootstrapDone, storeVars, netVars
<1>10. ASSUME NEW c \in Conn, BootstrapFails(c)
      PROVE  DeliveredWasHanded'
  BY <1>10 DEF BootstrapFails, storeVars, netVars
<1>11. ASSUME NEW c \in Conn, Lookup(c)
      PROVE  DeliveredWasHanded'
  BY <1>11 DEF Lookup, Recipient, storeVars, netVars
<1>12. ASSUME NEW c \in Conn, Push(c)
      PROVE  DeliveredWasHanded'
  BY <1>12 DEF Push, CanWriteMessage, CanWrite, PutOnWire, storeVars, netVars
<1>13. ASSUME NEW c \in Conn, PushFails(c)
      PROVE  DeliveredWasHanded'
  BY <1>13 DEF PushFails, WriteMessageMayFail, Gone, storeVars, netVars
<1>14. ASSUME NEW c \in Conn, MarkDelivered(c)
      PROVE  DeliveredWasHanded'
  BY <1>14 DEF MarkDelivered, Marked, storeVars, netVars
<1>15. ASSUME NEW c \in Conn, MarkFails(c)
      PROVE  DeliveredWasHanded'
  BY <1>15 DEF MarkFails, storeVars, netVars
<1>16. ASSUME NEW c \in Conn, ReadFails(c)
      PROVE  DeliveredWasHanded'
  BY <1>16 DEF ReadFails, Gone, storeVars, netVars
<1>17. ASSUME NEW c \in Conn, Accept(c)
      PROVE  DeliveredWasHanded'
  BY <1>17 DEF Accept, storeVars, netVars
<1>18. ASSUME NEW c \in Conn, Collect(c)
      PROVE  DeliveredWasHanded'
  BY <1>18 DEF Collect, storeVars, netVars
<1>19. ASSUME NEW c \in Conn, NEW u \in User, Authenticate(c, u)
      PROVE  DeliveredWasHanded'
  BY <1>19 DEF Authenticate, storeVars, netVars
<1>20. ASSUME NEW c \in Conn, NEW u \in User, AuthReplyFails(c, u)
      PROVE  DeliveredWasHanded'
  BY <1>20 DEF AuthReplyFails, storeVars, netVars
<1>21. ASSUME NEW c \in Conn, AuthRejected(c)
      PROVE  DeliveredWasHanded'
  BY <1>21 DEF AuthRejected, storeVars, netVars
<1>22. ASSUME NEW c \in Conn, NEW v \in User, NEW m \in Message, SaveMessage(c, v, m)
      PROVE  DeliveredWasHanded'
  BY <1>22 DEF SaveMessage, storeVars, netVars
<1>23. ASSUME NEW c \in Conn, LinkLost(c)
      PROVE  DeliveredWasHanded'
  BY <1>23 DEF LinkLost, handlerVars, storeVars, netVars
<1>24. CASE Restart
  BY <1>24 DEF Restart, storeVars, netVars
<1>25. ASSUME NEW c \in Conn, SendFails(c)
      PROVE  DeliveredWasHanded'
  BY <1>25 DEF SendFails, storeVars, netVars
<1>. QED
    BY <1>1, <1>2, <1>3, <1>4, <1>5, <1>6, <1>7, <1>8, <1>9, <1>10, <1>11,
     <1>12, <1>13, <1>14, <1>15, <1>16, <1>17, <1>18, <1>19, <1>20, <1>21,
     <1>22, <1>23, <1>24, <1>25 DEF Next, HandlerStep, PeerStep

(* No step takes a message out of the hands of its last carrier: the lookup *)
(* of an open connection finds the one in the map, a push to it fails only  *)
(* if it is closed, its client gone or the message oversized, and a new     *)
(* connection lists every row nobody carries to it.                         *)
LEMMA MissedStep ==
    ASSUME TypeOK, HandlerShape, RegistryConsistent, HeldForAddressee,
           DeliveredWasHanded, NoMessageMissed, [Next]_vars
    PROVE  NoMessageMissed'
<1>. USE NullAssumption, FriendsAssumption, HoldsAssumption
       DEF GoTo, Saved, Stage, Serving, Bootstrapping, Delivering,
           TypeOK, HandlerShape, RegistryConsistent, HeldForAddressee,
           DeliveredWasHanded, NoMessageMissed, OnItsWay
<1>1. CASE UNCHANGED vars
  BY <1>1 DEF vars, handlerVars, storeVars, netVars
<1>2. ASSUME NEW c \in Conn, Register(c)
      PROVE  NoMessageMissed'
  <2>1. /\ pc[c] = "register" /\ UNCHANGED <<user, queue, work, target, handed, storeVars>>
        /\ \A d \in Conn : link'[d] => link[d]
    BY <1>2 DEF Register
  <2>2. ASSUME NEW d \in Conn, NEW m \in Message, OnItsWay(m, d)
        PROVE  OnItsWay(m, d)'
    BY <1>2, <2>1, <2>2, RegisterMoves DEF OnItsWay
  <2>3. /\ pc' \in [Conn -> Stage] /\ pc'[c] = "contacts"
        /\ \A d \in Conn : closed[d] => closed'[d]
        /\ \A d \in Conn \ {c} :
              pc'[d] = pc[d] \/ (pc[d] = "read" /\ pc'[d] = "packet" /\ closed'[d])
    BY <1>2, RegisterMoves
  <2>4. ASSUME NEW d \in Conn, NEW m \in Message \ (handed \cup Oversize),
               pc'[d] \in {"drain", "confirm", "read"} \cup Delivering,
               ~closed'[d], link'[d], addressee[m] = user[d]
        PROVE  OnItsWay(m, d)' \/ m \in queue[d]
    <3>1. pc'[d] = pc[d] /\ ~closed[d] /\ link[d]
      BY <2>1, <2>3, <2>4
    <3>2. OnItsWay(m, d) \/ m \in queue[d]
      <4>. HIDE DEF OnItsWay
      <4>. QED  BY <2>4, <3>1
    <3>. QED  BY <2>2, <3>2
  <2>. HIDE DEF OnItsWay
  <2>. QED  BY <2>1, <2>4 DEF storeVars
<1>3. ASSUME NEW c \in Conn, Unregister(c)
      PROVE  NoMessageMissed'
  BY <1>3 DEF Unregister, IsEntry, storeVars, netVars
<1>4. ASSUME NEW c \in Conn, Close(c)
      PROVE  NoMessageMissed'
  BY <1>4 DEF Close, storeVars, netVars
<1>5. ASSUME NEW c \in Conn, SendContacts(c)
      PROVE  NoMessageMissed'
  BY <1>5 DEF SendContacts, storeVars, netVars
<1>6. ASSUME NEW c \in Conn, ListPending(c)
      PROVE  NoMessageMissed'
  BY <1>6 DEF ListPending, Undelivered, storeVars, netVars
<1>7. ASSUME NEW c \in Conn, NEW m \in Message, WritePending(c, m)
      PROVE  NoMessageMissed'
  BY <1>7 DEF WritePending, CanWriteMessage, CanWrite, PutOnWire,
     storeVars, netVars
<1>8. ASSUME NEW c \in Conn, MarkPending(c)
      PROVE  NoMessageMissed'
  BY <1>8 DEF MarkPending, Marked, storeVars, netVars
<1>9. ASSUME NEW c \in Conn, BootstrapDone(c)
      PROVE  NoMessageMissed'
  BY <1>9 DEF BootstrapDone, storeVars, netVars
<1>10. ASSUME NEW c \in Conn, BootstrapFails(c)
      PROVE  NoMessageMissed'
  BY <1>10 DEF BootstrapFails, storeVars, netVars
<1>11. ASSUME NEW c \in Conn, Lookup(c)
      PROVE  NoMessageMissed'
  <2>1. /\ pc[c] = "lookup" /\ UNCHANGED <<user, queue, closed, link, handed, addressee>>
        /\ work[c] \in Message
    BY <1>11 DEF Lookup, storeVars, netVars
  <2>2. ASSUME NEW d \in Conn, NEW m \in Message, OnItsWay(m, d),
               clients[addressee[m]] = d
        PROVE  OnItsWay(m, d)'
    BY <1>11, <2>1, <2>2 DEF Lookup, Recipient
  <2>3. \A d \in Conn : pc'[d] = pc[d] \/ (d = c /\ pc'[d] \in {"read", "push"})
    BY <1>11 DEF Lookup
  <2>. HIDE DEF OnItsWay
  <2>. QED  BY <2>1, <2>2, <2>3
<1>12. ASSUME NEW c \in Conn, Push(c)
      PROVE  NoMessageMissed'
  BY <1>12 DEF Push, CanWriteMessage, CanWrite, PutOnWire, storeVars, netVars
<1>13. ASSUME NEW c \in Conn, PushFails(c)
      PROVE  NoMessageMissed'
  BY <1>13 DEF PushFails, WriteMessageMayFail, Gone, storeVars, netVars
<1>14. ASSUME NEW c \in Conn, MarkDelivered(c)
      PROVE  NoMessageMissed'
  <2>1. /\ work[c] \in handed /\ handed' = handed
        /\ pc[c] = "settle" /\ pc' = [pc EXCEPT ![c] = "read"]
        /\ work' = [work EXCEPT ![c] = NoMsg]
        /\ UNCHANGED <<user, closed, link, queue, target, addressee>>
    BY <1>14 DEF MarkDelivered, netVars
  <2>2. SUFFICES ASSUME NEW d \in Conn, NEW m \in Message \ (handed \cup Oversize),
                        pc'[d] \in {"drain", "confirm", "read"} \cup Delivering,
                        ~closed[d], link[d], addressee[m] = user[d]
                 PROVE  OnItsWay(m, d)' \/ m \in queue[d]
    BY <2>1
  <2>3. OnItsWay(m, d) \/ m \in queue[d]
    BY <2>1, <2>2
  <2>4. ASSUME NEW e \in Conn, work[e] = m
        PROVE  work'[e] = m /\ pc'[e] = pc[e] /\ target'[e] = target[e]
    BY <2>1, <2>4
  <2>. QED BY <2>3, <2>4
<1>15. ASSUME NEW c \in Conn, MarkFails(c)
      PROVE  NoMessageMissed'
  <2>1. /\ work[c] \in handed /\ handed' = handed
        /\ pc[c] = "settle" /\ pc' = [pc EXCEPT ![c] = "read"]
        /\ work' = [work EXCEPT ![c] = NoMsg]
        /\ UNCHANGED <<user, closed, link, queue, target, addressee>>
    BY <1>15 DEF MarkFails, storeVars, netVars
  <2>2. SUFFICES ASSUME NEW d \in Conn, NEW m \in Message \ (handed \cup Oversize),
                        pc'[d] \in {"drain", "confirm", "read"} \cup Delivering,
                        ~closed[d], link[d], addressee[m] = user[d]
                 PROVE  OnItsWay(m, d)' \/ m \in queue[d]
    BY <2>1
  <2>3. OnItsWay(m, d) \/ m \in queue[d]
    BY <2>1, <2>2
  <2>4. ASSUME NEW e \in Conn, work[e] = m
        PROVE  work'[e] = m /\ pc'[e] = pc[e] /\ target'[e] = target[e]
    BY <2>1, <2>4
  <2>. QED BY <2>3, <2>4
<1>16. ASSUME NEW c \in Conn, ReadFails(c)
      PROVE  NoMessageMissed'
  BY <1>16 DEF ReadFails, Gone, storeVars, netVars
<1>17. ASSUME NEW c \in Conn, Accept(c)
      PROVE  NoMessageMissed'
  BY <1>17 DEF Accept, storeVars, netVars
<1>18. ASSUME NEW c \in Conn, Collect(c)
      PROVE  NoMessageMissed'
  BY <1>18 DEF Collect, storeVars, netVars
<1>19. ASSUME NEW c \in Conn, NEW u \in User, Authenticate(c, u)
      PROVE  NoMessageMissed'
  BY <1>19 DEF Authenticate, storeVars, netVars
<1>20. ASSUME NEW c \in Conn, NEW u \in User, AuthReplyFails(c, u)
      PROVE  NoMessageMissed'
  BY <1>20 DEF AuthReplyFails, storeVars, netVars
<1>21. ASSUME NEW c \in Conn, AuthRejected(c)
      PROVE  NoMessageMissed'
  BY <1>21 DEF AuthRejected, storeVars, netVars
<1>22. ASSUME NEW c \in Conn, NEW v \in User, NEW m \in Message, SaveMessage(c, v, m)
      PROVE  NoMessageMissed'
  BY <1>22 DEF SaveMessage, storeVars, netVars
<1>23. ASSUME NEW c \in Conn, LinkLost(c)
      PROVE  NoMessageMissed'
  BY <1>23 DEF LinkLost, handlerVars, storeVars, netVars
<1>24. CASE Restart
  BY <1>24 DEF Restart, storeVars, netVars
<1>25. ASSUME NEW c \in Conn, SendFails(c)
      PROVE  NoMessageMissed'
  BY <1>25 DEF SendFails, storeVars, netVars
<1>. QED
    BY <1>1, <1>2, <1>3, <1>4, <1>5, <1>6, <1>7, <1>8, <1>9, <1>10, <1>11,
     <1>12, <1>13, <1>14, <1>15, <1>16, <1>17, <1>18, <1>19, <1>20, <1>21,
     <1>22, <1>23, <1>24, <1>25 DEF Next, HandlerStep, PeerStep

-----------------------------------------------------------------------------
(* The inductive invariant: it holds initially and every step keeps it. *)
LEMMA HubInvInit ==
    ASSUME Init
    PROVE  HubInv
  BY NullAssumption
     DEF Init, HubInv, TypeOK, HandlerShape, RegistryConsistent,
         HeldForAddressee, HandedToAddressee, DeliveredWasHanded,
         NoMessageMissed, Stage, Serving, Bootstrapping, Delivering, Saved

LEMMA HubInvStep ==
    ASSUME HubInv, [Next]_vars
    PROVE  HubInv'
<1>. USE DEF HubInv
<1>1. TypeOK'              BY TypeStep
<1>2. HandlerShape'        BY ShapeStep
<1>3. RegistryConsistent'  BY RegistryStep
<1>4. HeldForAddressee'    BY HeldStep
<1>5. HandedToAddressee'   BY HandedStep
<1>6. DeliveredWasHanded'  BY DeliveredStep
<1>7. NoMessageMissed'     BY MissedStep
<1>. QED BY <1>1, <1>2, <1>3, <1>4, <1>5, <1>6, <1>7

(* Every reachable state of the hub satisfies the inductive invariant. *)
THEOREM HubInvariant == SafeSpec => []HubInv
  BY HubInvInit, HubInvStep, PTL DEF SafeSpec

(* Every variable of the hub keeps its type. *)
THEOREM TypeCorrect == SafeSpec => []TypeOK
<1>1. HubInv => TypeOK
  BY DEF HubInv
<1>. QED BY <1>1, HubInvariant, PTL

(* The map holds exactly the open registered connections: never two of one  *)
(* user, and a replaced handler never evicts its successor.                 *)
THEOREM RegistryCorrect == SafeSpec => []RegistryConsistent
<1>1. HubInv => RegistryConsistent
  BY DEF HubInv
<1>. QED BY <1>1, HubInvariant, PTL

(* Messages are only written to connections of their addressee. *)
THEOREM AddresseeCorrect == SafeSpec => []HandedToAddressee
<1>1. HubInv => HandedToAddressee
  BY DEF HubInv
<1>. QED BY <1>1, HubInvariant, PTL

(* A row is marked delivered only after its frame was written. *)
THEOREM DeliveredCorrect == SafeSpec => []DeliveredWasHanded
<1>1. HubInv => DeliveredWasHanded
  BY DEF HubInv
<1>. QED BY <1>1, HubInvariant, PTL

(* No message to a connected user falls between the bootstrap of the        *)
(* connection and the push by the sender's handler.                         *)
THEOREM NoneStranded == SafeSpec => []NoMessageStranded
<1>1. HubInv => NoMessageStranded
  BY DEF HubInv, HandlerShape, NoMessageMissed, NoMessageStranded, Delivering
<1>. QED BY <1>1, HubInvariant, PTL

(* What is settled is never taken up again. *)
THEOREM NoneRedelivered == SafeSpec => NoRedelivery
<1>1. ASSUME HubInv, [Next]_vars, NEW m \in Message, Settled(m)
      PROVE  Settled(m)'
  <2>. USE <1>1 DEF HubInv, TypeOK, HandlerShape, Settled, GoTo
  <2>1. Saved(m)
    BY DEF HeldForAddressee, DeliveredWasHanded
  <2>2. CASE UNCHANGED vars
    BY <2>2 DEF vars, handlerVars, storeVars
  <2>3. ASSUME NEW c \in Conn, ListPending(c)
        PROVE  Settled(m)'
    BY <2>3 DEF ListPending, Undelivered, storeVars
  <2>4. ASSUME NEW c \in Conn, NEW n \in Message, WritePending(c, n)
        PROVE  Settled(m)'
    BY <2>4 DEF WritePending, storeVars
  <2>5. ASSUME NEW c \in Conn, NEW v \in User, NEW n \in Message,
               SaveMessage(c, v, n)
        PROVE  Settled(m)'
    BY <2>1, <2>5 DEF SaveMessage
  <2>6. ASSUME NEW c \in Conn,
               \/ MarkPending(c) \/ BootstrapFails(c) \/ Lookup(c)
               \/ PushFails(c) \/ MarkDelivered(c) \/ MarkFails(c)
        PROVE  Settled(m)'
    BY <2>6, NullAssumption
       DEF MarkPending, BootstrapFails, Lookup, PushFails, MarkDelivered,
           MarkFails, Marked, storeVars
  <2>7. ASSUME NEW c \in Conn,
               \/ Register(c) \/ SendContacts(c) \/ BootstrapDone(c) \/ Push(c)
               \/ SendFails(c) \/ ReadFails(c) \/ Unregister(c) \/ Close(c)
               \/ Accept(c) \/ Collect(c) \/ AuthRejected(c) \/ LinkLost(c)
        PROVE  Settled(m)'
    BY <2>7
       DEF Register, SendContacts, BootstrapDone, Push, SendFails, ReadFails, Unregister,
           Close, Accept, Collect, AuthRejected, LinkLost, handlerVars,
           storeVars
  <2>8. ASSUME NEW c \in Conn, NEW u \in User,
               Authenticate(c, u) \/ AuthReplyFails(c, u)
        PROVE  Settled(m)'
    BY <2>8 DEF Authenticate, AuthReplyFails, storeVars
  <2>9. CASE Restart
    BY <2>9, NullAssumption DEF Restart, storeVars
  <2>. QED
    BY <1>1, <2>2, <2>3, <2>4, <2>5, <2>6, <2>7, <2>8, <2>9
       DEF Next, HandlerStep, PeerStep
<1>2. HubInv /\ [Next]_vars => [\A m \in Message : Settled(m) => Settled(m)']_vars
  BY <1>1
<1>. QED BY <1>2, HubInvariant, PTL DEF SafeSpec, NoRedelivery

-----------------------------------------------------------------------------
(* The hub implements the mailbox. *)

(* A message is in one of four states, told apart by three sets. *)
LEMMA StatusOf ==
    ASSUME HubInv, NEW m \in Message
    PROVE  /\ MailStatus(m) = "unsent" <=> ~Saved(m)
           /\ MailStatus(m) = "stored" <=> Saved(m) /\ m \notin handed
           /\ MailStatus(m) = "handed" <=> m \in handed /\ m \notin delivered
           /\ MailStatus(m) = "confirmed" <=> m \in delivered
           /\ MailStatus(m) \in {"unsent", "stored", "handed", "confirmed"}
  BY DEF HubInv, HeldForAddressee, DeliveredWasHanded, MailStatus

(* The mailbox's sessions have the right type. *)
LEMMA SessionType ==
    ASSUME HubInv
    PROVE  [u \in User |-> MailSession(u)] \in [User -> Conn \cup {NoConn}]
  BY DEF HubInv, TypeOK, MailSession

LEMMA MailboxStep ==
    ASSUME HubInv, HubInv', [Next]_vars
    PROVE  [Mail!Next]_(Mail!vars)
<1>. DEFINE status == [m \in Message |-> MailStatus(m)]
            session == [u \in User |-> MailSession(u)]
<1>1. ASSUME UNCHANGED <<clients, link>>
      PROVE  UNCHANGED session
  BY <1>1 DEF MailSession
<1>2. ASSUME UNCHANGED <<addressee, delivered, handed>>
      PROVE  UNCHANGED status
  BY <1>2 DEF MailStatus, Saved
<1>3. ASSUME UNCHANGED <<addressee, delivered, handed>>
      PROVE  Mail!Next
  <2>1. session' \in [User -> Conn \cup {NoConn}]
    BY SessionType DEF HubInv, TypeOK, MailSession
  <2>. QED BY <1>2, <1>3, <2>1 DEF Mail!Next, Mail!Sessions
<1>4. ASSUME NEW m \in Message, handed' = handed \cup {m}, Saved(m),
             UNCHANGED <<addressee, delivered, clients, link>>
      PROVE  Mail!Next \/ UNCHANGED Mail!vars
  <2>1. CASE m \in handed
    BY <2>1, <1>1, <1>2, <1>4 DEF Mail!vars
  <2>2. CASE m \notin handed
    <3>1. status[m] = "stored"
      BY <1>4, <2>2, StatusOf
    <3>2. m \notin delivered
      BY <2>2 DEF HubInv, DeliveredWasHanded
    <3>3. ASSUME NEW n \in Message
          PROVE  MailStatus(n)' = IF n = m THEN "handed" ELSE MailStatus(n)
      BY <1>4, <3>2 DEF MailStatus, Saved
    <3>4. status' = [status EXCEPT ![m] = "handed"]
      BY <3>3
    <3>. QED BY <1>1, <1>4, <3>1, <3>4 DEF Mail!Next, Mail!HandOver, Mail!Move
  <2>. QED BY <2>1, <2>2
<1>5. ASSUME NEW m \in Message, delivered' = delivered \cup {m}, m \in handed,
             UNCHANGED <<addressee, handed, clients, link>>
      PROVE  Mail!Next \/ UNCHANGED Mail!vars
  <2>1. CASE m \in delivered
    BY <2>1, <1>1, <1>2, <1>5 DEF Mail!vars
  <2>2. CASE m \notin delivered
    <3>1. status[m] = "handed" /\ status' = [status EXCEPT ![m] = "confirmed"]
      BY <1>5, <2>2, StatusOf DEF MailStatus, Saved
    <3>. QED BY <1>1, <1>5, <3>1 DEF Mail!Next, Mail!Confirm, Mail!Move
  <2>. QED BY <2>1, <2>2
<1>6. ASSUME NEW c \in Conn, NEW v \in User, NEW m \in Message,
             SaveMessage(c, v, m)
      PROVE  Mail!Next
  <2>1. /\ ~Saved(m) /\ addressee' = [addressee EXCEPT ![m] = v]
        /\ UNCHANGED <<delivered, handed, clients, link>>
    BY <1>6 DEF SaveMessage, netVars
  <2>2. m \notin handed /\ m \notin delivered
    BY <2>1 DEF HubInv, HeldForAddressee, DeliveredWasHanded
  <2>3. status[m] = "unsent"
    BY <2>1, StatusOf
  <2>4. addressee'[m] = v /\ v # NoUser
    BY <2>1, NullAssumption DEF HubInv, TypeOK
  <2>5. ASSUME NEW n \in Message
        PROVE  MailStatus(n)' = IF n = m THEN "stored" ELSE MailStatus(n)
    BY <2>1, <2>2, <2>4 DEF MailStatus, Saved
  <2>6. status' = [status EXCEPT ![m] = "stored"]
    BY <2>5
  <2>. QED BY <1>1, <2>1, <2>3, <2>6 DEF Mail!Next, Mail!Post, Mail!Move
<1>7. ASSUME NEW c \in Conn, NEW m \in Message, WritePending(c, m)
      PROVE  Mail!Next \/ UNCHANGED Mail!vars
  <2>1. Saved(m)
    BY <1>7, NullAssumption
       DEF WritePending, HubInv, TypeOK, HandlerShape, HeldForAddressee,
           Serving, Bootstrapping, Saved
  <2>. QED BY <1>4, <1>7, <2>1 DEF WritePending, PutOnWire, storeVars
<1>8. ASSUME NEW c \in Conn, Push(c)
      PROVE  Mail!Next \/ UNCHANGED Mail!vars
  <2>1. work[c] \in Message /\ Saved(work[c])
    BY <1>8
       DEF Push, HubInv, TypeOK, HandlerShape, HeldForAddressee, Delivering
  <2>. QED BY <1>4, <1>8, <2>1 DEF Push, PutOnWire, storeVars
<1>9. ASSUME NEW c \in Conn, MarkPending(c) \/ MarkDelivered(c)
      PROVE  Mail!Next \/ UNCHANGED Mail!vars
  <2>1. work[c] \in Message /\ work[c] \in handed
    BY <1>9
       DEF MarkPending, MarkDelivered, HubInv, TypeOK, HandlerShape,
           HeldForAddressee, Delivering
  <2>. QED BY <1>5, <1>9, <2>1 DEF MarkPending, MarkDelivered, Marked, netVars
<1>10. ASSUME NEW c \in Conn,
              \/ Register(c) \/ SendContacts(c) \/ ListPending(c)
              \/ BootstrapDone(c) \/ BootstrapFails(c) \/ Lookup(c)
              \/ PushFails(c) \/ MarkFails(c) \/ SendFails(c) \/ ReadFails(c)
              \/ Unregister(c) \/ Close(c)
       PROVE  Mail!Next
  BY <1>3, <1>10
     DEF Register, SendContacts, ListPending, BootstrapDone, BootstrapFails,
         Lookup, PushFails, MarkFails, SendFails, ReadFails, Unregister, Close,
         storeVars, netVars
<1>11. ASSUME NEW c \in Conn,
              Accept(c) \/ Collect(c) \/ AuthRejected(c) \/ LinkLost(c)
       PROVE  Mail!Next
  BY <1>3, <1>11 DEF Accept, Collect, AuthRejected, LinkLost, storeVars, netVars
<1>12. ASSUME NEW c \in Conn, NEW u \in User,
              Authenticate(c, u) \/ AuthReplyFails(c, u)
       PROVE  Mail!Next
  BY <1>3, <1>12 DEF Authenticate, AuthReplyFails, storeVars, netVars
<1>13. CASE Restart
  BY <1>3, <1>13 DEF Restart, storeVars
<1>14. CASE UNCHANGED vars
  BY <1>1, <1>2, <1>14 DEF Mail!vars, vars, handlerVars, storeVars, netVars
<1>. QED
  BY <1>6, <1>7, <1>8, <1>9, <1>10, <1>11, <1>12, <1>13, <1>14
     DEF Next, HandlerStep, PeerStep

(* The hub implements the safety part of the mailbox: messages are stored,  *)
(* then handed over, then confirmed, and never go back.                     *)
THEOREM ImplementsMailbox == SafeSpec => MailboxSafety
<1>1. Init => Mail!Init
  BY NullAssumption
     DEF Init, Mail!Init, MailStatus, MailSession, Saved
<1>. QED
  BY <1>1, HubInvariant, MailboxStep, PTL
     DEF SafeSpec, MailboxSafety, Mail!SafeSpec

=============================================================================
