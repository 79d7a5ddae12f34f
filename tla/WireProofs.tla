----------------------------- MODULE WireProofs -----------------------------
(***************************************************************************)
(* Proofs about the connection between a client and the server: the locks  *)
(* that the server writes under (HubLocks) and the frames that the client  *)
(* writes without one (Framing).                                           *)
(*                                                                         *)
(* Each invariant is inductive.  For the locks it says who holds what at   *)
(* each place of a goroutine; for the frames, that whatever Read has still *)
(* to take is a sequence of whole frames, the last one perhaps cut short,  *)
(* as long as no write began inside of another.                            *)
(***************************************************************************)
EXTENDS HubLocks, Framing, SequenceTheorems, TLAPS

-----------------------------------------------------------------------------
(* What the locks protect, with what a handler holds at each stage. *)
LocksShape ==
    /\ clients \in [User -> Conn \cup {NoConn}]
    /\ hubMutex \in Conn \cup {NoConn}
    /\ mutex \in [Conn -> Conn \cup {NoConn}]
    /\ closed \subseteq Conn /\ broken \subseteq Conn
    /\ stalled \subseteq Conn /\ vanished \subseteq Conn
    /\ buffer \in [Conn -> 0 .. Capacity]
    /\ stage \in [Conn -> Stage]
    /\ target \in [Conn -> Conn \cup {NoConn}]
    /\ todo \in [Conn -> Seq(User)]
    /\ \A h \in Conn :
          /\ stage[h] \in {"write", "writing"} => target[h] \in Conn
          /\ stage[h] = "lookup" => todo[h] # <<>>

(* Who has locked h.mu, and who a connection's mu: nobody who waits for     *)
(* another lock, but for register.                                          *)
RegistryHeld == \A h \in Conn : hubMutex = h <=> stage[h] = "replace"
WriterHolds ==
    \A h, c \in Conn : mutex[c] = h <=> stage[h] = "writing" /\ target[h] = c

OnlyOpenWritten == \A h \in Conn : stage[h] = "writing" => target[h] \notin closed

LocksInv == LocksShape /\ RegistryHeld /\ WriterHolds /\ OnlyOpenWritten

(* What is left of a list of more than one. *)
LEMMA TailNonEmpty ==
    ASSUME NEW S, NEW s \in Seq(S), s # <<>>, Len(s) # 1
    PROVE  Tail(s) # <<>>
<1>1. Len(Tail(s)) = Len(s) - 1 /\ Len(s) \in Nat
  BY HeadTailProperties, LenProperties
<1>2. Len(Tail(s)) # 0
  BY <1>1
<1>. QED  BY <1>2, EmptySeq

(* Whom a handler writes to is a list of users, and not an empty one. *)
LEMMA RecipientsSeq ==
    ASSUME NEW h \in Conn, NEW us \in Recipients(h)
    PROVE  us \in Seq(User) /\ us # <<>>
<1>1. CASE \E u \in User : us = <<u>>
  BY <1>1
<1>2. CASE \E u \in User : us = <<userOf[h], u>>
  BY <1>2, LocksAssumption
<1>. QED  BY <1>1, <1>2 DEF Recipients

(* A step keeps what each handler has to hold. *)
LEMMA LocksShapeStep ==
    ASSUME LocksShape, [LocksNext]_locksVars
    PROVE  LocksShape'
<1>. USE LocksAssumption DEF LocksShape, Waiting, Stage
<1>1. ASSUME UNCHANGED locksVars
      PROVE  LocksShape'
  BY <1>1 DEF locksVars, handlerVars, netVars
<1>2. ASSUME NEW c \in Conn, Accept(c)
      PROVE  LocksShape'
  BY <1>2 DEF Accept, Goto, locksVars, handlerVars, netVars
<1>3. ASSUME NEW c \in Conn, Lock(c)
      PROVE  LocksShape'
  BY <1>3 DEF Lock, Goto, locksVars, handlerVars, netVars
<1>4. ASSUME NEW c \in Conn, Replace(c)
      PROVE  LocksShape'
  <2>1. userOf[c] \in User /\ target[c] \in Conn \cup {NoConn}
    BY DEF Replace
  <2>2. clients' \in [User -> Conn \cup {NoConn}] /\ hubMutex' \in Conn \cup {NoConn}
    BY <1>4, <2>1 DEF Replace
  <2>3. /\ closed' \subseteq Conn /\ broken' \subseteq Conn
        /\ stalled' \subseteq Conn /\ vanished' \subseteq Conn
        /\ buffer' \in [Conn -> 0 .. Capacity]
    <3>1. CASE UNCHANGED <<closed, netVars>>
      BY <3>1 DEF netVars
    <3>2. CASE target[c] \in Conn /\ closed' = closed \cup {target[c]} /\ Break(target[c])
      BY <3>2 DEF Break
    <3>. QED  BY <1>4, <2>1, <3>1, <3>2 DEF Replace
  <2>4. /\ stage' = [stage EXCEPT ![c] = "bootstrap"] /\ target' = [target EXCEPT ![c] = NoConn]
        /\ UNCHANGED <<mutex, todo>>
    BY <1>4 DEF Replace, Goto
  <2>. QED  BY <2>2, <2>3, <2>4
<1>5. ASSUME NEW c \in Conn, NEW us \in Recipients(c), Packet(c, us)
      PROVE  LocksShape'
  BY <1>5, RecipientsSeq DEF Packet, Goto, locksVars, handlerVars, netVars
<1>6. ASSUME NEW c \in Conn, Lookup(c)
      PROVE  LocksShape'
  <2>1. todo[c] \in Seq(User) /\ todo[c] # <<>>
    BY <1>6 DEF Lookup
  <2>2. Head(todo[c]) \in User /\ Tail(todo[c]) \in Seq(User) /\ Len(Tail(todo[c])) = Len(todo[c]) - 1
    BY <2>1, HeadTailProperties
  <2>3. Len(todo[c]) # 1 => Tail(todo[c]) # <<>>
    BY <2>1, TailNonEmpty
  <2>4. /\ UNCHANGED <<clients, hubMutex, mutex, closed, broken, stalled, vanished, buffer>>
        /\ todo' = [todo EXCEPT ![c] = Tail(todo[c])]
        /\ stage[c] = "lookup"
    BY <1>6 DEF Lookup, netVars
  <2>5. /\ todo' \in [Conn -> Seq(User)]
        /\ todo'[c] = Tail(todo[c]) /\ \A h \in Conn \ {c} : todo'[h] = todo[h]
    BY <2>2, <2>4
  <2>6. CASE clients[Head(todo[c])] = NoConn
    <3>1. stage' = [stage EXCEPT ![c] = IF Len(todo[c]) = 1 THEN "idle" ELSE "lookup"] /\ target' = target
      BY <1>6, <2>6 DEF Lookup, Goto
    <3>2. /\ stage' \in [Conn -> Stage] /\ target' \in [Conn -> Conn \cup {NoConn}]
          /\ \A h \in Conn : stage'[h] \in {"write", "writing"} => target'[h] \in Conn
      BY <3>1
    <3>3. \A h \in Conn : stage'[h] = "lookup" => todo'[h] # <<>>
      BY <2>3, <2>5, <3>1
    <3>. QED  BY <2>4, <2>5, <3>2, <3>3
  <2>7. CASE clients[Head(todo[c])] # NoConn
    <3>1. /\ stage' = [stage EXCEPT ![c] = "write"]
          /\ target' = [target EXCEPT ![c] = clients[Head(todo[c])]]
      BY <1>6, <2>7 DEF Lookup, Goto
    <3>2. /\ stage' \in [Conn -> Stage] /\ target' \in [Conn -> Conn \cup {NoConn}]
          /\ \A h \in Conn : stage'[h] \in {"write", "writing"} => target'[h] \in Conn
      BY <2>2, <2>7, <3>1
    <3>3. \A h \in Conn : stage'[h] = "lookup" => todo'[h] # <<>>
      BY <2>5, <3>1
    <3>. QED  BY <2>4, <2>5, <3>2, <3>3
  <2>. QED  BY <2>6, <2>7
<1>7. ASSUME NEW c \in Conn, BeginWrite(c)
      PROVE  LocksShape'
  BY <1>7 DEF BeginWrite, MayWrite, Goto, locksVars, handlerVars, netVars
<1>8. ASSUME NEW c \in Conn, FindClosed(c)
      PROVE  LocksShape'
  BY <1>8 DEF FindClosed, Unlocked, Continue, Goto, locksVars, handlerVars,
     netVars
<1>9. ASSUME NEW c \in Conn, EndWrite(c)
      PROVE  LocksShape'
  BY <1>9 DEF EndWrite, Continue, Goto, locksVars, handlerVars, netVars
<1>10. ASSUME NEW c \in Conn, WriteFails(c)
      PROVE  LocksShape'
  BY <1>10 DEF WriteFails, Continue, Goto, locksVars, handlerVars, netVars
<1>11. ASSUME NEW c \in Conn, ReadFails(c)
      PROVE  LocksShape'
  BY <1>11 DEF ReadFails, EndLoop, Goto, locksVars, handlerVars, netVars
<1>12. ASSUME NEW c \in Conn, Unregister(c)
      PROVE  LocksShape'
  BY <1>12 DEF Unregister, UnlockAlways, Goto, locksVars, handlerVars, netVars
<1>13. ASSUME NEW c \in Conn, CloseConn(c)
      PROVE  LocksShape'
  BY <1>13 DEF CloseConn, Break, Goto, locksVars, handlerVars, netVars
<1>14. ASSUME NEW c \in Conn, ClientReads(c)
      PROVE  LocksShape'
  BY <1>14 DEF ClientReads, locksVars, handlerVars, netVars
<1>15. ASSUME NEW c \in Conn, Stalls(c)
      PROVE  LocksShape'
  BY <1>15 DEF Stalls, locksVars, handlerVars, netVars
<1>16. ASSUME NEW c \in Conn, Breaks(c)
      PROVE  LocksShape'
  BY <1>16 DEF Breaks, Break, locksVars, handlerVars, netVars
<1>17. ASSUME NEW c \in Conn, TCPGivesUp(c)
      PROVE  LocksShape'
  BY <1>17 DEF TCPGivesUp, Break, locksVars, handlerVars, netVars
<1>18. ASSUME NEW c \in Conn, Bootstrap(c)
      PROVE  LocksShape'
  BY <1>18 DEF Bootstrap, WriteOwn, Goto, locksVars, handlerVars, netVars
<1>19. ASSUME NEW c \in Conn, OwnFrame(c)
      PROVE  LocksShape'
  BY <1>19 DEF OwnFrame, WriteOwn, Goto, locksVars, handlerVars, netVars
<1>20. ASSUME NEW c \in Conn, ReadRefuses(c)
      PROVE  LocksShape'
  BY <1>20 DEF ReadRefuses, EndLoop, Goto, locksVars, handlerVars, netVars
<1>21. ASSUME NEW c \in Conn, BootstrapFails(c)
      PROVE  LocksShape'
  BY <1>21 DEF BootstrapFails, EndLoop, Goto, locksVars, handlerVars, netVars
<1>22. ASSUME NEW c \in Conn, Resumes(c)
      PROVE  LocksShape'
  BY <1>22 DEF Resumes, locksVars, handlerVars, netVars
<1>23. ASSUME NEW c \in Conn, Vanishes(c)
      PROVE  LocksShape'
  BY <1>23 DEF Vanishes, locksVars, handlerVars, netVars
<1>. QED
  BY <1>1, <1>2, <1>3, <1>4, <1>5, <1>6, <1>7, <1>8, <1>9, <1>10, <1>11,
     <1>12, <1>13, <1>14, <1>15, <1>16, <1>17, <1>18, <1>19, <1>20, <1>21,
     <1>22, <1>23 DEF LocksNext, Running, Network

(* The registry's mutex is locked where register closes an older connection. *)
LEMMA RegistryHeldStep ==
    ASSUME LocksShape, RegistryHeld, [LocksNext]_locksVars
    PROVE  RegistryHeld'
<1>. USE LocksAssumption DEF LocksShape, RegistryHeld, Waiting, Stage
<1>1. ASSUME UNCHANGED locksVars
      PROVE  RegistryHeld'
  BY <1>1 DEF locksVars, handlerVars, netVars
<1>2. ASSUME NEW c \in Conn, Accept(c)
      PROVE  RegistryHeld'
  BY <1>2 DEF Accept, Goto, locksVars, handlerVars, netVars
<1>3. ASSUME NEW c \in Conn, Lock(c)
      PROVE  RegistryHeld'
  BY <1>3 DEF Lock, Goto, locksVars, handlerVars, netVars
<1>4. ASSUME NEW c \in Conn, Replace(c)
      PROVE  RegistryHeld'
  BY <1>4 DEF Replace, Break, Goto, locksVars, handlerVars, netVars
<1>5. ASSUME NEW c \in Conn, NEW us \in Recipients(c), Packet(c, us)
      PROVE  RegistryHeld'
  BY <1>5 DEF Packet, Goto, locksVars, handlerVars, netVars
<1>6. ASSUME NEW c \in Conn, Lookup(c)
      PROVE  RegistryHeld'
  BY <1>6 DEF Lookup, Goto, locksVars, handlerVars, netVars
<1>7. ASSUME NEW c \in Conn, BeginWrite(c)
      PROVE  RegistryHeld'
  BY <1>7 DEF BeginWrite, MayWrite, Goto, locksVars, handlerVars, netVars
<1>8. ASSUME NEW c \in Conn, FindClosed(c)
      PROVE  RegistryHeld'
  BY <1>8 DEF FindClosed, Unlocked, Continue, Goto, locksVars, handlerVars,
     netVars
<1>9. ASSUME NEW c \in Conn, EndWrite(c)
      PROVE  RegistryHeld'
  BY <1>9 DEF EndWrite, Continue, Goto, locksVars, handlerVars, netVars
<1>10. ASSUME NEW c \in Conn, WriteFails(c)
      PROVE  RegistryHeld'
  BY <1>10 DEF WriteFails, Continue, Goto, locksVars, handlerVars, netVars
<1>11. ASSUME NEW c \in Conn, ReadFails(c)
      PROVE  RegistryHeld'
  BY <1>11 DEF ReadFails, EndLoop, Goto, locksVars, handlerVars, netVars
<1>12. ASSUME NEW c \in Conn, Unregister(c)
      PROVE  RegistryHeld'
  BY <1>12 DEF Unregister, UnlockAlways, Goto, locksVars, handlerVars, netVars
<1>13. ASSUME NEW c \in Conn, CloseConn(c)
      PROVE  RegistryHeld'
  BY <1>13 DEF CloseConn, Break, Goto, locksVars, handlerVars, netVars
<1>14. ASSUME NEW c \in Conn, ClientReads(c)
      PROVE  RegistryHeld'
  BY <1>14 DEF ClientReads, locksVars, handlerVars, netVars
<1>15. ASSUME NEW c \in Conn, Stalls(c)
      PROVE  RegistryHeld'
  BY <1>15 DEF Stalls, locksVars, handlerVars, netVars
<1>16. ASSUME NEW c \in Conn, Breaks(c)
      PROVE  RegistryHeld'
  BY <1>16 DEF Breaks, Break, locksVars, handlerVars, netVars
<1>17. ASSUME NEW c \in Conn, TCPGivesUp(c)
      PROVE  RegistryHeld'
  BY <1>17 DEF TCPGivesUp, Break, locksVars, handlerVars, netVars
<1>18. ASSUME NEW c \in Conn, Bootstrap(c)
      PROVE  RegistryHeld'
  BY <1>18 DEF Bootstrap, WriteOwn, Goto, locksVars, handlerVars, netVars
<1>19. ASSUME NEW c \in Conn, OwnFrame(c)
      PROVE  RegistryHeld'
  BY <1>19 DEF OwnFrame, WriteOwn, Goto, locksVars, handlerVars, netVars
<1>20. ASSUME NEW c \in Conn, ReadRefuses(c)
      PROVE  RegistryHeld'
  BY <1>20 DEF ReadRefuses, EndLoop, Goto, locksVars, handlerVars, netVars
<1>21. ASSUME NEW c \in Conn, BootstrapFails(c)
      PROVE  RegistryHeld'
  BY <1>21 DEF BootstrapFails, EndLoop, Goto, locksVars, handlerVars, netVars
<1>22. ASSUME NEW c \in Conn, Resumes(c)
      PROVE  RegistryHeld'
  BY <1>22 DEF Resumes, locksVars, handlerVars, netVars
<1>23. ASSUME NEW c \in Conn, Vanishes(c)
      PROVE  RegistryHeld'
  BY <1>23 DEF Vanishes, locksVars, handlerVars, netVars
<1>. QED
  BY <1>1, <1>2, <1>3, <1>4, <1>5, <1>6, <1>7, <1>8, <1>9, <1>10, <1>11,
     <1>12, <1>13, <1>14, <1>15, <1>16, <1>17, <1>18, <1>19, <1>20, <1>21,
     <1>22, <1>23 DEF LocksNext, Running, Network

(* A connection's mutex is locked by the one that writes to it. *)
LEMMA WriterHoldsStep ==
    ASSUME LocksShape, WriterHolds, [LocksNext]_locksVars
    PROVE  WriterHolds'
<1>. USE LocksAssumption DEF LocksShape, WriterHolds, Waiting, Stage
<1>1. ASSUME UNCHANGED locksVars
      PROVE  WriterHolds'
  BY <1>1 DEF locksVars, handlerVars, netVars
<1>2. ASSUME NEW c \in Conn, Accept(c)
      PROVE  WriterHolds'
  BY <1>2 DEF Accept, Goto, locksVars, handlerVars, netVars
<1>3. ASSUME NEW c \in Conn, Lock(c)
      PROVE  WriterHolds'
  BY <1>3 DEF Lock, Goto, locksVars, handlerVars, netVars
<1>4. ASSUME NEW c \in Conn, Replace(c)
      PROVE  WriterHolds'
  BY <1>4 DEF Replace, Break, Goto, locksVars, handlerVars, netVars
<1>5. ASSUME NEW c \in Conn, NEW us \in Recipients(c), Packet(c, us)
      PROVE  WriterHolds'
  BY <1>5 DEF Packet, Goto, locksVars, handlerVars, netVars
<1>6. ASSUME NEW c \in Conn, Lookup(c)
      PROVE  WriterHolds'
  BY <1>6 DEF Lookup, Goto, locksVars, handlerVars, netVars
<1>7. ASSUME NEW c \in Conn, BeginWrite(c)
      PROVE  WriterHolds'
  BY <1>7 DEF BeginWrite, MayWrite, Goto, locksVars, handlerVars, netVars
<1>8. ASSUME NEW c \in Conn, FindClosed(c)
      PROVE  WriterHolds'
  BY <1>8 DEF FindClosed, Unlocked, Continue, Goto, locksVars, handlerVars,
     netVars
<1>9. ASSUME NEW c \in Conn, EndWrite(c)
      PROVE  WriterHolds'
  BY <1>9 DEF EndWrite, Continue, Goto, locksVars, handlerVars, netVars
<1>10. ASSUME NEW c \in Conn, WriteFails(c)
      PROVE  WriterHolds'
  BY <1>10 DEF WriteFails, Continue, Goto, locksVars, handlerVars, netVars
<1>11. ASSUME NEW c \in Conn, ReadFails(c)
      PROVE  WriterHolds'
  BY <1>11 DEF ReadFails, EndLoop, Goto, locksVars, handlerVars, netVars
<1>12. ASSUME NEW c \in Conn, Unregister(c)
      PROVE  WriterHolds'
  BY <1>12 DEF Unregister, UnlockAlways, Goto, locksVars, handlerVars, netVars
<1>13. ASSUME NEW c \in Conn, CloseConn(c)
      PROVE  WriterHolds'
  BY <1>13 DEF CloseConn, Break, Goto, locksVars, handlerVars, netVars
<1>14. ASSUME NEW c \in Conn, ClientReads(c)
      PROVE  WriterHolds'
  BY <1>14 DEF ClientReads, locksVars, handlerVars, netVars
<1>15. ASSUME NEW c \in Conn, Stalls(c)
      PROVE  WriterHolds'
  BY <1>15 DEF Stalls, locksVars, handlerVars, netVars
<1>16. ASSUME NEW c \in Conn, Breaks(c)
      PROVE  WriterHolds'
  BY <1>16 DEF Breaks, Break, locksVars, handlerVars, netVars
<1>17. ASSUME NEW c \in Conn, TCPGivesUp(c)
      PROVE  WriterHolds'
  BY <1>17 DEF TCPGivesUp, Break, locksVars, handlerVars, netVars
<1>18. ASSUME NEW c \in Conn, Bootstrap(c)
      PROVE  WriterHolds'
  BY <1>18 DEF Bootstrap, WriteOwn, Goto, locksVars, handlerVars, netVars
<1>19. ASSUME NEW c \in Conn, OwnFrame(c)
      PROVE  WriterHolds'
  BY <1>19 DEF OwnFrame, WriteOwn, Goto, locksVars, handlerVars, netVars
<1>20. ASSUME NEW c \in Conn, ReadRefuses(c)
      PROVE  WriterHolds'
  BY <1>20 DEF ReadRefuses, EndLoop, Goto, locksVars, handlerVars, netVars
<1>21. ASSUME NEW c \in Conn, BootstrapFails(c)
      PROVE  WriterHolds'
  BY <1>21 DEF BootstrapFails, EndLoop, Goto, locksVars, handlerVars, netVars
<1>22. ASSUME NEW c \in Conn, Resumes(c)
      PROVE  WriterHolds'
  BY <1>22 DEF Resumes, locksVars, handlerVars, netVars
<1>23. ASSUME NEW c \in Conn, Vanishes(c)
      PROVE  WriterHolds'
  BY <1>23 DEF Vanishes, locksVars, handlerVars, netVars
<1>. QED
  BY <1>1, <1>2, <1>3, <1>4, <1>5, <1>6, <1>7, <1>8, <1>9, <1>10, <1>11,
     <1>12, <1>13, <1>14, <1>15, <1>16, <1>17, <1>18, <1>19, <1>20, <1>21,
     <1>22, <1>23 DEF LocksNext, Running, Network

(* Who closes a connection has its mutex, so nobody is writing to it. *)
LEMMA OnlyOpenWrittenStep ==
    ASSUME LocksShape, WriterHolds, OnlyOpenWritten, [LocksNext]_locksVars
    PROVE  OnlyOpenWritten'
<1>. USE LocksAssumption DEF LocksShape, WriterHolds, OnlyOpenWritten, Waiting, Stage
<1>1. ASSUME UNCHANGED locksVars
      PROVE  OnlyOpenWritten'
  BY <1>1 DEF locksVars, handlerVars, netVars
<1>2. ASSUME NEW c \in Conn, Accept(c)
      PROVE  OnlyOpenWritten'
  BY <1>2 DEF Accept, Goto, locksVars, handlerVars, netVars
<1>3. ASSUME NEW c \in Conn, Lock(c)
      PROVE  OnlyOpenWritten'
  BY <1>3 DEF Lock, Goto, locksVars, handlerVars, netVars
<1>4. ASSUME NEW c \in Conn, Replace(c)
      PROVE  OnlyOpenWritten'
  BY <1>4 DEF Replace, Break, Goto, locksVars, handlerVars, netVars
<1>5. ASSUME NEW c \in Conn, NEW us \in Recipients(c), Packet(c, us)
      PROVE  OnlyOpenWritten'
  BY <1>5 DEF Packet, Goto, locksVars, handlerVars, netVars
<1>6. ASSUME NEW c \in Conn, Lookup(c)
      PROVE  OnlyOpenWritten'
  BY <1>6 DEF Lookup, Goto, locksVars, handlerVars, netVars
<1>7. ASSUME NEW c \in Conn, BeginWrite(c)
      PROVE  OnlyOpenWritten'
  BY <1>7 DEF BeginWrite, MayWrite, Goto, locksVars, handlerVars, netVars
<1>8. ASSUME NEW c \in Conn, FindClosed(c)
      PROVE  OnlyOpenWritten'
  BY <1>8 DEF FindClosed, Unlocked, Continue, Goto, locksVars, handlerVars,
     netVars
<1>9. ASSUME NEW c \in Conn, EndWrite(c)
      PROVE  OnlyOpenWritten'
  BY <1>9 DEF EndWrite, Continue, Goto, locksVars, handlerVars, netVars
<1>10. ASSUME NEW c \in Conn, WriteFails(c)
      PROVE  OnlyOpenWritten'
  BY <1>10 DEF WriteFails, Continue, Goto, locksVars, handlerVars, netVars
<1>11. ASSUME NEW c \in Conn, ReadFails(c)
      PROVE  OnlyOpenWritten'
  BY <1>11 DEF ReadFails, EndLoop, Goto, locksVars, handlerVars, netVars
<1>12. ASSUME NEW c \in Conn, Unregister(c)
      PROVE  OnlyOpenWritten'
  BY <1>12 DEF Unregister, UnlockAlways, Goto, locksVars, handlerVars, netVars
<1>13. ASSUME NEW c \in Conn, CloseConn(c)
      PROVE  OnlyOpenWritten'
  BY <1>13 DEF CloseConn, Break, Goto, locksVars, handlerVars, netVars
<1>14. ASSUME NEW c \in Conn, ClientReads(c)
      PROVE  OnlyOpenWritten'
  BY <1>14 DEF ClientReads, locksVars, handlerVars, netVars
<1>15. ASSUME NEW c \in Conn, Stalls(c)
      PROVE  OnlyOpenWritten'
  BY <1>15 DEF Stalls, locksVars, handlerVars, netVars
<1>16. ASSUME NEW c \in Conn, Breaks(c)
      PROVE  OnlyOpenWritten'
  BY <1>16 DEF Breaks, Break, locksVars, handlerVars, netVars
<1>17. ASSUME NEW c \in Conn, TCPGivesUp(c)
      PROVE  OnlyOpenWritten'
  BY <1>17 DEF TCPGivesUp, Break, locksVars, handlerVars, netVars
<1>18. ASSUME NEW c \in Conn, Bootstrap(c)
      PROVE  OnlyOpenWritten'
  BY <1>18 DEF Bootstrap, WriteOwn, Goto, locksVars, handlerVars, netVars
<1>19. ASSUME NEW c \in Conn, OwnFrame(c)
      PROVE  OnlyOpenWritten'
  BY <1>19 DEF OwnFrame, WriteOwn, Goto, locksVars, handlerVars, netVars
<1>20. ASSUME NEW c \in Conn, ReadRefuses(c)
      PROVE  OnlyOpenWritten'
  BY <1>20 DEF ReadRefuses, EndLoop, Goto, locksVars, handlerVars, netVars
<1>21. ASSUME NEW c \in Conn, BootstrapFails(c)
      PROVE  OnlyOpenWritten'
  BY <1>21 DEF BootstrapFails, EndLoop, Goto, locksVars, handlerVars, netVars
<1>22. ASSUME NEW c \in Conn, Resumes(c)
      PROVE  OnlyOpenWritten'
  BY <1>22 DEF Resumes, locksVars, handlerVars, netVars
<1>23. ASSUME NEW c \in Conn, Vanishes(c)
      PROVE  OnlyOpenWritten'
  BY <1>23 DEF Vanishes, locksVars, handlerVars, netVars
<1>. QED
  BY <1>1, <1>2, <1>3, <1>4, <1>5, <1>6, <1>7, <1>8, <1>9, <1>10, <1>11,
     <1>12, <1>13, <1>14, <1>15, <1>16, <1>17, <1>18, <1>19, <1>20, <1>21,
     <1>22, <1>23 DEF LocksNext, Running, Network

(* LocksInv is inductive: what the locks protect, and who has locked them.  *)
THEOREM LocksInvariant == LocksSpec => []LocksInv
<1>1. LocksInit => LocksInv
  BY LocksAssumption DEF LocksInit, LocksInv, LocksShape, RegistryHeld, WriterHolds,
     OnlyOpenWritten, Waiting, Stage
<1>2. LocksInv /\ [LocksNext]_locksVars => LocksInv'
  BY LocksShapeStep, RegistryHeldStep, WriterHoldsStep, OnlyOpenWrittenStep DEF LocksInv
<1>. QED  BY <1>1, <1>2, PTL DEF LocksSpec

(* The types of the hub's locks, and a connection's mutex is that of whoever *)
(* writes to it.                                                             *)
THEOREM LocksTypeCorrect == LocksSpec => []LocksTypeOK
<1>1. LocksInv => LocksTypeOK
  BY DEF LocksInv, LocksShape, WriterHolds, LocksTypeOK
<1>. QED  BY <1>1, LocksInvariant, PTL

(* Two writers never mix their frames on a connection, and no frame is begun *)
(* on one that register has closed, however many connections there are.      *)
THEOREM WritesAreExclusive == LocksSpec => []WritesExclusive
<1>1. LocksInv => WritesExclusive
  BY DEF LocksInv, LocksShape, WriterHolds, OnlyOpenWritten, WritesExclusive
<1>. QED  BY <1>1, LocksInvariant, PTL

(* The mutexes of the hub cannot deadlock: waiting ends at a register, or at *)
(* a writer, who waits for the network only, however many handlers there are.*)
THEOREM WaitsEnd == LocksSpec => []NoCircularWait
<1>1. LocksInv => NoCircularWait
  <2>. SUFFICES ASSUME LocksInv, NEW h \in Conn, NEW d \in Conn, NEW e \in Conn, NEW f \in Conn,
                       WaitsFor(h, d), WaitsFor(d, e), WaitsFor(e, f)
                PROVE  FALSE
    BY DEF NoCircularWait
  <2>. USE DEF LocksInv, LocksShape, RegistryHeld, WriterHolds, Waiting
  <2>1. ASSUME NEW g \in Conn, NEW k \in Conn, WaitsFor(g, k)
        PROVE  stage[k] = "replace" \/ stage[k] = "writing"
    BY <2>1 DEF WaitsFor
  <2>2. stage[d] = "replace" /\ (stage[e] = "replace" \/ stage[e] = "writing")
    BY <2>1 DEF WaitsFor
  <2>3. stage[e] = "writing"
    BY <2>2 DEF WaitsFor
  <2>. QED  BY <2>3 DEF WaitsFor
<1>. QED  BY <1>1, LocksInvariant, PTL

-----------------------------------------------------------------------------
(* The words that Read has still to take. *)
Stream == arrived \o wire

FramingTypes ==
    /\ written \in [Sending -> {"nothing", "header", "frame", "error"}]
    /\ wire \in Seq(Sending \X Nat) /\ arrived \in Seq(Sending \X Nat)
    /\ needed \in 0 .. MaxFrame /\ handled \in Seq(Sending)
    /\ link \in {"up", "cut", "closed"} /\ overlapped \in BOOLEAN

(* Each word is in the stream once, after it was written and before its     *)
(* packet is handled.                                                       *)
WordsKnown ==
    \A i \in 1 .. Len(Stream) :
        LET p == Stream[i][1]  k == Stream[i][2] IN
        /\ Stream[i] = <<p, k>> /\ p \in Sending /\ k \in 0 .. sizeOf[p]
        /\ written[p] # "nothing" /\ sizeOf[p] <= MaxFrame
        /\ k > 0 => written[p] = "frame" /\ \A j \in DOMAIN handled : handled[j] # p

WordsDistinct == \A i, j \in 1 .. Len(Stream) : Stream[i] = Stream[j] => i = j

SizesFit == \A p \in Sending : written[p] \in {"header", "frame"} => sizeOf[p] <= MaxFrame

HandledOnce ==
    \A i, j \in DOMAIN handled :
        written[handled[i]] = "frame" /\ (handled[i] = handled[j] => i = j)

WordsOnce == WordsKnown /\ WordsDistinct /\ SizesFit /\ HandledOnce

(* The payload of p comes next after word i, and a header after it.         *)
PayloadFollows(words, p, i) ==
    /\ i + sizeOf[p] <= Len(words)
    /\ \A k \in 1 .. sizeOf[p] : words[i + k] = <<p, k>>
    /\ i + sizeOf[p] < Len(words) => IsHeader(words[i + sizeOf[p] + 1])

(* As long as no writes have overlapped, one at a time has written a header *)
(* and no payload, and the header is the last word, if it was not read; ... *)
OneWriter ==
    /\ \A p, q \in Sending : written[p] = "header" /\ written[q] = "header" => p = q
    /\ \A p \in Sending : written[p] = "header" =>
          IF Len(Stream) = 0 THEN needed = sizeOf[p] ELSE Stream[Len(Stream)] = Header(p)
    /\ link = "up" /\ (\A p \in Sending : written[p] # "header") =>
          IF Len(Stream) = 0 THEN needed = 0 ELSE ~IsHeader(Stream[Len(Stream)])

(* ... what Read waits for comes first, and then whole frames.              *)
FirstWhole ==
    Len(Stream) > 0 =>
        IF needed = 0 THEN IsHeader(Stream[1])
                      ELSE \E p \in Sending : needed = sizeOf[p] /\ PayloadFollows(Stream, p, 0)

RestWhole ==
    \A i \in 1 .. Len(Stream) - 1 : IsHeader(Stream[i]) => PayloadFollows(Stream, Stream[i][1], i)

FramesWhole == link # "closed" /\ OneWriter /\ FirstWhole /\ RestWhole

FramingInv == FramingTypes /\ WordsOnce /\ (~overlapped => FramesWhole)

-----------------------------------------------------------------------------
(* The words of the stream: those that have arrived, and then the others.   *)
LEMMA StreamWords ==
    ASSUME FramingTypes
    PROVE  /\ Stream \in Seq(Sending \X Nat) /\ Len(Stream) \in Nat
           /\ Len(arrived) \in Nat /\ Len(wire) \in Nat
           /\ Len(Stream) = Len(arrived) + Len(wire)
<1>1. Stream \in Seq(Sending \X Nat) /\ Len(Stream) = Len(arrived) + Len(wire)
  BY ConcatProperties DEF FramingTypes, Stream
<1>2. Len(arrived) \in Nat /\ Len(wire) \in Nat
  BY LenProperties DEF FramingTypes
<1>. QED  BY <1>1, <1>2

LEMMA StreamAt ==
    ASSUME FramingTypes, NEW i \in 1 .. Len(Stream)
    PROVE  Stream[i] = IF i <= Len(arrived) THEN arrived[i] ELSE wire[i - Len(arrived)]
<1>1. i \in 1 .. Len(arrived) + Len(wire)
  BY StreamWords
<1>. QED  BY <1>1, ConcatProperties DEF FramingTypes, Stream

(* The same, of the stream after a step. *)
LEMMA JoinedWords ==
    ASSUME wire' \in Seq(Sending \X Nat), arrived' \in Seq(Sending \X Nat)
    PROVE  /\ Stream' \in Seq(Sending \X Nat) /\ Len(Stream') \in Nat
           /\ Len(arrived') \in Nat /\ Len(wire') \in Nat
           /\ Len(Stream') = Len(arrived') + Len(wire')
<1>1. Stream' \in Seq(Sending \X Nat) /\ Len(Stream') = Len(arrived') + Len(wire')
  BY ConcatProperties DEF Stream
<1>2. Len(arrived') \in Nat /\ Len(wire') \in Nat
  BY LenProperties
<1>. QED  BY <1>1, <1>2

LEMMA JoinedAt ==
    ASSUME wire' \in Seq(Sending \X Nat), arrived' \in Seq(Sending \X Nat),
           NEW i \in 1 .. Len(Stream')
    PROVE  Stream'[i] = IF i <= Len(arrived') THEN arrived'[i] ELSE wire'[i - Len(arrived')]
<1>1. i \in 1 .. Len(arrived') + Len(wire')
  BY JoinedWords
<1>. QED  BY <1>1, ConcatProperties DEF Stream

(* A payload's words are its packet's, in their order. *)
LEMMA PayloadWords ==
    ASSUME NEW p \in Sending, sizeOf[p] \in Nat
    PROVE  /\ Payload(p) \in Seq(Sending \X Nat) /\ Len(Payload(p)) = sizeOf[p]
           /\ \A k \in 1 .. sizeOf[p] : Payload(p)[k] = <<p, k>>
BY DEF Payload

(* What each step does to the stream. *)
LEMMA WriteHeaderStream ==
    ASSUME FramingTypes, NEW p \in Sending, WriteHeader(p)
    PROVE  /\ Len(Stream') = Len(Stream) + 1
           /\ \A i \in 1 .. Len(Stream) : Stream'[i] = Stream[i]
           /\ Stream'[Len(Stream) + 1] = <<p, 0>>
<1>1. wire' = Append(wire, <<p, 0>>) /\ arrived' = arrived
  BY DEF WriteHeader, Header, readerVars
<1>2. /\ wire' \in Seq(Sending \X Nat) /\ Len(wire') = Len(wire) + 1
      /\ \A i \in 1 .. Len(wire) : wire'[i] = wire[i]
      /\ wire'[Len(wire) + 1] = <<p, 0>>
  BY <1>1, AppendProperties DEF FramingTypes
<1>0. /\ Len(Stream) \in Nat /\ Len(arrived) \in Nat /\ Len(wire) \in Nat
      /\ Len(Stream) = Len(arrived) + Len(wire)
  BY StreamWords
<1>6. arrived' \in Seq(Sending \X Nat)
  BY <1>1 DEF FramingTypes
<1>3. Len(Stream') = Len(Stream) + 1
  BY <1>0, <1>1, <1>2, <1>6, JoinedWords
<1>4. ASSUME NEW i \in 1 .. Len(Stream)
      PROVE  Stream'[i] = Stream[i]
  <2>0. i \in 1 .. Len(Stream')
    BY <1>0, <1>3
  <2>1. Stream'[i] = IF i <= Len(arrived) THEN arrived[i] ELSE wire'[i - Len(arrived)]
    BY <1>1, <1>2, <1>6, <2>0, JoinedAt
  <2>2. i > Len(arrived) => wire'[i - Len(arrived)] = wire[i - Len(arrived)]
    BY <1>0, <1>2
  <2>. QED  BY <2>1, <2>2, StreamAt
<1>5. Stream'[Len(Stream) + 1] = <<p, 0>>
  <2>. DEFINE i == Len(Stream) + 1
  <2>1. Stream'[i] = IF i <= Len(arrived) THEN arrived[i] ELSE wire'[i - Len(arrived)]
    <3>1. i \in 1 .. Len(Stream')
      BY <1>0, <1>3
    <3>. HIDE DEF i
    <3>. QED  BY <1>1, <1>2, <1>6, <3>1, JoinedAt
  <2>2. i > Len(arrived) /\ i - Len(arrived) = Len(wire) + 1
    BY <1>0
  <2>. QED  BY <1>2, <2>1, <2>2
<1>. QED  BY <1>3, <1>4, <1>5

LEMMA WritePayloadStream ==
    ASSUME FramingTypes, NEW p \in Sending, WritePayload(p)
    PROVE  /\ Len(Stream') = Len(Stream) + sizeOf[p]
           /\ \A i \in 1 .. Len(Stream) : Stream'[i] = Stream[i]
           /\ \A k \in 1 .. sizeOf[p] : Stream'[Len(Stream) + k] = <<p, k>>
<1>1. wire' = wire \o Payload(p) /\ arrived' = arrived /\ sizeOf[p] \in Nat
  BY FramingAssumption DEF WritePayload, readerVars
<1>2. /\ wire' \in Seq(Sending \X Nat) /\ Len(wire') = Len(wire) + sizeOf[p]
      /\ \A i \in 1 .. Len(wire) + sizeOf[p] :
            wire'[i] = IF i <= Len(wire) THEN wire[i] ELSE Payload(p)[i - Len(wire)]
  <2>1. Payload(p) \in Seq(Sending \X Nat) /\ Len(Payload(p)) = sizeOf[p]
    BY <1>1, PayloadWords
  <2>. QED  BY <1>1, <2>1, ConcatProperties DEF FramingTypes
<1>3. /\ \A i \in 1 .. Len(wire) : wire'[i] = wire[i]
      /\ \A k \in 1 .. sizeOf[p] : wire'[Len(wire) + k] = <<p, k>>
  BY <1>1, <1>2, StreamWords, PayloadWords
<1>0. /\ Len(Stream) \in Nat /\ Len(arrived) \in Nat /\ Len(wire) \in Nat
      /\ Len(Stream) = Len(arrived) + Len(wire)
  BY StreamWords
<1>7. arrived' \in Seq(Sending \X Nat)
  BY <1>1 DEF FramingTypes
<1>4. Len(Stream') = Len(Stream) + sizeOf[p]
  BY <1>0, <1>1, <1>2, <1>7, JoinedWords
<1>5. ASSUME NEW i \in 1 .. Len(Stream)
      PROVE  Stream'[i] = Stream[i]
  <2>1. Stream'[i] = IF i <= Len(arrived) THEN arrived[i] ELSE wire'[i - Len(arrived)]
    <3>1. i \in 1 .. Len(Stream')
      BY <1>0, <1>1, <1>4
    <3>. QED  BY <1>1, <1>2, <1>7, <3>1, JoinedAt
  <2>2. i > Len(arrived) => wire'[i - Len(arrived)] = wire[i - Len(arrived)]
    BY <1>0, <1>3
  <2>. QED  BY <2>1, <2>2, StreamAt
<1>6. ASSUME NEW k \in 1 .. sizeOf[p]
      PROVE  Stream'[Len(Stream) + k] = <<p, k>>
  <2>. DEFINE i == Len(Stream) + k
  <2>1. i \in 1 .. Len(Stream')
    BY <1>0, <1>1, <1>4
  <2>2. Stream'[i] = IF i <= Len(arrived) THEN arrived[i] ELSE wire'[i - Len(arrived)]
    <3>. HIDE DEF i
    <3>. QED  BY <1>1, <1>2, <1>7, <2>1, JoinedAt
  <2>3. i > Len(arrived) /\ i - Len(arrived) = Len(wire) + k
    BY <1>0, <1>1
  <2>. QED  BY <1>3, <2>2, <2>3
<1>. QED  BY <1>4, <1>5, <1>6

LEMMA ReadHeaderStream ==
    ASSUME FramingTypes, ReadHeader
    PROVE  /\ Len(Stream) > 0 /\ Head(arrived) = Stream[1]
           /\ Len(Stream') = Len(Stream) - 1
           /\ \A i \in 1 .. Len(Stream) - 1 : Stream'[i] = Stream[i + 1]
<1>1. arrived # <<>> /\ arrived' = Tail(arrived) /\ wire' = wire
  BY DEF ReadHeader
<1>2. /\ Tail(arrived) \in Seq(Sending \X Nat) /\ Len(Tail(arrived)) = Len(arrived) - 1
      /\ \A i \in 1 .. Len(Tail(arrived)) : Tail(arrived)[i] = arrived[i + 1]
  BY <1>1, HeadTailProperties DEF FramingTypes
<1>3. Len(arrived) > 0 /\ Head(arrived) = arrived[1]
  BY <1>1, <1>2, LenProperties DEF FramingTypes
<1>0. /\ Len(Stream) \in Nat /\ Len(arrived) \in Nat /\ Len(wire) \in Nat
      /\ Len(Stream) = Len(arrived) + Len(wire)
  BY StreamWords
<1>6. wire' \in Seq(Sending \X Nat) /\ arrived' \in Seq(Sending \X Nat)
  BY <1>1, <1>2 DEF FramingTypes
<1>4. Len(Stream') = Len(Stream) - 1 /\ Len(Stream) > 0
  BY <1>0, <1>1, <1>2, <1>3, <1>6, JoinedWords
<1>7. Stream[1] = arrived[1]
  BY <1>0, <1>3, StreamAt
<1>5. ASSUME NEW i \in 1 .. Len(Stream) - 1
      PROVE  Stream'[i] = Stream[i + 1]
  <2>1. Stream'[i] = IF i <= Len(arrived) - 1 THEN arrived'[i] ELSE wire[i - (Len(arrived) - 1)]
    <3>1. i \in 1 .. Len(Stream')
      BY <1>0, <1>4
    <3>. QED  BY <1>1, <1>2, <1>6, <3>1, JoinedAt
  <2>2. Stream[i + 1] = IF i + 1 <= Len(arrived) THEN arrived[i + 1] ELSE wire[i + 1 - Len(arrived)]
    <3>. DEFINE j == i + 1
    <3>1. j \in 1 .. Len(Stream)
      BY <1>0
    <3>. HIDE DEF j
    <3>2. Stream[j] = IF j <= Len(arrived) THEN arrived[j] ELSE wire[j - Len(arrived)]
      BY <3>1, StreamAt
    <3>. QED  BY <3>2 DEF j
  <2>3. i - (Len(arrived) - 1) = i + 1 - Len(arrived)
    BY <1>0
  <2>4. i <= Len(arrived) - 1 => arrived'[i] = arrived[i + 1]
    BY <1>0, <1>1, <1>2
  <2>5. i <= Len(arrived) - 1 <=> i + 1 <= Len(arrived)
    BY <1>0
  <2>. QED  BY <2>1, <2>2, <2>3, <2>4, <2>5
<1>. QED  BY <1>3, <1>4, <1>5, <1>7

LEMMA ReadPayloadStream ==
    ASSUME FramingTypes, NEW p \in Sending, Taken = Payload(p), ReadPayload
    PROVE  /\ needed = sizeOf[p] /\ needed <= Len(Stream)
           /\ \A k \in 1 .. needed : Stream[k] = <<p, k>>
           /\ Len(Stream') = Len(Stream) - needed
           /\ \A i \in 1 .. Len(Stream) - needed : Stream'[i] = Stream[i + needed]
<1>1. /\ Len(arrived) >= needed /\ Taken = SubSeq(arrived, 1, needed)
      /\ needed \in Nat /\ needed > 0 /\ wire' = wire /\ sizeOf[p] \in Nat
      /\ arrived' = SubSeq(arrived, Len(Taken) + 1, Len(arrived))
  BY StreamWords, FramingAssumption DEF ReadPayload, AllArrived, Taken, FramingTypes
<1>2. \A i \in 1 .. Len(arrived) : arrived[i] \in Sending \X Nat
  BY ElementOfSeq DEF FramingTypes
<1>3. /\ Len(Taken) = needed /\ \A k \in 1 .. needed : Taken[k] = arrived[k]
  <2>1. \A i \in 1 .. needed : arrived[i] \in Sending \X Nat
    BY <1>1, <1>2, StreamWords
  <2>. QED  BY <1>1, <2>1, SubSeqProperties
<1>4. needed = sizeOf[p] /\ \A k \in 1 .. needed : arrived[k] = <<p, k>>
  BY <1>1, <1>3, PayloadWords
<1>5. /\ arrived' \in Seq(Sending \X Nat) /\ Len(arrived') = Len(arrived) - needed
      /\ \A i \in 1 .. Len(arrived) - needed : arrived'[i] = arrived[i + needed]
  <2>1. \A i \in needed + 1 .. Len(arrived) : arrived[i] \in Sending \X Nat
    BY <1>1, <1>2, StreamWords
  <2>2. /\ SubSeq(arrived, needed + 1, Len(arrived)) \in Seq(Sending \X Nat)
        /\ Len(SubSeq(arrived, needed + 1, Len(arrived))) =
              IF needed + 1 <= Len(arrived) THEN Len(arrived) - (needed + 1) + 1 ELSE 0
        /\ \A i \in 1 .. Len(arrived) - (needed + 1) + 1 :
              SubSeq(arrived, needed + 1, Len(arrived))[i] = arrived[needed + 1 + i - 1]
    BY <1>1, <2>1, StreamWords, SubSeqProperties
  <2>3. arrived' = SubSeq(arrived, needed + 1, Len(arrived))
    BY <1>1, <1>3
  <2>4. Len(arrived) \in Nat
    BY StreamWords
  <2>. HIDE DEF Taken
  <2>5. arrived' \in Seq(Sending \X Nat) /\ Len(arrived') = Len(arrived) - needed
    BY <1>1, <2>2, <2>3, <2>4
  <2>6. ASSUME NEW i \in 1 .. Len(arrived) - needed
        PROVE  arrived'[i] = arrived[i + needed]
    <3>1. i \in 1 .. Len(arrived) - (needed + 1) + 1 /\ needed + 1 + i - 1 = i + needed
      BY <1>1, <2>4
    <3>. QED  BY <2>2, <2>3, <3>1
  <2>. QED  BY <2>5, <2>6
<1>0. /\ Len(Stream) \in Nat /\ Len(arrived) \in Nat /\ Len(wire) \in Nat
      /\ Len(Stream) = Len(arrived) + Len(wire)
  BY StreamWords
<1>9. wire' \in Seq(Sending \X Nat)
  BY <1>1 DEF FramingTypes
<1>6. Len(Stream') = Len(Stream) - needed /\ needed <= Len(Stream)
  <2>1. Len(Stream') = Len(arrived') + Len(wire')
    BY <1>5, <1>9, JoinedWords
  <2>2. Len(wire') = Len(wire) /\ Len(arrived') = Len(arrived) - needed
    BY <1>1, <1>5
  <2>3. needed \in Nat /\ needed <= Len(arrived)
    BY <1>1
  <2>. QED  BY <1>0, <2>1, <2>2, <2>3
<1>7. ASSUME NEW k \in 1 .. needed
      PROVE  Stream[k] = <<p, k>>
  <2>1. k \in 1 .. Len(Stream) /\ k <= Len(arrived)
    BY <1>0, <1>1
  <2>. QED  BY <1>4, <2>1, StreamAt
<1>8. ASSUME NEW i \in 1 .. Len(Stream) - needed
      PROVE  Stream'[i] = Stream[i + needed]
  <2>0. needed \in Nat /\ i \in 1 .. Len(Stream) - needed
    BY <1>1
  <2>1. Stream'[i] = IF i <= Len(arrived) - needed THEN arrived'[i]
                     ELSE wire[i - (Len(arrived) - needed)]
    <3>1. i \in 1 .. Len(Stream')
      BY <1>0, <1>1, <1>6
    <3>. QED  BY <1>1, <1>5, <1>9, <3>1, JoinedAt
  <2>2. Stream[i + needed] = IF i + needed <= Len(arrived) THEN arrived[i + needed]
                             ELSE wire[i + needed - Len(arrived)]
    <3>1. PICK j \in Int : j = i + needed
      BY <1>1
    <3>2. j \in 1 .. Len(Stream)
      BY <1>0, <2>0, <3>1
    <3>3. Stream[j] = IF j <= Len(arrived) THEN arrived[j] ELSE wire[j - Len(arrived)]
      BY <3>2, StreamAt
    <3>. QED  BY <2>0, <3>1, <3>3, StreamWords
  <2>3. i - (Len(arrived) - needed) = i + needed - Len(arrived)
    BY <1>0, <1>1
  <2>4. i <= Len(arrived) - needed => arrived'[i] = arrived[i + needed]
    BY <1>0, <1>1, <1>5
  <2>5. i <= Len(arrived) - needed <=> i + needed <= Len(arrived)
    BY <1>0, <1>1
  <2>. QED  BY <2>1, <2>2, <2>3, <2>4, <2>5
<1>. QED  BY <1>4, <1>6, <1>7, <1>8

LEMMA ArrivesStream ==
    ASSUME FramingTypes, Arrives
    PROVE  Stream' = Stream
<1>1. wire # <<>> /\ arrived' = Append(arrived, Head(wire)) /\ wire' = Tail(wire)
  BY DEF Arrives
<1>2. /\ Head(wire) \in Sending \X Nat /\ Head(wire) = wire[1]
      /\ wire' \in Seq(Sending \X Nat) /\ Len(wire') = Len(wire) - 1
      /\ \A i \in 1 .. Len(wire') : wire'[i] = wire[i + 1]
  BY <1>1, HeadTailProperties DEF FramingTypes
<1>3. /\ arrived' \in Seq(Sending \X Nat) /\ Len(arrived') = Len(arrived) + 1
      /\ \A i \in 1 .. Len(arrived) : arrived'[i] = arrived[i]
      /\ arrived'[Len(arrived) + 1] = wire[1]
  BY <1>1, <1>2, AppendProperties DEF FramingTypes
<1>4. /\ Stream' \in Seq(Sending \X Nat) /\ Len(Stream') = Len(Stream)
      /\ \A i \in 1 .. Len(Stream) : Stream'[i] = Stream[i]
  <2>1. Stream' \in Seq(Sending \X Nat) /\ Len(Stream') = Len(Stream)
    BY <1>2, <1>3, JoinedWords, StreamWords
  <2>2. ASSUME NEW i \in 1 .. Len(Stream)
        PROVE  Stream'[i] = Stream[i]
    <3>0. /\ Len(Stream) \in Nat /\ Len(arrived) \in Nat /\ Len(wire) \in Nat
          /\ Len(Stream) = Len(arrived) + Len(wire)
      BY StreamWords
    <3>1. Stream'[i] = IF i <= Len(arrived) + 1 THEN arrived'[i]
                       ELSE wire'[i - (Len(arrived) + 1)]
      BY <1>2, <1>3, <2>1, JoinedAt
    <3>2. Stream[i] = IF i <= Len(arrived) THEN arrived[i] ELSE wire[i - Len(arrived)]
      BY StreamAt
    <3>3. CASE i <= Len(arrived)
      BY <1>3, <3>1, <3>2, <3>3, <3>0
    <3>4. CASE i = Len(arrived) + 1
      <4>1. i - Len(arrived) = 1
        BY <3>4, <3>0
      <4>. QED  BY <1>3, <3>1, <3>2, <3>4, <4>1, <3>0
    <3>5. CASE i > Len(arrived) + 1
      <4>. DEFINE j == i - (Len(arrived) + 1)
      <4>1. j \in 1 .. Len(wire') /\ j + 1 = i - Len(arrived)
        BY <1>2, <3>5, <3>0
      <4>2. wire'[j] = wire[j + 1]
        BY <1>2, <4>1
      <4>. QED  BY <3>1, <3>2, <3>5, <4>1, <4>2, <3>0
    <3>. QED  BY <3>3, <3>4, <3>5, <3>0
  <2>. QED  BY <2>1, <2>2
<1>. QED  BY <1>4, StreamWords, SeqEqual

-----------------------------------------------------------------------------
(* A step keeps the types. *)
LEMMA FramingTypesStep ==
    ASSUME FramingTypes, WordsOnce, [FramingNext]_framingVars
    PROVE  FramingTypes'
<1>. USE FramingAssumption DEF FramingTypes
<1>1. ASSUME UNCHANGED framingVars
      PROVE  FramingTypes'
  BY <1>1 DEF framingVars, readerVars
<1>2. ASSUME NEW p \in Sending, WriteHeader(p)
      PROVE  FramingTypes'
  <2>1. wire' \in Seq(Sending \X Nat)
    BY <1>2, AppendProperties DEF WriteHeader, Header
  <2>. QED  BY <1>2, <2>1 DEF WriteHeader, readerVars
<1>3. ASSUME NEW p \in Sending, WritePayload(p)
      PROVE  FramingTypes'
  <2>1. Payload(p) \in Seq(Sending \X Nat)
    BY PayloadWords
  <2>2. wire' \in Seq(Sending \X Nat)
    BY <1>3, <2>1, ConcatProperties DEF WritePayload
  <2>. QED  BY <1>3, <2>2 DEF WritePayload, readerVars
<1>4. ASSUME NEW p \in Sending, WriteRefused(p)
      PROVE  FramingTypes'
  BY <1>4 DEF WriteRefused, framingVars, readerVars
<1>5. ASSUME Arrives
      PROVE  FramingTypes'
  <2>1. Head(wire) \in Sending \X Nat /\ wire' \in Seq(Sending \X Nat)
    BY <1>5, HeadTailProperties DEF Arrives
  <2>2. arrived' \in Seq(Sending \X Nat)
    BY <1>5, <2>1, AppendProperties DEF Arrives
  <2>. QED  BY <1>5, <2>1, <2>2 DEF Arrives
<1>6. ASSUME Cut
      PROVE  FramingTypes'
  BY <1>6 DEF Cut, framingVars, readerVars
<1>7. ASSUME ReadHeader
      PROVE  FramingTypes'
  <2>1. Head(arrived) \in Sending \X Nat /\ arrived' \in Seq(Sending \X Nat)
    BY <1>7, HeadTailProperties DEF ReadHeader
  <2>. QED  BY <1>7, <2>1 DEF ReadHeader
<1>8. ASSUME ReadPayload
      PROVE  FramingTypes'
  <2>1. PICK p \in Sending : Taken = Payload(p) /\ handled' = Append(handled, p)
    BY <1>8 DEF ReadPayload
  <2>2. handled' \in Seq(Sending)
    BY <2>1, AppendProperties
  <2>3. arrived' \in Seq(Sending \X Nat)
    <3>1. Len(Taken) \in Nat /\ Len(arrived) \in Nat
      BY <2>1, PayloadWords, LenProperties
    <3>2. \A i \in Len(Taken) + 1 .. Len(arrived) : arrived[i] \in Sending \X Nat
      BY <3>1, ElementOfSeq
    <3>. QED  BY <1>8, <3>1, <3>2, SubSeqProperties DEF ReadPayload
  <2>4. needed' = 0 /\ UNCHANGED <<written, wire, link, overlapped>>
    BY <1>8 DEF ReadPayload
  <2>. QED  BY <2>2, <2>3, <2>4
<1>9. ASSUME ReadRefused
      PROVE  FramingTypes'
  BY <1>9 DEF ReadRefused, framingVars, readerVars
<1>. QED
  BY <1>1, <1>2, <1>3, <1>4, <1>5, <1>6, <1>7, <1>8, <1>9 DEF FramingNext

(* A step keeps each word in its place and time. *)
LEMMA WordsOnceStep ==
    ASSUME FramingTypes, WordsOnce, [FramingNext]_framingVars
    PROVE  WordsOnce'
<1>. USE FramingAssumption
<1>1. ASSUME Stream' = Stream, handled' = handled,
             \A p \in Sending : written[p] \in {"header", "frame"} => written'[p] # "nothing",
             \A p \in Sending : /\ written[p] = "frame" => written'[p] = "frame"
                                /\ written[p] # "nothing" => written'[p] # "nothing"
                                /\ written'[p] \in {"header", "frame"} => written[p] \in {"header", "frame"}
      PROVE  WordsOnce'
  <2>1. \A i \in DOMAIN handled : handled[i] \in Sending
    BY DEF FramingTypes
  <2>2. WordsKnown'
    BY <1>1 DEF WordsOnce, WordsKnown
  <2>3. WordsDistinct'
    BY <1>1 DEF WordsOnce, WordsDistinct
  <2>4. SizesFit' /\ HandledOnce'
    BY <1>1, <2>1 DEF WordsOnce, SizesFit, HandledOnce
  <2>. QED  BY <2>2, <2>3, <2>4 DEF WordsOnce
<1>2. CASE UNCHANGED <<written, wire, arrived, handled>>
  BY <1>1, <1>2 DEF Stream
<1>3. ASSUME NEW p \in Sending, WriteHeader(p)
      PROVE  WordsOnce'
  <2>1. /\ Len(Stream') = Len(Stream) + 1 /\ Len(Stream) \in Nat
        /\ \A i \in 1 .. Len(Stream) : Stream'[i] = Stream[i]
        /\ Stream'[Len(Stream) + 1] = <<p, 0>>
    BY <1>3, WriteHeaderStream, StreamWords
  <2>2. /\ written[p] = "nothing" /\ sizeOf[p] <= MaxFrame /\ handled' = handled
        /\ written' = [written EXCEPT ![p] = "header"]
    BY <1>3 DEF WriteHeader, readerVars
  <2>3. \A i \in 1 .. Len(Stream') : i \in 1 .. Len(Stream) \/ i = Len(Stream) + 1
    BY <2>1
  <2>4. ASSUME NEW i \in 1 .. Len(Stream)
        PROVE  Stream[i][1] # p /\ Stream[i] # <<p, 0>>
    BY <2>2 DEF WordsOnce, WordsKnown
  <2>5. WordsKnown'
    <3>1. ASSUME NEW i \in 1 .. Len(Stream')
          PROVE  /\ Stream'[i] = <<Stream'[i][1], Stream'[i][2]>> /\ Stream'[i][1] \in Sending
                 /\ Stream'[i][2] \in 0 .. sizeOf[Stream'[i][1]]
                 /\ written'[Stream'[i][1]] # "nothing" /\ sizeOf[Stream'[i][1]] <= MaxFrame
                 /\ Stream'[i][2] > 0 => /\ written'[Stream'[i][1]] = "frame"
                                         /\ \A j \in DOMAIN handled' : handled'[j] # Stream'[i][1]
      <4>1. CASE i \in 1 .. Len(Stream)
        <5>1. Stream'[i] = Stream[i]
          BY <2>1, <4>1
        <5>2. PICK q \in Sending, k \in Int :
                 /\ k \in 0 .. sizeOf[q]
                 /\ Stream[i] = <<q, k>> /\ written[q] # "nothing" /\ sizeOf[q] <= MaxFrame
                 /\ k > 0 => /\ written[q] = "frame"
                             /\ \A j \in DOMAIN handled : handled[j] # q
          BY <4>1 DEF WordsOnce, WordsKnown
        <5>3. written'[q] = written[q]
          BY <2>2, <5>2
        <5>. QED  BY <2>2, <5>1, <5>2, <5>3
      <4>2. CASE i = Len(Stream) + 1
        BY <2>1, <2>2, <4>2 DEF FramingTypes
      <4>. QED  BY <2>3, <4>1, <4>2
    <3>. QED  BY <3>1 DEF WordsKnown
  <2>6. WordsDistinct'
    BY <2>1, <2>3, <2>4 DEF WordsOnce, WordsDistinct
  <2>7. SizesFit'
    BY <2>2 DEF WordsOnce, SizesFit, FramingTypes
  <2>8. HandledOnce'
    BY <2>2 DEF WordsOnce, HandledOnce, FramingTypes
  <2>. QED  BY <2>5, <2>6, <2>7, <2>8 DEF WordsOnce
<1>4. ASSUME NEW p \in Sending, WritePayload(p)
      PROVE  WordsOnce'
  <2>1. /\ Len(Stream') = Len(Stream) + sizeOf[p] /\ Len(Stream) \in Nat
        /\ \A i \in 1 .. Len(Stream) : Stream'[i] = Stream[i]
        /\ \A k \in 1 .. sizeOf[p] : Stream'[Len(Stream) + k] = <<p, k>>
    BY <1>4, WritePayloadStream, StreamWords
  <2>2. /\ written[p] = "header" /\ handled' = handled
        /\ written' = [written EXCEPT ![p] = "frame"]
    BY <1>4 DEF WritePayload, readerVars
  <2>3. ASSUME NEW i \in 1 .. Len(Stream'), i \notin 1 .. Len(Stream)
        PROVE  /\ i - Len(Stream) \in 1 .. sizeOf[p]
               /\ Stream'[i] = <<p, i - Len(Stream)>>
    <3>0. i \in Int /\ sizeOf[p] \in Nat
      OBVIOUS
    <3>1. PICK k \in Int : k = i - Len(Stream)
      <4>1. Len(Stream) \in Int
        BY <2>1
      <4>2. i - Len(Stream) \in Int
        BY <3>0, <4>1
      <4>. QED  BY <4>2, Zenon
    <3>2. k \in 1 .. sizeOf[p] /\ i = Len(Stream) + k
      BY <2>1, <2>3, <3>0, <3>1
    <3>. QED  BY <2>1, <3>1, <3>2
  <2>4. ASSUME NEW i \in 1 .. Len(Stream)
        PROVE  Stream[i][1] = p => Stream[i][2] = 0
    BY <2>2 DEF WordsOnce, WordsKnown
  <2>5. \A j \in DOMAIN handled : handled[j] # p
    BY <2>2 DEF WordsOnce, HandledOnce
  <2>6. sizeOf[p] <= MaxFrame
    BY <2>2 DEF WordsOnce, SizesFit
  <2>7. WordsKnown'
    <3>1. ASSUME NEW i \in 1 .. Len(Stream')
          PROVE  /\ Stream'[i] = <<Stream'[i][1], Stream'[i][2]>> /\ Stream'[i][1] \in Sending
                 /\ Stream'[i][2] \in 0 .. sizeOf[Stream'[i][1]]
                 /\ written'[Stream'[i][1]] # "nothing" /\ sizeOf[Stream'[i][1]] <= MaxFrame
                 /\ Stream'[i][2] > 0 => /\ written'[Stream'[i][1]] = "frame"
                                         /\ \A j \in DOMAIN handled' : handled'[j] # Stream'[i][1]
      <4>1. CASE i \in 1 .. Len(Stream)
        BY <2>1, <2>2, <4>1 DEF WordsOnce, WordsKnown, FramingTypes
      <4>2. CASE i \notin 1 .. Len(Stream)
        <5>1. PICK k \in 1 .. sizeOf[p] : Stream'[i] = <<p, k>>
          BY <2>3, <4>2
        <5>2. written'[p] = "frame"
          BY <2>2 DEF FramingTypes
        <5>. QED  BY <2>2, <2>5, <2>6, <5>1, <5>2
      <4>. QED  BY <4>1, <4>2
    <3>. QED  BY <3>1 DEF WordsKnown
  <2>8. WordsDistinct'
    <3>1. ASSUME NEW i \in 1 .. Len(Stream'), NEW j \in 1 .. Len(Stream'), Stream'[i] = Stream'[j]
          PROVE  i = j
      <4>1. CASE i \in 1 .. Len(Stream) /\ j \in 1 .. Len(Stream)
        BY <2>1, <3>1, <4>1 DEF WordsOnce, WordsDistinct
      <4>2. CASE i \notin 1 .. Len(Stream) /\ j \notin 1 .. Len(Stream)
        BY <2>1, <2>3, <3>1, <4>2
      <4>3. CASE i \in 1 .. Len(Stream) /\ j \notin 1 .. Len(Stream)
        <5>1. PICK k \in 1 .. sizeOf[p] : Stream'[j] = <<p, k>>
          BY <2>3, <4>3
        <5>2. Stream[i] = <<p, k>>
          BY <2>1, <3>1, <4>3, <5>1
        <5>3. k # 0
          BY <5>1
        <5>. QED  BY <2>4, <4>3, <5>2, <5>3
      <4>4. CASE i \notin 1 .. Len(Stream) /\ j \in 1 .. Len(Stream)
        <5>1. PICK k \in 1 .. sizeOf[p] : Stream'[i] = <<p, k>>
          BY <2>3, <4>4
        <5>2. Stream[j] = <<p, k>>
          BY <2>1, <3>1, <4>4, <5>1
        <5>3. k # 0
          BY <5>1
        <5>. QED  BY <2>4, <4>4, <5>2, <5>3
      <4>. QED  BY <4>1, <4>2, <4>3, <4>4
    <3>. QED  BY <3>1 DEF WordsDistinct
  <2>9. SizesFit'
    BY <2>2 DEF WordsOnce, SizesFit, FramingTypes
  <2>10. HandledOnce'
    BY <2>2 DEF WordsOnce, HandledOnce, FramingTypes
  <2>. QED  BY <2>7, <2>8, <2>9, <2>10 DEF WordsOnce
<1>5. ASSUME NEW p \in Sending, WriteRefused(p)
      PROVE  WordsOnce'
  <2>1. Stream' = Stream /\ handled' = handled
    BY <1>5 DEF WriteRefused, Stream, readerVars
  <2>2. written[p] \in {"nothing", "header"} /\ written' = [written EXCEPT ![p] = "error"]
    BY <1>5 DEF WriteRefused
  <2>. QED  BY <1>1, <2>1, <2>2 DEF FramingTypes
<1>6. CASE Arrives
  BY <1>1, <1>6, ArrivesStream DEF Arrives
<1>7. CASE ReadHeader
  <2>1. /\ Len(Stream) > 0 /\ Len(Stream) \in Nat /\ Len(Stream') = Len(Stream) - 1
        /\ \A i \in 1 .. Len(Stream) - 1 : Stream'[i] = Stream[i + 1]
    BY <1>7, ReadHeaderStream, StreamWords
  <2>2. written' = written /\ handled' = handled
    BY <1>7 DEF ReadHeader
  <2>3. \A i \in 1 .. Len(Stream') : i + 1 \in 1 .. Len(Stream) /\ Stream'[i] = Stream[i + 1]
    BY <2>1
  <2>4. WordsKnown'
    BY <2>2, <2>3 DEF WordsOnce, WordsKnown
  <2>5. WordsDistinct'
    BY <2>1, <2>3 DEF WordsOnce, WordsDistinct
  <2>. QED  BY <2>2, <2>4, <2>5 DEF WordsOnce, SizesFit, HandledOnce
<1>8. CASE ReadPayload
  <2>1. PICK p \in Sending : Taken = Payload(p) /\ handled' = Append(handled, p)
    BY <1>8 DEF ReadPayload
  <2>2. /\ needed = sizeOf[p] /\ needed <= Len(Stream) /\ Len(Stream) \in Nat /\ needed \in Nat
        /\ needed > 0
        /\ \A k \in 1 .. needed : Stream[k] = <<p, k>>
        /\ Len(Stream') = Len(Stream) - needed
        /\ \A i \in 1 .. Len(Stream) - needed : Stream'[i] = Stream[i + needed]
    BY <1>8, <2>1, ReadPayloadStream, StreamWords, SMTT(60)
  <2>3. written' = written
    BY <1>8 DEF ReadPayload
  <2>4. \A i \in 1 .. Len(Stream') : i + needed \in 1 .. Len(Stream) /\ Stream'[i] = Stream[i + needed]
    BY <2>2
  <2>5. /\ handled' \in Seq(Sending) /\ Len(handled) \in Nat
        /\ DOMAIN handled = 1 .. Len(handled) /\ DOMAIN handled' = 1 .. Len(handled) + 1
        /\ \A j \in 1 .. Len(handled) : handled'[j] = handled[j]
        /\ handled'[Len(handled) + 1] = p
    BY <2>1, AppendProperties, LenProperties DEF FramingTypes
  <2>6. written[p] = "frame" /\ \A j \in DOMAIN handled : handled[j] # p
    <3>1. 1 \in 1 .. needed /\ 1 \in 1 .. Len(Stream)
      BY <2>2
    <3>2. Stream[1] = <<p, 1>>
      BY <2>2, <3>1
    <3>. QED  BY <3>1, <3>2 DEF WordsOnce, WordsKnown
  <2>7. ASSUME NEW i \in 1 .. Len(Stream'), Stream'[i][2] > 0
        PROVE  Stream'[i][1] # p
    <3>1. SUFFICES ASSUME Stream'[i][1] = p PROVE FALSE
      OBVIOUS
    <3>2. PICK k \in Int : k = Stream[i + needed][2]
      BY <2>4 DEF WordsOnce, WordsKnown
    <3>3. k \in 1 .. needed /\ Stream[i + needed] = <<p, k>>
      BY <2>2, <2>4, <2>7, <3>1, <3>2 DEF WordsOnce, WordsKnown
    <3>4. Stream[k] = Stream[i + needed] /\ k \in 1 .. Len(Stream)
      BY <2>2, <3>3
    <3>5. k = i + needed
      BY <2>4, <3>4 DEF WordsOnce, WordsDistinct
    <3>. QED  BY <2>2, <3>3, <3>5
  <2>8. WordsKnown'
    <3>1. ASSUME NEW i \in 1 .. Len(Stream')
          PROVE  /\ Stream'[i] = <<Stream'[i][1], Stream'[i][2]>> /\ Stream'[i][1] \in Sending
                 /\ Stream'[i][2] \in 0 .. sizeOf[Stream'[i][1]]
                 /\ written'[Stream'[i][1]] # "nothing" /\ sizeOf[Stream'[i][1]] <= MaxFrame
                 /\ Stream'[i][2] > 0 => /\ written'[Stream'[i][1]] = "frame"
                                         /\ \A j \in DOMAIN handled : handled[j] # Stream'[i][1]
      BY <2>3, <2>4 DEF WordsOnce, WordsKnown
    <3>2. ASSUME NEW i \in 1 .. Len(Stream'), Stream'[i][2] > 0, NEW j \in DOMAIN handled'
          PROVE  handled'[j] # Stream'[i][1]
      <4>1. j \in DOMAIN handled \/ j = Len(handled) + 1
        BY <2>5
      <4>. QED  BY <2>5, <2>7, <3>1, <3>2, <4>1
    <3>. QED  BY <3>1, <3>2 DEF WordsKnown
  <2>9. WordsDistinct'
    <3>1. ASSUME NEW i \in 1 .. Len(Stream'), NEW j \in 1 .. Len(Stream'), Stream'[i] = Stream'[j]
          PROVE  i = j
      <4>1. i + needed = j + needed
        BY <2>4, <3>1 DEF WordsOnce, WordsDistinct
      <4>. QED  BY <2>2, <4>1
    <3>. QED  BY <3>1 DEF WordsDistinct
  <2>10. HandledOnce'
    <3>1. \A j \in DOMAIN handled' : j \in DOMAIN handled \/ j = Len(handled) + 1
      BY <2>5
    <3>. QED  BY <2>3, <2>5, <2>6, <3>1 DEF WordsOnce, HandledOnce
  <2>. QED  BY <2>3, <2>8, <2>9, <2>10 DEF WordsOnce, SizesFit
<1>. QED  BY <1>2, <1>3, <1>4, <1>5, <1>6, <1>7, <1>8 DEF FramingNext, framingVars, Cut, ReadRefused, readerVars

(* A step keeps the frames whole, unless a write begins inside of another:  *)
(* then Read has no reason to fail.                                         *)
LEMMA FramesWholeStep ==
    ASSUME FramingTypes, WordsOnce, FramesWhole, ~overlapped', [FramingNext]_framingVars
    PROVE  FramesWhole'
<1>. USE FramingAssumption
<1>. DEFINE L == Len(Stream)
<1>1. L \in Nat
  BY StreamWords
<1>2. \A i \in 1 .. L : Stream[i][1] \in Sending /\ sizeOf[Stream[i][1]] \in Nat /\ sizeOf[Stream[i][1]] > 0
  BY DEF WordsOnce, WordsKnown
<1>. HIDE DEF L
<1>3. ASSUME Stream' = Stream, needed' = needed, written' = written, link' = link
      PROVE  FramesWhole'
  BY <1>3 DEF FramesWhole, OneWriter, FirstWhole, RestWhole, PayloadFollows
<1>4. CASE UNCHANGED framingVars
  BY <1>3, <1>4 DEF framingVars, readerVars, Stream
<1>5. ASSUME NEW p \in Sending, WriteHeader(p)
      PROVE  FramesWhole'
  <2>1. /\ Len(Stream') = L + 1
        /\ \A i \in 1 .. L : Stream'[i] = Stream[i]
        /\ Stream'[L + 1] = Header(p)
    BY <1>5, WriteHeaderStream DEF L, Header
  <2>2. /\ \A q \in Sending : written[q] # "header"
        /\ written' = [written EXCEPT ![p] = "header"]
        /\ link = "up" /\ link' = link /\ needed' = needed /\ IsHeader(Header(p))
    BY <1>5 DEF WriteHeader, readerVars, FramingTypes, IsHeader, Header
  <2>3. IF L = 0 THEN needed = 0 ELSE ~IsHeader(Stream[L])
    BY <2>2 DEF FramesWhole, OneWriter, L
  <2>4. OneWriter'
    <3>1. Len(Stream') # 0
      BY <1>1, <2>1
    <3>. QED  BY <1>1, <2>1, <2>2, <3>1 DEF OneWriter, FramingTypes
  <2>5. ASSUME NEW q \in Sending, NEW i \in 0 .. L, i < L, PayloadFollows(Stream, q, i)
        PROVE  PayloadFollows(Stream', q, i)
    <3>. DEFINE e == i + sizeOf[q]
    <3>1. /\ e <= L /\ e \in Nat /\ e > i
          /\ \A k \in 1 .. sizeOf[q] : Stream[i + k] = <<q, k>>
          /\ e < L => IsHeader(Stream[e + 1])
      BY <1>1, <2>5 DEF PayloadFollows, L
    <3>2. \A k \in 1 .. sizeOf[q] : i + k \in 1 .. L
      BY <1>1, <3>1
    <3>3. IsHeader(Stream'[e + 1])
      BY <1>1, <2>1, <2>2, <3>1
    <3>4. \A k \in 1 .. sizeOf[q] : Stream'[i + k] = <<q, k>>
      BY <2>1, <3>1, <3>2
    <3>. QED  BY <1>1, <2>1, <3>1, <3>3, <3>4 DEF PayloadFollows
  <2>6. FirstWhole'
    <3>1. CASE L = 0
      BY <2>1, <2>2, <2>3, <3>1 DEF FirstWhole
    <3>2. CASE L > 0 /\ needed = 0
      BY <1>1, <2>1, <2>2, <3>2 DEF FramesWhole, FirstWhole, L
    <3>3. CASE L > 0 /\ needed # 0
      BY <1>1, <2>2, <2>5, <3>3 DEF FramesWhole, FirstWhole, L
    <3>. QED  BY <1>1, <3>1, <3>2, <3>3
  <2>7. RestWhole'
    <3>1. ASSUME NEW i \in 1 .. Len(Stream') - 1, IsHeader(Stream'[i])
          PROVE  PayloadFollows(Stream', Stream[i][1], i) /\ Stream'[i] = Stream[i]
      <4>1. i \in 1 .. L /\ i # L /\ Stream'[i] = Stream[i]
        BY <1>1, <2>1, <2>3, <3>1
      <4>2. PayloadFollows(Stream, Stream[i][1], i)
        BY <1>1, <3>1, <4>1 DEF FramesWhole, RestWhole, L
      <4>3. PICK q \in Sending : q = Stream[i][1]
        BY <1>2, <4>1 DEF L
      <4>4. PayloadFollows(Stream', q, i)
        BY <1>1, <2>5, <4>1, <4>2, <4>3
      <4>. QED  BY <4>1, <4>3, <4>4
    <3>. QED  BY <3>1 DEF RestWhole
  <2>. QED  BY <2>2, <2>4, <2>6, <2>7 DEF FramesWhole
<1>6. ASSUME NEW p \in Sending, WritePayload(p)
      PROVE  FramesWhole'
  <2>1. /\ Len(Stream') = L + sizeOf[p] /\ sizeOf[p] \in Nat /\ sizeOf[p] > 0
        /\ \A i \in 1 .. L : Stream'[i] = Stream[i]
        /\ \A k \in 1 .. sizeOf[p] : Stream'[L + k] = <<p, k>>
    BY <1>6, WritePayloadStream DEF L
  <2>2. /\ written[p] = "header" /\ written' = [written EXCEPT ![p] = "frame"]
        /\ link = "up" /\ link' = link /\ needed' = needed
    BY <1>6 DEF WritePayload, readerVars
  <2>3. IF L = 0 THEN needed = sizeOf[p] ELSE Stream[L] = Header(p)
    BY <2>2 DEF FramesWhole, OneWriter, L
  <2>4. \A q \in Sending : written'[q] # "header"
    BY <2>2 DEF FramesWhole, OneWriter, FramingTypes
  <2>5. Len(Stream') # 0 /\ ~IsHeader(Stream'[Len(Stream')])
    <3>1. Stream'[L + sizeOf[p]] = <<p, sizeOf[p]>>
      BY <2>1
    <3>. QED  BY <1>1, <2>1, <3>1 DEF IsHeader
  <2>6. OneWriter'
    BY <2>4, <2>5 DEF OneWriter
  <2>7. PayloadFollows(Stream', p, L)
    BY <1>1, <2>1 DEF PayloadFollows
  <2>8. ASSUME NEW q \in Sending, NEW i \in 0 .. L, i < L, PayloadFollows(Stream, q, i)
        PROVE  PayloadFollows(Stream', q, i)
    <3>. DEFINE e == i + sizeOf[q]
    <3>1. /\ e <= L /\ e \in Nat /\ e > i
          /\ \A k \in 1 .. sizeOf[q] : Stream[i + k] = <<q, k>>
          /\ e < L => IsHeader(Stream[e + 1])
      BY <1>1, <2>8 DEF PayloadFollows, L
    <3>2. e # L
      <4>1. Stream[e] = <<q, sizeOf[q]>> /\ sizeOf[q] # 0
        BY <3>1
      <4>2. Stream[L] = <<p, 0>>
        BY <1>1, <2>3, <2>8 DEF Header
      <4>. QED  BY <4>1, <4>2
    <3>3. \A k \in 1 .. sizeOf[q] : i + k \in 1 .. L
      BY <1>1, <3>1
    <3>4. IsHeader(Stream'[e + 1])
      <4>1. e < L /\ e + 1 \in 1 .. L
        BY <1>1, <3>1, <3>2
      <4>. QED  BY <2>1, <3>1, <4>1
    <3>5. \A k \in 1 .. sizeOf[q] : Stream'[i + k] = <<q, k>>
      BY <2>1, <3>1, <3>3
    <3>. QED  BY <1>1, <2>1, <3>1, <3>4, <3>5 DEF PayloadFollows
  <2>9. FirstWhole'
    <3>1. CASE L = 0
      BY <2>1, <2>2, <2>3, <2>7, <3>1 DEF FirstWhole
    <3>2. CASE L > 0 /\ needed = 0
      BY <1>1, <2>1, <2>2, <3>2 DEF FramesWhole, FirstWhole, L
    <3>3. CASE L > 0 /\ needed # 0
      BY <1>1, <2>2, <2>8, <3>3 DEF FramesWhole, FirstWhole, L
    <3>. QED  BY <1>1, <3>1, <3>2, <3>3
  <2>10. RestWhole'
    <3>1. ASSUME NEW i \in 1 .. Len(Stream') - 1, IsHeader(Stream'[i])
          PROVE  PayloadFollows(Stream', Stream'[i][1], i)
      <4>1. CASE i < L
        <5>1. i \in 1 .. L /\ Stream'[i] = Stream[i]
          BY <1>1, <2>1, <4>1
        <5>2. PayloadFollows(Stream, Stream[i][1], i)
          BY <1>1, <3>1, <4>1, <5>1 DEF FramesWhole, RestWhole, L
        <5>3. PICK q \in Sending : q = Stream[i][1]
          BY <1>2, <5>1 DEF L
        <5>4. PayloadFollows(Stream', q, i)
          BY <1>1, <2>8, <4>1, <5>1, <5>2, <5>3
        <5>. QED  BY <5>1, <5>3, <5>4
      <4>2. CASE i = L
        <5>1. Stream'[i] = <<p, 0>>
          BY <1>1, <2>1, <2>3, <4>2 DEF Header
        <5>2. PayloadFollows(Stream', p, i)
          BY <2>7, <4>2
        <5>. QED  BY <5>1, <5>2
      <4>3. CASE i > L
        <5>1. PICK k \in Int : k = i - L
          <6>1. i - L \in Int
            BY <1>1
          <6>. QED  BY <6>1, Zenon
        <5>2. k \in 1 .. sizeOf[p] /\ i = L + k
          BY <1>1, <2>1, <4>3, <5>1
        <5>3. Stream'[i] = <<p, k>> /\ k # 0
          BY <2>1, <5>2
        <5>. QED  BY <3>1, <5>3 DEF IsHeader
      <4>. QED  BY <1>1, <4>1, <4>2, <4>3
    <3>. QED  BY <3>1 DEF RestWhole
  <2>. QED  BY <2>2, <2>6, <2>9, <2>10 DEF FramesWhole
<1>7. ASSUME NEW p \in Sending, WriteRefused(p)
      PROVE  FramesWhole'
  <2>1. /\ Stream' = Stream /\ needed' = needed /\ link' = link
        /\ written' = [written EXCEPT ![p] = "error"]
        /\ written[p] = "nothing" \/ link # "up"
    BY <1>7 DEF WriteRefused, readerVars, Stream
  <2>2. OneWriter'
    BY <2>1 DEF FramesWhole, OneWriter, FramingTypes
  <2>3. FirstWhole' /\ RestWhole'
    BY <2>1 DEF FramesWhole, FirstWhole, RestWhole, PayloadFollows
  <2>. QED  BY <2>1, <2>2, <2>3 DEF FramesWhole
<1>8. CASE Arrives
  BY <1>3, <1>8, ArrivesStream DEF Arrives
<1>9. CASE Cut
  <2>1. Stream' = Stream /\ needed' = needed /\ link' = "cut" /\ written' = written
    BY <1>9 DEF Cut, readerVars, Stream
  <2>. QED  BY <2>1 DEF FramesWhole, OneWriter, FirstWhole, RestWhole, PayloadFollows
<1>10. CASE ReadHeader
  <2>1. /\ L > 0 /\ Head(arrived) = Stream[1] /\ Len(Stream') = L - 1
        /\ \A i \in 1 .. L - 1 : Stream'[i] = Stream[i + 1]
    BY <1>10, ReadHeaderStream DEF L
  <2>2. /\ needed' = sizeOf[Stream[1][1]] /\ IsHeader(Stream[1])
        /\ written' = written /\ link' = link
    BY <1>10, <2>1 DEF ReadHeader
  <2>3. PICK q \in Sending : q = Stream[1][1] /\ sizeOf[q] \in Nat /\ sizeOf[q] > 0
    BY <1>1, <1>2, <2>1 DEF L
  <2>4. L > 1 => Stream'[Len(Stream')] = Stream[L]
    <3>1. ASSUME L > 1
          PROVE  L - 1 \in 1 .. L - 1 /\ L - 1 + 1 = L
      BY <1>1, <3>1
    <3>. QED  BY <2>1, <3>1
  <2>5. \A w \in Sending : written[w] = "header" => Stream[L] = Header(w)
    BY <1>1, <2>1 DEF FramesWhole, OneWriter, L
  <2>6. link = "up" /\ (\A w \in Sending : written[w] # "header") => ~IsHeader(Stream[L])
    BY <1>1, <2>1 DEF FramesWhole, OneWriter, L
  <2>7. OneWriter'
    <3>1. CASE L = 1
      <4>1. Len(Stream') = 0
        BY <2>1, <3>1
      <4>2. \A w \in Sending : written[w] = "header" => q = w
        BY <2>3, <2>5, <3>1 DEF Header
      <4>3. ~(link = "up" /\ \A w \in Sending : written[w] # "header")
        BY <2>2, <2>6, <3>1
      <4>. QED  BY <2>2, <2>3, <4>1, <4>2, <4>3 DEF FramesWhole, OneWriter
    <3>2. CASE L > 1
      <4>1. Len(Stream') # 0
        BY <1>1, <2>1, <3>2
      <4>. QED  BY <2>2, <2>4, <2>5, <2>6, <3>2, <4>1 DEF FramesWhole, OneWriter
    <3>. QED  BY <1>1, <2>1, <3>1, <3>2
  <2>8. ASSUME NEW x \in Sending, NEW i \in 1 .. L - 1, PayloadFollows(Stream, x, i)
        PROVE  \A j \in Int : j = i - 1 => PayloadFollows(Stream', x, j)
    <3>. SUFFICES ASSUME NEW j \in Int, j = i - 1 PROVE PayloadFollows(Stream', x, j)
      OBVIOUS
    <3>. DEFINE e == i + sizeOf[x]
    <3>1. /\ e <= L /\ e \in Nat /\ e > i /\ j + sizeOf[x] = e - 1
          /\ \A k \in 1 .. sizeOf[x] : Stream[i + k] = <<x, k>>
          /\ e < L => IsHeader(Stream[e + 1])
      BY <1>1, <2>8 DEF PayloadFollows, L
    <3>2. ASSUME NEW k \in 1 .. sizeOf[x]
          PROVE  Stream'[j + k] = <<x, k>>
      <4>1. j + k \in 1 .. L - 1 /\ j + k + 1 = i + k
        BY <1>1, <3>1
      <4>. QED  BY <2>1, <3>1, <4>1
    <3>3. e < L => Stream'[e] = Stream[e + 1]
      BY <1>1, <2>1, <3>1
    <3>4. j + sizeOf[x] + 1 = e
      BY <1>1, <3>1
    <3>. HIDE DEF e
    <3>5. j + sizeOf[x] <= Len(Stream') /\ (j + sizeOf[x] < Len(Stream') <=> e < L)
      BY <1>1, <2>1, <3>1
    <3>. QED  BY <3>1, <3>2, <3>3, <3>4, <3>5 DEF PayloadFollows
  <2>9. FirstWhole'
    <3>1. CASE L = 1
      BY <2>1, <3>1 DEF FirstWhole
    <3>2. CASE L > 1
      <4>1. 1 \in 1 .. L - 1
        BY <1>1, <3>2
      <4>2. PayloadFollows(Stream, q, 1)
        BY <2>2, <2>3, <4>1 DEF FramesWhole, RestWhole, L
      <4>3. PayloadFollows(Stream', q, 0)
        BY <2>8, <4>1, <4>2
      <4>. QED  BY <2>2, <2>3, <4>3 DEF FirstWhole
    <3>. QED  BY <1>1, <2>1, <3>1, <3>2
  <2>10. RestWhole'
    <3>1. ASSUME NEW i \in 1 .. Len(Stream') - 1, IsHeader(Stream'[i])
          PROVE  PayloadFollows(Stream', Stream'[i][1], i)
      <4>1. PICK j \in Int : j = i + 1
        OBVIOUS
      <4>2. j \in 1 .. L - 1 /\ i = j - 1 /\ Stream'[i] = Stream[j]
        BY <1>1, <2>1, <4>1
      <4>3. PICK x \in Sending : x = Stream[j][1]
        BY <1>1, <1>2, <4>2 DEF L
      <4>4. PayloadFollows(Stream, x, j)
        BY <3>1, <4>2, <4>3 DEF FramesWhole, RestWhole, L
      <4>5. PayloadFollows(Stream', x, i)
        BY <2>8, <4>2, <4>4
      <4>. QED  BY <4>2, <4>3, <4>5
    <3>. QED  BY <3>1 DEF RestWhole
  <2>. QED  BY <2>2, <2>7, <2>9, <2>10 DEF FramesWhole
<1>11. CASE ReadPayload
  <2>1. PICK p \in Sending : Taken = Payload(p)
    BY <1>11 DEF ReadPayload
  <2>2. PICK n \in Nat : n = needed
    BY DEF FramingTypes
  <2>3. /\ n = sizeOf[p] /\ n <= L /\ n > 0
        /\ \A k \in 1 .. n : Stream[k] = <<p, k>>
        /\ Len(Stream') = L - n
        /\ \A i \in 1 .. L - n : Stream'[i] = Stream[i + n]
    BY <1>11, <2>1, <2>2, ReadPayloadStream DEF L, ReadPayload
  <2>4. needed' = 0 /\ written' = written /\ link' = link
    BY <1>11 DEF ReadPayload
  <2>5. L > 0 /\ L \in 1 .. L
    BY <1>1, <2>3
  <2>6. \A w \in Sending : written[w] = "header" => Stream[L] = Header(w)
    BY <2>5 DEF FramesWhole, OneWriter, L
  <2>7. link = "up" /\ (\A w \in Sending : written[w] # "header") => ~IsHeader(Stream[L])
    BY <2>5 DEF FramesWhole, OneWriter, L
  <2>8. OneWriter'
    <3>1. CASE L = n
      <4>1. Stream[L] = <<p, L>>
        BY <2>3, <2>5, <3>1
      <4>2. \A w \in Sending : written[w] # "header"
        BY <2>5, <2>6, <4>1 DEF Header
      <4>3. Len(Stream') = 0
        BY <2>3, <3>1
      <4>. QED  BY <2>4, <4>2, <4>3 DEF OneWriter
    <3>2. CASE L > n
      <4>0. PICK m \in Int : m = L - n
        <5>1. L - n \in Int
          BY <1>1
        <5>. QED  BY <5>1, Zenon
      <4>a. m \in 1 .. m /\ m + n = L /\ m # 0
        BY <1>1, <3>2, <4>0
      <4>1. L - n \in 1 .. L - n /\ L - n + n = L /\ Len(Stream') # 0
        BY <2>3, <4>0, <4>a
      <4>2. Stream'[Len(Stream')] = Stream[L]
        <5>1. Stream'[L - n] = Stream[L - n + n]
          BY <2>3, <4>1
        <5>. QED  BY <2>3, <4>1, <5>1
      <4>. QED  BY <2>4, <2>6, <2>7, <4>1, <4>2 DEF FramesWhole, OneWriter
    <3>. QED  BY <1>1, <2>3, <3>1, <3>2
  <2>9. ASSUME NEW x \in Sending, NEW i \in n + 1 .. L, PayloadFollows(Stream, x, i)
        PROVE  \A j \in Int : j = i - n => PayloadFollows(Stream', x, j)
    <3>. SUFFICES ASSUME NEW j \in Int, j = i - n PROVE PayloadFollows(Stream', x, j)
      OBVIOUS
    <3>0. sizeOf[x] \in Nat /\ i \in Nat /\ i > n
      BY <1>1
    <3>e. PICK e \in Nat : e = i + sizeOf[x]
      <4>1. i + sizeOf[x] \in Nat
        BY <3>0
      <4>. QED  BY <4>1, Zenon
    <3>f. /\ e <= L
          /\ \A k \in 1 .. sizeOf[x] : Stream[i + k] = <<x, k>>
          /\ e < L => IsHeader(Stream[e + 1])
      BY <2>9, <3>e DEF PayloadFollows, L
    <3>1. /\ e <= L /\ e \in Nat /\ e >= i /\ e - n \in Nat /\ j + sizeOf[x] = e - n
          /\ \A k \in 1 .. sizeOf[x] : Stream[i + k] = <<x, k>>
          /\ e < L => IsHeader(Stream[e + 1])
      BY <3>0, <3>e, <3>f
    <3>2. ASSUME NEW k \in 1 .. sizeOf[x]
          PROVE  Stream'[j + k] = <<x, k>>
      <4>1. j + k \in 1 .. L - n /\ j + k + n = i + k
        <5>1. k \in Nat /\ 1 <= k /\ k <= sizeOf[x] /\ n \in Nat /\ n <= L
          BY <2>3, <3>0
        <5>2. i + k \in Nat /\ i + k <= e
          BY <3>0, <3>e, <5>1
        <5>. QED  BY <1>1, <3>0, <3>f, <5>1, <5>2
      <4>. QED  BY <2>3, <3>1, <4>1
    <3>3. e < L => Stream'[e - n + 1] = Stream[e + 1]
      <4>1. ASSUME e < L PROVE e - n + 1 \in 1 .. L - n /\ e - n + 1 + n = e + 1
        <5>1. n \in Nat /\ e >= n /\ e < L
          BY <2>3, <3>0, <3>1, <4>1
        <5>. QED  BY <1>1, <5>1
      <4>. QED  BY <2>3, <4>1
    <3>4. j + sizeOf[x] + 1 = e - n + 1
      BY <3>1
    <3>5. j + sizeOf[x] <= Len(Stream') /\ (j + sizeOf[x] < Len(Stream') <=> e < L)
      <4>1. Len(Stream') = L - n /\ n \in Nat /\ j + sizeOf[x] = e - n /\ e <= L
        BY <2>3, <3>1
      <4>2. e - n <= L - n /\ (e - n < L - n <=> e < L)
        BY <1>1, <3>1, <4>1
      <4>. QED  BY <4>1, <4>2
    <3>. QED  BY <3>1, <3>2, <3>3, <3>4, <3>5 DEF PayloadFollows
  <2>10. FirstWhole'
    <3>1. CASE L = n
      BY <2>3, <3>1 DEF FirstWhole
    <3>2. CASE L > n
      <4>1. PICK q \in Sending : n = sizeOf[q] /\ PayloadFollows(Stream, q, 0)
        BY <1>1, <2>2, <2>3, <2>5 DEF FramesWhole, FirstWhole, L
      <4>2. IsHeader(Stream[n + 1])
        <5>1. 0 + n = n /\ n < Len(Stream)
          BY <3>2 DEF L
        <5>. QED  BY <4>1, <5>1 DEF PayloadFollows
      <4>3. 1 \in 1 .. L - n /\ 1 + n = n + 1
        BY <1>1, <2>3, <3>2
      <4>4. IsHeader(Stream'[1])
        BY <2>3, <4>2, <4>3
      <4>. QED  BY <2>4, <4>4 DEF FirstWhole
    <3>. QED  BY <1>1, <2>3, <3>1, <3>2
  <2>11. RestWhole'
    <3>1. ASSUME NEW i \in 1 .. Len(Stream') - 1, IsHeader(Stream'[i])
          PROVE  PayloadFollows(Stream', Stream'[i][1], i)
      <4>0. i \in Int
        OBVIOUS
      <4>1. PICK j \in Int : j = i + n
        <5>1. i + n \in Int
          BY <4>0
        <5>. QED  BY <5>1, Zenon
      <4>2. /\ i \in 1 .. L - n /\ j \in n + 1 .. L /\ j \in 1 .. L - 1
            /\ i = j - n /\ Stream'[i] = Stream[j]
        BY <1>1, <2>3, <3>1, <4>0, <4>1
      <4>3. PICK x \in Sending : x = Stream[j][1]
        BY <1>1, <1>2, <4>2 DEF L
      <4>4. PayloadFollows(Stream, x, j)
        BY <3>1, <4>2, <4>3 DEF FramesWhole, RestWhole, L
      <4>5. PayloadFollows(Stream', x, i)
        BY <2>9, <4>0, <4>2, <4>4
      <4>. QED  BY <4>2, <4>3, <4>5
    <3>. QED  BY <3>1 DEF RestWhole
  <2>. QED  BY <2>4, <2>8, <2>10, <2>11 DEF FramesWhole
<1>12. CASE ReadRefused
  <2>1. CASE needed = 0 /\ arrived # <<>> /\ ~IsHeader(Head(arrived))
    <3>1. Len(arrived) > 0 /\ Head(arrived) = arrived[1]
      BY <2>1, LenProperties, EmptySeq, HeadTailProperties DEF FramingTypes
    <3>2. 1 \in 1 .. Len(Stream) /\ Stream[1] = arrived[1] /\ Len(Stream) > 0
      <4>1. 1 \in 1 .. Len(Stream) /\ 1 <= Len(arrived) /\ Len(Stream) > 0
        BY <3>1, StreamWords
      <4>. QED  BY <4>1, StreamAt
    <3>. QED  BY <2>1, <3>1, <3>2 DEF FramesWhole, FirstWhole
  <2>2. CASE needed > 0 /\ AllArrived /\ \A p \in Sending : Taken # Payload(p)
    <3>1. needed \in Nat /\ needed <= Len(arrived) /\ needed <= L /\ L > 0
      <4>1. needed \in Nat /\ needed <= Len(arrived)
        BY <2>2 DEF AllArrived, FramingTypes
      <4>. QED  BY <1>1, <2>2, <4>1, StreamWords DEF L
    <3>2. PICK q \in Sending : needed = sizeOf[q] /\ PayloadFollows(Stream, q, 0)
      BY <2>2, <3>1 DEF FramesWhole, FirstWhole, L
    <3>3. ASSUME NEW k \in 1 .. needed
          PROVE  arrived[k] = <<q, k>>
      <4>1. k \in 1 .. Len(Stream) /\ k <= Len(arrived) /\ 0 + k = k
        BY <1>1, <3>1 DEF L
      <4>2. Stream[k] = arrived[k]
        BY <4>1, StreamAt
      <4>3. Stream[k] = <<q, k>>
        BY <3>2, <4>1 DEF PayloadFollows
      <4>. QED  BY <4>2, <4>3
    <3>4. Taken = SubSeq(arrived, 1, needed)
      BY <3>1, StreamWords DEF Taken
    <3>5. /\ Taken \in Seq(Sending \X Nat) /\ Len(Taken) = needed
          /\ \A k \in 1 .. needed : Taken[k] = arrived[k]
      <4>1. \A k \in 1 .. needed : arrived[k] \in Sending \X Nat
        <5>1. ASSUME NEW k \in 1 .. needed
              PROVE  <<q, k>> \in Sending \X Nat
          BY <3>1
        <5>. QED  BY <3>3, <5>1
      <4>2. 1 <= needed + 1 /\ needed <= Len(arrived)
        BY <3>1
      <4>3. /\ Taken \in Seq(Sending \X Nat)
            /\ Len(Taken) = (IF 1 <= needed THEN needed - 1 + 1 ELSE 0)
            /\ \A k \in 1 .. needed - 1 + 1 : Taken[k] = arrived[1 + k - 1]
        BY <3>1, <3>4, <4>1, StreamWords, SubSeqProperties DEF FramingTypes
      <4>4. needed - 1 + 1 = needed /\ \A k \in 1 .. needed : 1 + k - 1 = k
        BY <3>1
      <4>. QED  BY <2>2, <3>1, <4>3, <4>4
    <3>6. /\ Payload(q) \in Seq(Sending \X Nat) /\ Len(Payload(q)) = needed
          /\ \A k \in 1 .. needed : Payload(q)[k] = <<q, k>>
      BY <3>1, <3>2, PayloadWords
    <3>7. Taken = Payload(q)
      BY <3>3, <3>5, <3>6, SeqEqual
    <3>. QED  BY <2>2, <3>7
  <2>. QED  BY <1>12, <2>1, <2>2 DEF ReadRefused
<1>. QED
  BY <1>4, <1>5, <1>6, <1>7, <1>8, <1>9, <1>10, <1>11, <1>12 DEF FramingNext

-----------------------------------------------------------------------------
(* The stream holds whole frames until two writes overlap (frame.go).       *)
THEOREM FramingInvariant == FramingSpec => []FramingInv
<1>. USE FramingAssumption
<1>1. FramingInit => FramingInv
  <2>1. SUFFICES ASSUME FramingInit PROVE FramingInv
    OBVIOUS
  <2>2. FramingTypes /\ Len(Stream) = 0 /\ handled = <<>>
    <3>1. FramingTypes
      <4>1. <<>> \in Seq(Sending \X Nat) /\ <<>> \in Seq(Sending)
        OBVIOUS
      <4>2. written \in [Sending -> {"nothing", "header", "frame", "error"}]
        BY <2>1 DEF FramingInit
      <4>3. needed \in 0 .. MaxFrame
        BY <2>1 DEF FramingInit
      <4>4. link \in {"up", "cut", "closed"} /\ overlapped \in BOOLEAN
        BY <2>1 DEF FramingInit
      <4>5. /\ wire \in Seq(Sending \X Nat) /\ arrived \in Seq(Sending \X Nat)
            /\ handled \in Seq(Sending)
        BY <2>1, <4>1 DEF FramingInit
      <4>. QED  BY <4>2, <4>3, <4>4, <4>5 DEF FramingTypes
    <3>2. Len(arrived) = 0 /\ Len(wire) = 0
      BY <2>1 DEF FramingInit
    <3>. QED  BY <2>1, <3>1, <3>2, StreamWords DEF FramingInit
  <2>3. WordsOnce
    BY <2>1, <2>2 DEF FramingInit, WordsOnce, WordsKnown, WordsDistinct,
         SizesFit, HandledOnce
  <2>4. FramesWhole
    BY <2>1, <2>2 DEF FramingInit, FramesWhole, OneWriter, FirstWhole, RestWhole
  <2>. QED  BY <2>2, <2>3, <2>4 DEF FramingInv
<1>2. FramingInv /\ [FramingNext]_framingVars => FramingInv'
  <2>. SUFFICES ASSUME FramingInv, [FramingNext]_framingVars PROVE FramingInv'
    OBVIOUS
  <2>1. FramingTypes' /\ WordsOnce'
    BY FramingTypesStep, WordsOnceStep DEF FramingInv
  <2>2. ~overlapped' => ~overlapped
    BY DEF FramingNext, framingVars, readerVars, WriteHeader, WritePayload, WriteRefused,
           Arrives, Cut, ReadHeader, ReadPayload, ReadRefused, FramingInv, FramingTypes
  <2>3. ~overlapped' => FramesWhole'
    BY <2>2, FramesWholeStep DEF FramingInv
  <2>. QED  BY <2>1, <2>3 DEF FramingInv
<1>. QED  BY <1>1, <1>2, PTL DEF FramingSpec

(* The two ends keep their types. *)
THEOREM FramingTypeCorrect == FramingSpec => []FramingTypeOK
<1>1. FramingInv => FramingTypeOK
  <2>. SUFFICES ASSUME FramingInv PROVE FramingTypeOK
    OBVIOUS
  <2>1. ASSUME NEW i \in 1 .. Len(Stream)
        PROVE  Stream[i][1] \in Sending /\ Stream[i][2] \in 0 .. MaxFrame
    BY FramingAssumption DEF FramingInv, WordsOnce, WordsKnown
  <2>2. ASSUME NEW i \in DOMAIN wire
        PROVE  wire[i][1] \in Sending /\ wire[i][2] \in 0 .. MaxFrame
    <3>0. i \in 1 .. Len(wire) /\ Len(arrived) \in Nat /\ Len(Stream) = Len(arrived) + Len(wire)
      BY StreamWords, LenProperties DEF FramingInv, FramingTypes
    <3>1. PICK j \in Int : j = Len(arrived) + i
      <4>1. Len(arrived) + i \in Int
        BY <3>0
      <4>. QED  BY <4>1, Zenon
    <3>2. j \in 1 .. Len(Stream) /\ j > Len(arrived) /\ j - Len(arrived) = i
      BY <3>0, <3>1, StreamWords DEF FramingInv
    <3>3. Stream[j] = wire[i]
      BY <3>0, <3>2, StreamAt DEF FramingInv
    <3>. QED  BY <2>1, <3>2, <3>3
  <2>3. ASSUME NEW i \in DOMAIN arrived
        PROVE  arrived[i][1] \in Sending /\ arrived[i][2] \in 0 .. MaxFrame
    <3>0. i \in 1 .. Len(arrived) /\ Len(arrived) \in Nat
      BY LenProperties DEF FramingInv, FramingTypes
    <3>1. i \in 1 .. Len(Stream) /\ i <= Len(arrived)
      BY <3>0, StreamWords DEF FramingInv
    <3>2. Stream[i] = arrived[i]
      BY <3>1, StreamAt DEF FramingInv
    <3>. QED  BY <2>1, <3>1, <3>2
  <2>. QED  BY <2>2, <2>3 DEF FramingTypeOK, FramingInv, FramingTypes
<1>. QED  BY <1>1, FramingInvariant, PTL

(* The server gives up a connection only after two writes overlapped on it, *)
(* and reads a packet at most once (frame.go, writePacket).                 *)
THEOREM ReadsWhatWasWritten == FramingSpec => []ClosedByOverlap
<1>1. FramingInv => ClosedByOverlap
  BY DEF FramingInv, FramesWhole, WordsOnce, HandledOnce, ClosedByOverlap, FramingTypes
<1>. QED  BY <1>1, FramingInvariant, PTL

=============================================================================
