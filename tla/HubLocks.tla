------------------------------ MODULE HubLocks ------------------------------
(***************************************************************************)
(* The locks of server/hub.go: the registry's mutex and one mutex of every *)
(* connection, which is held while a frame is written to a socket whose    *)
(* buffer may be full.  A handler is a goroutine, one per connection, and  *)
(* named by it.  What the packets are about is in Hub and Friends; here a  *)
(* packet is whom its handler writes to, in which order.                   *)
(***************************************************************************)
EXTENDS Integers, Sequences

CONSTANTS
    Conn,       \* connections, each made once
    NoConn,
    User,
    userOf,     \* of a connection
    Capacity    \* bound: frames that a socket holds

ASSUME LocksAssumption ==
    NoConn \notin Conn /\ userOf \in [Conn -> User] /\ Capacity \in Nat \ {0}

VARIABLES
    clients,    \* the registry
    hubMutex,   \* handler that has locked h.mu
    mutex,      \* handler that has locked each connection's mu
    closed,     \* connections whose closed flag is set
    broken,     \* connections whose socket is closed, or given up by TCP
    stalled,    \* connections whose client is there and has stopped reading
    vanished,   \* connections whose client is gone without a word
    buffer,     \* frames in each socket
    stage,      \* where each handler is
    target,     \* connection it writes to or closes
    todo        \* users it has still to write to

locksVars   == <<clients, hubMutex, mutex, closed, broken, stalled, vanished, buffer,
                 stage, target, todo>>
handlerVars == <<stage, target, todo>>
netVars     == <<broken, stalled, vanished, buffer>>

Waiting == {"register", "unregister"}     \* for h.mu
Stage   == Waiting \cup {"new", "replace", "bootstrap", "idle", "lookup", "write", "writing",
                         "close", "gone"}

LocksInit ==
    /\ clients = [u \in User |-> NoConn] /\ hubMutex = NoConn
    /\ mutex = [c \in Conn |-> NoConn]
    /\ closed = {} /\ broken = {} /\ stalled = {} /\ vanished = {}
    /\ buffer = [c \in Conn |-> 0]
    /\ stage = [h \in Conn |-> "new"] /\ target = [h \in Conn |-> NoConn]
    /\ todo = [h \in Conn |-> <<>>]

-----------------------------------------------------------------------------
Goto(h, s) == stage' = [stage EXCEPT ![h] = s]

\* After a frame: the next user, or the next packet.
Continue(h) ==
    /\ Goto(h, IF todo[h] = <<>> THEN "idle" ELSE "lookup")
    /\ target' = [target EXCEPT ![h] = NoConn]

\* What is in the socket is of no use any more.
Break(c) ==
    /\ broken' = broken \cup {c} /\ stalled' = stalled \ {c} /\ vanished' = vanished \ {c}
    /\ buffer' = [buffer EXCEPT ![c] = 0]

(* authenticate has succeeded. *)
Accept(h) ==
    /\ stage[h] = "new" /\ Goto(h, "register")
    /\ UNCHANGED <<clients, hubMutex, mutex, closed, netVars, target, todo>>

(* register: under h.mu, an older connection is closed, under its mu.       *)
Lock(h) ==
    /\ stage[h] = "register" /\ hubMutex = NoConn
    /\ hubMutex' = h /\ Goto(h, "replace")
    /\ target' = [target EXCEPT ![h] = clients[userOf[h]]]
    /\ UNCHANGED <<clients, mutex, closed, netVars, todo>>

Replace(h) ==
    /\ stage[h] = "replace"
    /\ \/ target[h] = NoConn /\ UNCHANGED <<closed, netVars>>
       \/ /\ target[h] # NoConn /\ mutex[target[h]] = NoConn
          /\ closed' = closed \cup {target[h]}
          /\ Break(target[h])
    /\ clients' = [clients EXCEPT ![userOf[h]] = h]
    /\ hubMutex' = NoConn
    /\ Goto(h, "bootstrap") /\ target' = [target EXCEPT ![h] = NoConn]
    /\ UNCHANGED <<mutex, todo>>

\* A frame to the handler's own connection, which is not looked up for it.
WriteOwn(h) ==
    /\ Goto(h, "write") /\ target' = [target EXCEPT ![h] = h]
    /\ UNCHANGED <<clients, hubMutex, mutex, closed, netVars, todo>>

(* sendBootstrap: the contact list, which may fail to be read.  The rows    *)
(* after it are one frame each to the same connection, like a history.      *)
Bootstrap(h) == stage[h] = "bootstrap" /\ WriteOwn(h)
OwnFrame(h)  == stage[h] = "idle" /\ h \notin closed /\ WriteOwn(h)

(* protocol.Read returns a packet: a message, a request, an acceptance.     *)
(* One that came before its client hung up may still be read, and once read *)
(* it is handled, whatever becomes of the connection.                       *)
Packet(h, users) ==
    /\ stage[h] = "idle" /\ h \notin closed
    /\ todo' = [todo EXCEPT ![h] = users]
    /\ Goto(h, "lookup")
    /\ UNCHANGED <<clients, hubMutex, mutex, closed, netVars, target>>

\* clientForUser; nobody is written to who is not there.
Lookup(h) ==
    LET c == clients[Head(todo[h])] IN
    /\ stage[h] = "lookup" /\ hubMutex = NoConn
    /\ todo' = [todo EXCEPT ![h] = Tail(@)]
    /\ IF c = NoConn
       THEN /\ Goto(h, IF Len(todo[h]) = 1 THEN "idle" ELSE "lookup")
            /\ UNCHANGED target
       ELSE Goto(h, "write") /\ target' = [target EXCEPT ![h] = c]
    /\ UNCHANGED <<clients, hubMutex, mutex, closed, netVars>>

(* writeRaw: the flag is looked at under the mutex.  Mutants: it is not     *)
(* looked at; the mutex stays locked when it is set.                        *)
MayWriteAnyway(c) == mutex[c] = NoConn
MayWrite(c) == mutex[c] = NoConn /\ c \notin closed
LeftLocked(c, h) == [mutex EXCEPT ![c] = h]
Unlocked(c, h) == mutex

BeginWrite(h) ==
    LET c == target[h] IN
    /\ stage[h] = "write" /\ MayWrite(c)
    /\ mutex' = [mutex EXCEPT ![c] = h]
    /\ Goto(h, "writing")
    /\ UNCHANGED <<clients, hubMutex, closed, netVars, target, todo>>

\* ErrClosed; of two users that are written to, the first one's error is only logged.
FindClosed(h) ==
    LET c == target[h] IN
    /\ stage[h] = "write" /\ mutex[c] = NoConn /\ c \in closed
    /\ mutex' = Unlocked(c, h)
    /\ Continue(h)
    /\ UNCHANGED <<clients, hubMutex, closed, netVars, todo>>

EndWrite(h) ==
    LET c == target[h] IN
    /\ stage[h] = "writing" /\ c \notin broken /\ buffer[c] < Capacity
    /\ buffer' = [buffer EXCEPT ![c] = @ + 1]
    /\ mutex' = [mutex EXCEPT ![c] = NoConn]
    /\ Continue(h)
    /\ UNCHANGED <<clients, hubMutex, closed, broken, stalled, vanished, todo>>

WriteFails(h) ==
    LET c == target[h] IN
    /\ stage[h] = "writing" /\ c \in broken
    /\ mutex' = [mutex EXCEPT ![c] = NoConn]
    /\ Continue(h)
    /\ UNCHANGED <<clients, hubMutex, closed, netVars, todo>>

(* The handler leaves: because its socket is closed, or, with an open one,  *)
(* because of a frame that cannot be read or a bootstrap that fails.        *)
EndLoop(h) ==
    /\ Goto(h, "unregister")
    /\ UNCHANGED <<clients, hubMutex, mutex, closed, netVars, target, todo>>

ReadFails(h)    == stage[h] = "idle" /\ h \in broken /\ EndLoop(h)
ReadRefuses(h)  == stage[h] = "idle" /\ h \notin closed /\ EndLoop(h)
BootstrapFails(h) == stage[h] = "bootstrap" /\ EndLoop(h)

(* unregister, in one critical section.  Mutant: h.mu is unlocked where the *)
(* entry is deleted, and so not where it is another connection's.           *)
UnlockIfOwn(h) == IF clients[userOf[h]] = h THEN NoConn ELSE h
UnlockAlways(h) == NoConn
Unregister(h) ==
    /\ stage[h] = "unregister" /\ hubMutex = NoConn
    /\ hubMutex' = UnlockAlways(h)
    /\ clients' = IF clients[userOf[h]] = h
                  THEN [clients EXCEPT ![userOf[h]] = NoConn] ELSE clients
    /\ Goto(h, "close")
    /\ UNCHANGED <<mutex, closed, netVars, target, todo>>

CloseConn(h) ==
    /\ stage[h] = "close" /\ mutex[h] = NoConn
    /\ closed' = closed \cup {h} /\ Break(h)
    /\ Goto(h, "gone")
    /\ UNCHANGED <<clients, hubMutex, mutex, target, todo>>

-----------------------------------------------------------------------------
(* Clients and the network *)

ClientReads(c) ==
    /\ buffer[c] > 0 /\ c \notin stalled \cup vanished
    /\ buffer' = [buffer EXCEPT ![c] = @ - 1]
    /\ UNCHANGED <<clients, hubMutex, mutex, closed, broken, stalled, vanished, handlerVars>>

\* A client that does not read may do so again, one frame at least.
Stalls(c) ==
    /\ stage[c] # "new" /\ c \notin stalled \cup vanished \cup broken
    /\ stalled' = stalled \cup {c}
    /\ UNCHANGED <<clients, hubMutex, mutex, closed, broken, vanished, buffer, handlerVars>>

Resumes(c) ==
    /\ c \in stalled
    /\ stalled' = stalled \ {c}
    /\ buffer' = [buffer EXCEPT ![c] = IF @ = 0 THEN 0 ELSE @ - 1]
    /\ UNCHANGED <<clients, hubMutex, mutex, closed, broken, vanished, handlerVars>>

\* Its machine has no power, or its network is gone: nothing reaches the server any more.
Vanishes(c) ==
    /\ stage[c] # "new" /\ c \notin vanished \cup broken
    /\ vanished' = vanished \cup {c} /\ stalled' = stalled \ {c}
    /\ UNCHANGED <<clients, hubMutex, mutex, closed, broken, buffer, handlerVars>>

Breaks(c) ==
    /\ stage[c] # "new" /\ c \notin broken
    /\ Break(c)
    /\ UNCHANGED <<clients, hubMutex, mutex, closed, handlerVars>>

(* Nothing is acknowledged for long enough, neither frames nor keep-alives. *)
(* A client that is there acknowledges the probes of a full window for ever.*)
TCPGivesUp(c) ==
    /\ c \in vanished
    /\ Break(c)
    /\ UNCHANGED <<clients, hubMutex, mutex, closed, handlerVars>>

-----------------------------------------------------------------------------
(* Whom a packet's handler looks up: the addressee of a message, or its own *)
(* user and then the other of a request or an acceptance.                   *)
Recipients(h) ==
    LET others == User \ {userOf[h]} IN
    {<<u>> : u \in others} \cup {<<userOf[h], u>> : u \in others}

\* What a handler does without being asked, to the end of what it has begun.
Running(h) ==
    \/ Lock(h) \/ Replace(h) \/ Bootstrap(h) \/ Lookup(h)
    \/ BeginWrite(h) \/ FindClosed(h) \/ EndWrite(h) \/ WriteFails(h)
    \/ ReadFails(h) \/ Unregister(h) \/ CloseConn(h)

Network(c) == ClientReads(c) \/ TCPGivesUp(c)

LocksNext ==
    \E c \in Conn :
        \/ Accept(c) \/ Running(c)
        \/ OwnFrame(c) \/ \E users \in Recipients(c) : Packet(c, users)
        \/ ReadRefuses(c) \/ BootstrapFails(c)
        \/ Network(c) \/ Stalls(c) \/ Resumes(c) \/ Vanishes(c) \/ Breaks(c)

(* Goroutines run, and no mutex is kept from one of them for ever, however  *)
(* often others take it; a client that has neither stalled nor vanished     *)
(* reads; TCP gives up on one that has vanished.  One that has stalled may  *)
(* stay so for ever.                                                        *)
LocksFairness == \A c \in Conn : SF_locksVars(Running(c)) /\ WF_locksVars(Network(c))

LocksSpec == LocksInit /\ [][LocksNext]_locksVars /\ LocksFairness

-----------------------------------------------------------------------------
(* Properties *)

(* Types, and a connection's mutex is locked by whoever writes to it.       *)
LocksTypeOK ==
    /\ clients \in [User -> Conn \cup {NoConn}]
    /\ hubMutex \in Conn \cup {NoConn}
    /\ stage \in [Conn -> Stage] /\ buffer \in [Conn -> 0 .. Capacity]
    /\ \A c \in Conn : mutex[c] # NoConn =>
          stage[mutex[c]] = "writing" /\ target[mutex[c]] = c

(* No frame is begun on a connection that register has closed in favour of  *)
(* a newer one, although the writer found it in the registry before, and    *)
(* two writers never mix their frames (writeRaw).                           *)
WritesExclusive ==
    \A h \in Conn : stage[h] = "writing" => target[h] \notin closed /\ mutex[target[h]] = h

(* h waits for a mutex that d has locked: h.mu, or that of a connection. *)
WaitsFor(h, d) ==
    \/ stage[h] \in Waiting \cup {"lookup"} /\ hubMutex = d
    \/ stage[h] \in {"replace", "write"} /\ target[h] # NoConn /\ mutex[target[h]] = d
    \/ stage[h] = "close" /\ mutex[h] = d

(* No goroutines wait in a circle: whoever waits for the registry waits for *)
(* register, which may wait for a write, and who writes waits for nobody:   *)
(* no chain is longer than that, as a circle would be (register closes      *)
(* under both mutexes; writeRaw never takes h.mu).                          *)
NoCircularWait ==
    \A h, d, e, f \in Conn : ~(WaitsFor(h, d) /\ WaitsFor(d, e) /\ WaitsFor(e, f))

(* Waiting comes to an end, although register waits for a write while it    *)
(* has locked the registry: each handler comes to an end of what it does,   *)
(* if no client stops reading for good and yet stays there.  One that does  *)
(* keeps its writer, and with it register and every lookup, for ever: there *)
(* is no write deadline (register, writeRaw, unregister).                   *)
HandlersReturn ==
    (\A c \in Conn : []<>(c \notin stalled))
        => \A h \in Conn : (stage[h] # "new") ~> (stage[h] \in {"idle", "gone"})

=============================================================================
