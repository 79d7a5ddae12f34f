------------------------------ MODULE MCParts ------------------------------
(***************************************************************************)
(* Small instances of five components that share no state with each other, *)
(* in one run: a behaviour is about one of them, and the others stay as    *)
(* they began.                                                             *)
(***************************************************************************)
EXTENDS AdminPanel, HubLocks, E2EKeys, Startup, Framing, FiniteSets, TLC

CONSTANTS c1, c2, c3, u1, u2

VARIABLE about

Parts == {"panel", "locks", "keys", "startup", "framing"}

ThreeConns == {c1, c2, c3}
TwoUsers   == {u1, u2}
UserOf     == c1 :> u1 @@ c2 :> u1 @@ c3 :> u2
DeviceOf   == <<1, 1, 2>>
SizeOf     == <<1, 2, 3>>

\* Both users are connected, and c2 is another connection of u1.
Connected ==
    /\ clients = (u1 :> c1 @@ u2 :> c3) /\ hubMutex = NoConn
    /\ mutex = [c \in Conn |-> NoConn]
    /\ closed = {} /\ broken = {} /\ stalled = {} /\ vanished = {}
    /\ buffer = [c \in Conn |-> 0]
    /\ stage = [h \in Conn |-> IF h = c2 THEN "new" ELSE "idle"]
    /\ target = [h \in Conn |-> NoConn] /\ todo = [h \in Conn |-> <<>>]

MCInit ==
    /\ about \in Parts
    /\ PanelInit /\ Connected /\ KeysInit /\ StartupInit /\ FramingInit

MCNext ==
    /\ UNCHANGED about
    /\ IF about = "panel" THEN PanelNext ELSE UNCHANGED panelVars
    /\ IF about = "locks" THEN LocksNext ELSE UNCHANGED locksVars
    /\ IF about = "keys" THEN KeysNext ELSE UNCHANGED keysVars
    /\ IF about = "startup" THEN StartupNext ELSE UNCHANGED startupVars
    /\ IF about = "framing" THEN FramingNext ELSE UNCHANGED framingVars

partsVars == <<about, panelVars, locksVars, keysVars, startupVars, framingVars>>
MCSpec == MCInit /\ [][MCNext]_partsVars /\ LocksFairness

\* Two clients at once suffice to crowd a machine, and a race that has happened leaves
\* nothing to check.  A wipe or a toggle is, to the panel, a command like a deletion: it
\* is given with nothing else under way.  One client at a time vanishes without a word.
Small ==
    /\ \A i \in Slots : command[i].kind \in {"wipe", "toggle"} =>
          \A j \in Slots \ {i} : command[j] = Idle
    /\ \E c \in Client : client[c] = Nowhere
    /\ crowded = {} \/ \A c \in Client : client[c] = Nowhere
    /\ raced # {"log", "cert"}
    /\ Cardinality(vanished) <= 1

=============================================================================
