------------------------------ MODULE Mailbox ------------------------------
(***************************************************************************)
(* What the hub and the messages table promise together, without handlers, *)
(* locks or tables: a message that was accepted is never forgotten; it is  *)
(* handed to its addressee before it is confirmed; and it is handed over   *)
(* if the addressee's session stays up.                                    *)
(***************************************************************************)
CONSTANTS User, Session, Message, NoUser, NoSession

VARIABLES
    status,     \* of each message: "unsent", "stored", "handed", "confirmed"
    addressee,  \* of each message, NoUser before it is stored
    session     \* of each user: the session that reaches them now

vars == <<status, addressee, session>>

Init ==
    /\ status = [m \in Message |-> "unsent"]
    /\ addressee = [m \in Message |-> NoUser]
    /\ session = [u \in User |-> NoSession]

Move(m, from, to) ==
    status[m] = from /\ status' = [status EXCEPT ![m] = to]

(* A message is stored before anything else happens to it. *)
Post(m, u) ==
    /\ Move(m, "unsent", "stored")
    /\ addressee' = [addressee EXCEPT ![m] = u]
    /\ UNCHANGED session

HandOver(m) ==
    /\ Move(m, "stored", "handed")
    /\ UNCHANGED <<addressee, session>>

Confirm(m) ==
    /\ Move(m, "handed", "confirmed")
    /\ UNCHANGED <<addressee, session>>

(* Sessions come, go and replace each other; several at once when the       *)
(* server stops.                                                            *)
Sessions ==
    /\ session' \in [User -> Session \cup {NoSession}]
    /\ UNCHANGED <<status, addressee>>

HandOverOn(m, u, s) ==
    addressee[m] = u /\ session[u] = s /\ HandOver(m)

Next ==
    \/ \E m \in Message :
         (\E u \in User : Post(m, u)) \/ HandOver(m) \/ Confirm(m)
    \/ Sessions

SafeSpec == Init /\ [][Next]_vars

Spec ==
    /\ SafeSpec
    /\ \A m \in Message, u \in User, s \in Session : WF_vars(HandOverOn(m, u, s))

=============================================================================
