----------------------------- MODULE FriendBook -----------------------------
(***************************************************************************)
(* What friend requests and friendships promise, without tables, handlers  *)
(* or connections: one user asks, the other one agrees, both are friends   *)
(* for good; nothing is taken back.                                        *)
(***************************************************************************)
CONSTANT User

VARIABLE bond   \* of each ordered pair: "none", "asked", "friends"

vars == bond

Init == bond = [p \in User \X User |-> "none"]

Ask(u, v) ==
    /\ u # v /\ bond[<<u, v>>] = "none"
    /\ bond' = [bond EXCEPT ![<<u, v>>] = "asked"]

(* v agrees to what u asked. *)
Agree(u, v) ==
    /\ bond[<<u, v>>] = "asked"
    /\ bond' = [bond EXCEPT ![<<u, v>>] = "friends", ![<<v, u>>] = "friends"]

Next == \E u, v \in User : Ask(u, v) \/ Agree(u, v)

Spec == Init /\ [][Next]_vars

=============================================================================
