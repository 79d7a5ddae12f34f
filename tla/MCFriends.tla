----------------------------- MODULE MCFriends -----------------------------
(* Small instances of Friends for TLC. *)
EXTENDS Friends, TLC

CONSTANTS u1, u2, c1, c2, c3

TwoUsers   == {u1, u2}
ThreeConns == {c1, c2, c3}

\* u1 is on c1, u2 on c2 and c3
TwoOfU2 == [c \in Conn |-> IF c = c1 THEN u1 ELSE u2]

\* u2's two connections are interchangeable.
Symmetry == Permutations({c2, c3})

=============================================================================
