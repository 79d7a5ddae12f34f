------------------------------- MODULE MCHub -------------------------------
(* Small instances of Hub for TLC. *)
EXTENDS Hub, TLC

CONSTANTS u1, u2, c1, c2, c3, m1, m2

TwoUsers    == {u1, u2}
TwoConns    == {c1, c2}
ThreeConns  == {c1, c2, c3}
OneMessage  == {m1}
TwoMessages == {m1, m2}
Everybody   == {<<u1, u2>>, <<u2, u1>>}
None        == {}
Second      == {m2}

\* u1 chats over c1, u2 over c2 and c3 (where they exist)
OwnTokens == [c \in Conn |-> IF c = c1 THEN {u1} ELSE {u2}]

\* u2's two connections are interchangeable.
Symmetry == Permutations({c2, c3})

=============================================================================
