----------------------------- MODULE MCDeletion -----------------------------
(***************************************************************************)
(* A small instance of Deletion for TLC.                                   *)
(***************************************************************************)
EXTENDS Deletion, FiniteSets, TLC

CONSTANTS c1, c2, c3

ThreeConns == {c1, c2, c3}
Symmetry   == Permutations(Conn)

\* Of two ids, one is given out twice; at most two handlers are in the middle of
\* something at once; links break only while no id has been given out twice.
Small ==
    /\ life[1] <= 1
    /\ Cardinality({c \in Conn : stage[c] \notin {"off", "read"}}) <= 2
    /\ lost # {} => life[2] <= 1

=============================================================================
