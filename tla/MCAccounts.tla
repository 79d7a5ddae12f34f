---------------------------- MODULE MCAccounts ----------------------------
(***************************************************************************)
(* Small instances of Accounts for TLC.  Everything at once is too large:  *)
(* a behaviour is about requests that interleave with each other, or about *)
(* chat connections and one request at a time, on two names at a time.     *)
(***************************************************************************)
EXTENDS Accounts, FiniteSets, TLC

CONSTANTS n1, n2, n3, r1, r2, c1, c2

ThreeNames == {n1, n2, n3}
TwoReqs    == {r1, r2}
TwoConns   == {c1, c2}

VARIABLE about

Busy == {r \in Req : stage[r] # "idle"}

MCInit == Init /\ about \in {"requests", "chat"}

MCNext ==
    /\ \/ \E r \in Req : /\ about = "requests" \/ Busy \subseteq {r}
                         /\ RequestStep(r)
       \/ about = "chat" /\ \E c \in Conn : ChatStep(c)
    /\ UNCHANGED about

MCSpec == MCInit /\ [][MCNext]_<<vars, about>>

\* Two names at a time, and no admin login, in the behaviours about chat.
InUse == {named[i] : i \in Id} \cup {asked[r] : r \in Req}
Small ==
    about = "chat" =>
        /\ Cardinality(InUse \ {NoName}) <= 2
        /\ \A r \in Req : task[r] # "console"

Symmetry == Permutations(Name) \cup Permutations(Req) \cup Permutations(Conn)

=============================================================================
