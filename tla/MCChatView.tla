---------------------------- MODULE MCChatView ----------------------------
(***************************************************************************)
(* Small instances of ChatView for TLC.  Everything at once is too large:  *)
(* a behaviour is about the lists, and nothing is said, or about what is   *)
(* said between friends, and nobody is added.                              *)
(***************************************************************************)
EXTENDS ChatView, TLC

CONSTANTS b1, b2

TwoNames  == {1, 2}
TwoBodies == {b1, b2}
Nothing   == 0
Spaces    == -1

VARIABLE about

\* As after the bootstrap of a user who has both as friends.
Befriended ==
    /\ isFriend = Name /\ friends = <<1, 2>>
    /\ hasAsked = {} /\ askedFor = {} /\ incoming = <<>> /\ outgoing = <<>>
    /\ log = [n \in Name |-> <<>>]
    /\ unpushed = {} /\ outbox = <<>> /\ answer = NoAnswer /\ inbox = <<>>
    /\ said = {} /\ tab = "friends" /\ active = 0
    /\ threads = [n \in Name |-> <<>>] /\ historyLoaded = {}
    /\ input = NoBody /\ modal = "closed" /\ typed = NoName
    /\ cmds = {} /\ results = {}

MCInit ==
    \/ Init /\ about = "lists"
    \/ Befriended /\ about = "talk"
MCNext == Next /\ UNCHANGED about
MCSpec == MCInit /\ [][MCNext]_<<vars, about>>

Counted == {k \in cmds : about = "talk" \/ k[1] = "ask"}

\* Frames, commands and pushes under way.
UnderWay ==
    Len(inbox) + Len(outbox) + Cardinality(Counted) + Cardinality(results)
    + Cardinality(unpushed) + Cardinality({answer} \ {NoAnswer})

\* In the behaviours about the lists, this user asks only user 1, and no command
\* for a history gets to run.
Small ==
    /\ UnderWay <= IF about = "lists" THEN 2 ELSE 3
    /\ about = "lists" =>
         /\ said = {} /\ input = NoBody /\ typed # 2
         /\ \A f \in Elements(outbox) : f.kind # "history"
    /\ about = "talk" => modal = "closed" /\ hasAsked = {}

Symmetry == Permutations(Body)

=============================================================================
