---------------------------- MODULE AdminProofs ----------------------------
(***************************************************************************)
(* Proofs about administration: the administrator's panel (AdminPanel),    *)
(* for any users, and any number of commands under way, and what deletions *)
(* do to messages under way (Deletion), for any ids, lives and             *)
(* connections.                                                            *)
(*                                                                         *)
(* The list that a refresh brings is a sequence only because a finite set  *)
(* of names can be put in order: the first lemmas prove that, from the     *)
(* number of names that come before each.  For Deletion, the invariant     *)
(* says what a handler may still know when the rows that it holds, and the *)
(* accounts that they are of, are gone.                                    *)
(***************************************************************************)
EXTENDS AdminPanel, Deletion, FiniteSetTheorems, FunctionTheorems, SequenceTheorems, TLAPS

Ordered(s) == \A i, j \in DOMAIN s : i < j => s[i] < s[j]

(* A finite set of numbers has an ordered list: the place of each is the    *)
(* number of those that are not greater.                                    *)
LEMMA OrderedListExists ==
    ASSUME NEW S, S \subseteq Int, IsFiniteSet(S)
    PROVE  \E s \in [1 .. Cardinality(S) -> S] : Ordered(s)
<1>. DEFINE n == Cardinality(S)
            UpTo(x) == {y \in S : y <= x}
            place == [x \in S |-> Cardinality(UpTo(x))]
<1>1. n \in Nat /\ IsFiniteSet(1 .. n) /\ Cardinality(1 .. n) = n
  <2>1. n \in Nat
    BY FS_CardinalityType
  <2>2. IsFiniteSet(1 .. n) /\ Cardinality(1 .. n) = IF 1 > n THEN 0 ELSE n - 1 + 1
    BY <2>1, FS_Interval
  <2>. QED  BY <2>1, <2>2
<1>2. ASSUME NEW x \in S
      PROVE  /\ IsFiniteSet(UpTo(x)) /\ Cardinality(UpTo(x)) \in 1 .. n
  <2>1. UpTo(x) \in SUBSET S /\ UpTo(x) # {}
    OBVIOUS
  <2>2. IsFiniteSet(UpTo(x)) /\ Cardinality(UpTo(x)) <= n
    BY <2>1, FS_Subset
  <2>3. Cardinality(UpTo(x)) \in Nat /\ Cardinality(UpTo(x)) # 0
    BY <2>1, <2>2, FS_CardinalityType, FS_EmptySet
  <2>. QED  BY <1>1, <2>2, <2>3
<1>3. ASSUME NEW x \in S, NEW z \in S, x < z
      PROVE  Cardinality(UpTo(x)) < Cardinality(UpTo(z))
  <2>1. UpTo(x) \in SUBSET UpTo(z) /\ z \in UpTo(z) /\ z \notin UpTo(x)
    <3>1. \A y \in S : y <= x => y <= z
      BY <1>3
    <3>2. z <= z /\ ~(z <= x)
      BY <1>3
    <3>. QED  BY <3>1, <3>2
  <2>2. /\ Cardinality(UpTo(x)) <= Cardinality(UpTo(z))
        /\ Cardinality(UpTo(z)) = Cardinality(UpTo(x)) => UpTo(z) = UpTo(x)
    BY <1>2, <2>1, FS_Subset
  <2>. QED  BY <1>2, <2>1, <2>2
<1>. HIDE DEF UpTo
<1>4. place \in [S -> 1 .. n]
  BY <1>2
<1>5. ASSUME NEW x \in S, NEW z \in S
      PROVE  (x < z => place[x] < place[z]) /\ (place[x] = place[z] => x = z)
  <2>1. (x < z => place[x] < place[z]) /\ (z < x => place[z] < place[x])
    BY <1>3
  <2>2. place[x] \in Int /\ place[z] \in Int /\ x \in Int /\ z \in Int
    BY <1>4
  <2>. QED  BY <2>1, <2>2
<1>. HIDE DEF place, n
<1>6. place \in Injection(S, 1 .. n)
  BY <1>4, <1>5, Fun_IsInj
<1>7. place \in Surjection(S, 1 .. n)
  BY <1>1, <1>6, FS_Injection DEF n
<1>8. ASSUME NEW i \in 1 .. n
      PROVE  \E x \in S : place[x] = i
  <2>1. \A t \in 1 .. n : \E x \in S : place[x] = t
    BY <1>7, Fun_SurjectionProperties
  <2>. QED  BY <2>1
<1>. DEFINE s == [i \in 1 .. n |-> CHOOSE x \in S : place[x] = i]
<1>9. ASSUME NEW i \in 1 .. n
      PROVE  s[i] \in S /\ place[s[i]] = i
  BY <1>8
<1>10. s \in [1 .. n -> S]
  BY <1>9
<1>11. ASSUME NEW i \in DOMAIN s, NEW j \in DOMAIN s, i < j
       PROVE  s[i] < s[j]
  <2>1. s[i] \in S /\ s[j] \in S /\ place[s[i]] = i /\ place[s[j]] = j
    BY <1>9
  <2>2. PICK x \in S, z \in S : x = s[i] /\ z = s[j]
    BY <2>1
  <2>3. place[x] = i /\ place[z] = j /\ i \in Int /\ j \in Int
    BY <2>1, <2>2
  <2>4. ~(z < x) /\ z # x
    BY <1>5, <1>11, <2>3
  <2>5. x \in Int /\ z \in Int
    OBVIOUS
  <2>6. x < z
    BY <2>4, <2>5
  <2>. QED  BY <2>2, <2>6
<1>. HIDE DEF s
<1>. QED  BY <1>10, <1>11 DEF Ordered, n

(* What a refresh reads is a list of users. *)
LEMMA SortedIsList ==
    ASSUME NEW S, S \subseteq Users
    PROVE  Sorted(S) \in Seq(Users) /\ Ordered(Sorted(S))
<1>1. IsFiniteSet(S) /\ S \subseteq Int /\ Cardinality(S) \in Nat
  BY PanelAssumption, FS_Subset, FS_CardinalityType
<1>2. \E s \in [1 .. Cardinality(S) -> S] : Ordered(s)
  BY <1>1, OrderedListExists
<1>3. Sorted(S) \in [1 .. Cardinality(S) -> S] /\ Ordered(Sorted(S))
  BY <1>2 DEF Sorted, Ordered
<1>4. Sorted(S) \in [1 .. Cardinality(S) -> Users]
  BY <1>3
<1>5. Sorted(S) \in Seq(Users)
  BY <1>1, <1>4
<1>. QED  BY <1>3, <1>5

-----------------------------------------------------------------------------
Kinds == {"idle", "refresh", "data", "done", "failed", "delete", "toggle", "wipe"}

(* The types, with the names and the lists that commands carry; every list  *)
(* is one in order, so that no user is in it twice.                         *)
PanelShape ==
    /\ accounts \subseteq Users
    /\ open \in BOOLEAN /\ loading \in BOOLEAN /\ panelTab \in PanelTab
    /\ users \in Seq(Users) /\ userIdx \in Nat /\ pendingDelete \in Users \cup {None}
    /\ command \in [Slots -> [kind : Kinds, name : Users \cup {None}, list : Seq(Users)]]

ListsOrdered ==
    /\ Ordered(users)
    /\ \A i \in Slots : Ordered(command[i].list)

PanelInv == PanelShape /\ ListsOrdered /\ UserInRange /\ LoadingCommanded

(* The highlighted user is one of the list. *)
LEMMA HighlightedUser ==
    ASSUME PanelShape, UserInRange, users # <<>>
    PROVE  Highlighted \in Users
<1>1. Len(users) \in Nat /\ userIdx < Len(users) /\ userIdx \in Nat
  BY LenProperties DEF PanelShape, UserInRange
<1>2. userIdx + 1 \in 1 .. Len(users)
  BY <1>1
<1>. QED  BY <1>2, ElementOfSeq DEF PanelShape, Highlighted

(* A step keeps the types. *)
LEMMA PanelShapeStep ==
    ASSUME PanelShape, UserInRange, [PanelNext]_panelVars
    PROVE  PanelShape'
<1>. USE PanelAssumption DEF PanelShape, Kinds, Command, Idle, Refresh, Done, Failed, Ready
<1>1. ASSUME UNCHANGED panelVars
      PROVE  PanelShape'
  BY <1>1 DEF panelVars, viewState
<1>2. ASSUME NEW i \in Slots, RefreshRuns(i)
      PROVE  PanelShape'
  <2>1. Sorted(accounts) \in Seq(Users)
    BY SortedIsList
  <2>. QED  BY <1>2, <2>1 DEF RefreshRuns, viewState
<1>3. ASSUME NEW i \in Slots, DeleteRuns(i)
      PROVE  PanelShape'
  <2>1. Done \in [kind : Kinds, name : Users \cup {None}, list : Seq(Users)]
    BY DEF Kinds
  <2>2. /\ command' = [command EXCEPT ![i] = Done] /\ accounts' = accounts \ {command[i].name}
        /\ UNCHANGED <<open, viewState>>
    BY <1>3 DEF DeleteRuns
  <2>. HIDE DEF Done
  <2>. QED  BY <2>1, <2>2 DEF viewState
<1>4. ASSUME NEW i \in Slots, WipeRuns(i)
      PROVE  PanelShape'
  BY <1>4 DEF WipeRuns, panelVars, viewState
<1>5. ASSUME NEW i \in Slots, ToggleRuns(i)
      PROVE  PanelShape'
  BY <1>5 DEF ToggleRuns, panelVars, viewState
<1>6. ASSUME NEW i \in Slots, RequestFails(i)
      PROVE  PanelShape'
  BY <1>6 DEF RequestFails, panelVars, viewState
<1>7. ASSUME NEW n \in Users, Registers(n)
      PROVE  PanelShape'
  BY <1>7 DEF Registers, panelVars, viewState
<1>8. ASSUME NEW n \in Users, DeletedElsewhere(n)
      PROVE  PanelShape'
  BY <1>8 DEF DeletedElsewhere, panelVars, viewState
<1>9. ASSUME Open
      PROVE  PanelShape'
  <2>1. PICK i \in Slots : command' = [command EXCEPT ![i] = Refresh]
    BY <1>9 DEF Open, Issue
  <2>2. Refresh \in [kind : Kinds, name : Users \cup {None}, list : Seq(Users)]
    BY DEF Kinds
  <2>3. command' \in [Slots -> [kind : Kinds, name : Users \cup {None}, list : Seq(Users)]]
    BY <2>1, <2>2
  <2>4. <<>> \in Seq(Users) /\ "dashboard" \in PanelTab
    BY DEF PanelTab
  <2>. QED  BY <1>9, <2>3, <2>4 DEF Open
<1>10. ASSUME Leave
      PROVE  PanelShape'
  BY <1>10 DEF Leave, panelVars, viewState
<1>11. ASSUME NEW i \in Slots, DataArrives(i)
      PROVE  PanelShape'
  <2>1. command[i].list \in Seq(Users) /\ Len(command[i].list) \in Nat
    BY LenProperties
  <2>2. InRange(command[i].list) \in Nat
    BY <2>1, EmptySeq DEF InRange
  <2>3. /\ users' = command[i].list /\ userIdx' = InRange(command[i].list) /\ loading' = FALSE
        /\ command' = [command EXCEPT ![i] = Idle]
        /\ UNCHANGED <<accounts, open, panelTab, pendingDelete>>
    BY <1>11 DEF DataArrives
  <2>4. Idle \in [kind : Kinds, name : Users \cup {None}, list : Seq(Users)]
    BY DEF Kinds
  <2>. HIDE DEF Idle
  <2>5. command' \in [Slots -> [kind : Kinds, name : Users \cup {None}, list : Seq(Users)]]
    BY <2>3, <2>4
  <2>. QED  BY <2>1, <2>2, <2>3, <2>5
<1>12. ASSUME NEW i \in Slots, FailureArrives(i)
      PROVE  PanelShape'
  <2>1. Idle \in [kind : Kinds, name : Users \cup {None}, list : Seq(Users)]
    BY DEF Kinds
  <2>2. /\ command' = [command EXCEPT ![i] = Idle] /\ loading' = FALSE
        /\ UNCHANGED <<accounts, open, panelTab, users, userIdx, pendingDelete>>
    BY <1>12 DEF FailureArrives, LoadingOver
  <2>. HIDE DEF Idle
  <2>3. command' \in [Slots -> [kind : Kinds, name : Users \cup {None}, list : Seq(Users)]]
    BY <2>1, <2>2
  <2>. QED  BY <2>2, <2>3
<1>13. ASSUME NEW i \in Slots, DoneArrives(i)
      PROVE  PanelShape'
  BY <1>13 DEF DoneArrives, panelVars, viewState
<1>14. ASSUME NEW i \in Slots, Lost(i)
      PROVE  PanelShape'
  BY <1>14 DEF Lost, panelVars, viewState
<1>15. ASSUME CancelDelete
      PROVE  PanelShape'
  BY <1>15 DEF CancelDelete, panelVars, viewState
<1>16. ASSUME NEW t \in PanelTab, ChooseTab(t)
      PROVE  PanelShape'
  BY <1>16 DEF ChooseTab, panelVars, viewState
<1>17. ASSUME Reload
      PROVE  PanelShape'
  BY <1>17 DEF Reload, Issue, panelVars, viewState
<1>18. ASSUME NEW step \in {-1, 1}, MoveUser(step)
      PROVE  PanelShape'
  BY <1>18 DEF MoveUser, panelVars, viewState
<1>19. ASSUME RefuseSelf
      PROVE  PanelShape'
  BY <1>19 DEF RefuseSelf, panelVars, viewState
<1>20. ASSUME AskToDelete
      PROVE  PanelShape'
  <2>1. Highlighted \in Users
    BY <1>20, HighlightedUser DEF AskToDelete
  <2>. QED  BY <1>20, <2>1 DEF AskToDelete
<1>21. ASSUME ConfirmDelete
      PROVE  PanelShape'
  <2>1. Highlighted \in Users
    BY <1>21, HighlightedUser DEF ConfirmDelete
  <2>. QED  BY <1>21, <2>1 DEF ConfirmDelete, Issue
<1>22. ASSUME ToggleLog
      PROVE  PanelShape'
  BY <1>22 DEF ToggleLog, Issue, panelVars, viewState
<1>23. ASSUME Wipe
      PROVE  PanelShape'
  BY <1>23 DEF Wipe, Issue, panelVars, viewState
<1>. HIDE DEF PanelShape
<1>. QED
  BY <1>1, <1>2, <1>3, <1>4, <1>5, <1>6, <1>7, <1>8, <1>9, <1>10, <1>11,
     <1>12, <1>13, <1>14, <1>15, <1>16, <1>17, <1>18, <1>19, <1>20, <1>21,
     <1>22, <1>23 DEF PanelNext, Keystrokes, Others, Requests, Messages

LEMMA EmptyOrdered == Ordered(<<>>)
BY DEF Ordered

(* A step keeps the lists in order. *)
LEMMA ListsOrderedStep ==
    ASSUME PanelShape, ListsOrdered, [PanelNext]_panelVars
    PROVE  ListsOrdered'
<1>. USE PanelAssumption DEF PanelShape, ListsOrdered, Command, Idle, Refresh, Done, Failed
<1>1. ASSUME UNCHANGED panelVars
      PROVE  ListsOrdered'
  BY <1>1, EmptyOrdered DEF panelVars, viewState
<1>2. ASSUME NEW i \in Slots, RefreshRuns(i)
      PROVE  ListsOrdered'
  <2>1. Ordered(Sorted(accounts))
    BY SortedIsList
  <2>. QED  BY <1>2, <2>1 DEF RefreshRuns, viewState
<1>3. ASSUME NEW i \in Slots, DeleteRuns(i)
      PROVE  ListsOrdered'
  BY <1>3, EmptyOrdered DEF DeleteRuns, panelVars, viewState
<1>4. ASSUME NEW i \in Slots, WipeRuns(i)
      PROVE  ListsOrdered'
  BY <1>4, EmptyOrdered DEF WipeRuns, panelVars, viewState
<1>5. ASSUME NEW i \in Slots, ToggleRuns(i)
      PROVE  ListsOrdered'
  BY <1>5, EmptyOrdered DEF ToggleRuns, panelVars, viewState
<1>6. ASSUME NEW i \in Slots, RequestFails(i)
      PROVE  ListsOrdered'
  BY <1>6, EmptyOrdered DEF RequestFails, panelVars, viewState
<1>7. ASSUME NEW n \in Users, Registers(n)
      PROVE  ListsOrdered'
  BY <1>7, EmptyOrdered DEF Registers, panelVars, viewState
<1>8. ASSUME NEW n \in Users, DeletedElsewhere(n)
      PROVE  ListsOrdered'
  BY <1>8, EmptyOrdered DEF DeletedElsewhere, panelVars, viewState
<1>9. ASSUME Open
      PROVE  ListsOrdered'
  BY <1>9, EmptyOrdered DEF Open, Issue, panelVars, viewState
<1>10. ASSUME Leave
      PROVE  ListsOrdered'
  BY <1>10, EmptyOrdered DEF Leave, panelVars, viewState
<1>11. ASSUME NEW i \in Slots, DataArrives(i)
      PROVE  ListsOrdered'
  BY <1>11, EmptyOrdered DEF DataArrives, InRange, panelVars, viewState
<1>12. ASSUME NEW i \in Slots, FailureArrives(i)
      PROVE  ListsOrdered'
  BY <1>12, EmptyOrdered DEF FailureArrives, LoadingOver, panelVars, viewState
<1>13. ASSUME NEW i \in Slots, DoneArrives(i)
      PROVE  ListsOrdered'
  BY <1>13, EmptyOrdered DEF DoneArrives, panelVars, viewState
<1>14. ASSUME NEW i \in Slots, Lost(i)
      PROVE  ListsOrdered'
  BY <1>14, EmptyOrdered DEF Lost, panelVars, viewState
<1>15. ASSUME CancelDelete
      PROVE  ListsOrdered'
  BY <1>15, EmptyOrdered DEF CancelDelete, panelVars, viewState
<1>16. ASSUME NEW t \in PanelTab, ChooseTab(t)
      PROVE  ListsOrdered'
  BY <1>16, EmptyOrdered DEF ChooseTab, panelVars, viewState
<1>17. ASSUME Reload
      PROVE  ListsOrdered'
  BY <1>17, EmptyOrdered DEF Reload, Issue, panelVars, viewState
<1>18. ASSUME NEW step \in {-1, 1}, MoveUser(step)
      PROVE  ListsOrdered'
  BY <1>18, EmptyOrdered DEF MoveUser, panelVars, viewState
<1>19. ASSUME RefuseSelf
      PROVE  ListsOrdered'
  BY <1>19, EmptyOrdered DEF RefuseSelf, panelVars, viewState
<1>20. ASSUME AskToDelete
      PROVE  ListsOrdered'
  BY <1>20, EmptyOrdered DEF AskToDelete, panelVars, viewState
<1>21. ASSUME ConfirmDelete
      PROVE  ListsOrdered'
  BY <1>21, EmptyOrdered DEF ConfirmDelete, Issue, panelVars, viewState
<1>22. ASSUME ToggleLog
      PROVE  ListsOrdered'
  BY <1>22, EmptyOrdered DEF ToggleLog, Issue, panelVars, viewState
<1>23. ASSUME Wipe
      PROVE  ListsOrdered'
  BY <1>23, EmptyOrdered DEF Wipe, Issue, panelVars, viewState
<1>. HIDE DEF ListsOrdered
<1>. QED
  BY <1>1, <1>2, <1>3, <1>4, <1>5, <1>6, <1>7, <1>8, <1>9, <1>10, <1>11,
     <1>12, <1>13, <1>14, <1>15, <1>16, <1>17, <1>18, <1>19, <1>20, <1>21,
     <1>22, <1>23 DEF PanelNext, Keystrokes, Others, Requests, Messages

(* A step keeps the cursor in the list. *)
LEMMA UserInRangeStep ==
    ASSUME PanelShape, UserInRange, [PanelNext]_panelVars
    PROVE  UserInRange'
<1>. USE DEF PanelShape, UserInRange, Ready
<1>1. ASSUME UNCHANGED panelVars
      PROVE  UserInRange'
  BY <1>1 DEF panelVars, viewState
<1>2. ASSUME NEW i \in Slots, RefreshRuns(i)
      PROVE  UserInRange'
  BY <1>2 DEF RefreshRuns, panelVars, viewState
<1>3. ASSUME NEW i \in Slots, DeleteRuns(i)
      PROVE  UserInRange'
  BY <1>3 DEF DeleteRuns, panelVars, viewState
<1>4. ASSUME NEW i \in Slots, WipeRuns(i)
      PROVE  UserInRange'
  BY <1>4 DEF WipeRuns, panelVars, viewState
<1>5. ASSUME NEW i \in Slots, ToggleRuns(i)
      PROVE  UserInRange'
  BY <1>5 DEF ToggleRuns, panelVars, viewState
<1>6. ASSUME NEW i \in Slots, RequestFails(i)
      PROVE  UserInRange'
  BY <1>6 DEF RequestFails, panelVars, viewState
<1>7. ASSUME NEW n \in Users, Registers(n)
      PROVE  UserInRange'
  BY <1>7 DEF Registers, panelVars, viewState
<1>8. ASSUME NEW n \in Users, DeletedElsewhere(n)
      PROVE  UserInRange'
  BY <1>8 DEF DeletedElsewhere, panelVars, viewState
<1>9. ASSUME Open
      PROVE  UserInRange'
  BY <1>9 DEF Open, Issue, panelVars, viewState
<1>10. ASSUME Leave
      PROVE  UserInRange'
  BY <1>10 DEF Leave, panelVars, viewState
<1>11. ASSUME NEW i \in Slots, DataArrives(i)
      PROVE  UserInRange'
  <2>1. command[i].list \in Seq(Users) /\ Len(command[i].list) \in Nat
    BY LenProperties
  <2>2. command[i].list # <<>> => Len(command[i].list) # 0
    BY <2>1, EmptySeq
  <2>3. command[i].list # <<>> => InRange(command[i].list) < Len(command[i].list)
    BY <2>1, <2>2 DEF InRange
  <2>. QED  BY <1>11, <2>3 DEF DataArrives
<1>12. ASSUME NEW i \in Slots, FailureArrives(i)
      PROVE  UserInRange'
  BY <1>12 DEF FailureArrives, LoadingOver, panelVars, viewState
<1>13. ASSUME NEW i \in Slots, DoneArrives(i)
      PROVE  UserInRange'
  BY <1>13 DEF DoneArrives, panelVars, viewState
<1>14. ASSUME NEW i \in Slots, Lost(i)
      PROVE  UserInRange'
  BY <1>14 DEF Lost, panelVars, viewState
<1>15. ASSUME CancelDelete
      PROVE  UserInRange'
  BY <1>15 DEF CancelDelete, panelVars, viewState
<1>16. ASSUME NEW t \in PanelTab, ChooseTab(t)
      PROVE  UserInRange'
  BY <1>16 DEF ChooseTab, panelVars, viewState
<1>17. ASSUME Reload
      PROVE  UserInRange'
  BY <1>17 DEF Reload, Issue, panelVars, viewState
<1>18. ASSUME NEW step \in {-1, 1}, MoveUser(step)
      PROVE  UserInRange'
  BY <1>18 DEF MoveUser, panelVars, viewState
<1>19. ASSUME RefuseSelf
      PROVE  UserInRange'
  BY <1>19 DEF RefuseSelf, panelVars, viewState
<1>20. ASSUME AskToDelete
      PROVE  UserInRange'
  BY <1>20 DEF AskToDelete, panelVars, viewState
<1>21. ASSUME ConfirmDelete
      PROVE  UserInRange'
  BY <1>21 DEF ConfirmDelete, Issue, panelVars, viewState
<1>22. ASSUME ToggleLog
      PROVE  UserInRange'
  BY <1>22 DEF ToggleLog, Issue, panelVars, viewState
<1>23. ASSUME Wipe
      PROVE  UserInRange'
  BY <1>23 DEF Wipe, Issue, panelVars, viewState
<1>. HIDE DEF UserInRange
<1>. QED
  BY <1>1, <1>2, <1>3, <1>4, <1>5, <1>6, <1>7, <1>8, <1>9, <1>10, <1>11,
     <1>12, <1>13, <1>14, <1>15, <1>16, <1>17, <1>18, <1>19, <1>20, <1>21,
     <1>22, <1>23 DEF PanelNext, Keystrokes, Others, Requests, Messages

(* A step leaves a panel that is loading with a command under way. *)
LEMMA LoadingCommandedStep ==
    ASSUME PanelShape, LoadingCommanded, [PanelNext]_panelVars
    PROVE  LoadingCommanded'
<1>. USE PanelAssumption DEF PanelShape, LoadingCommanded, Command, Idle,
     Refresh, Done, Failed, Ready
<1>1. ASSUME UNCHANGED panelVars
      PROVE  LoadingCommanded'
  BY <1>1 DEF panelVars, viewState
<1>2. ASSUME NEW i \in Slots, RefreshRuns(i)
      PROVE  LoadingCommanded'
  BY <1>2 DEF RefreshRuns, panelVars, viewState
<1>3. ASSUME NEW i \in Slots, DeleteRuns(i)
      PROVE  LoadingCommanded'
  BY <1>3 DEF DeleteRuns, panelVars, viewState
<1>4. ASSUME NEW i \in Slots, WipeRuns(i)
      PROVE  LoadingCommanded'
  BY <1>4 DEF WipeRuns, panelVars, viewState
<1>5. ASSUME NEW i \in Slots, ToggleRuns(i)
      PROVE  LoadingCommanded'
  BY <1>5 DEF ToggleRuns, panelVars, viewState
<1>6. ASSUME NEW i \in Slots, RequestFails(i)
      PROVE  LoadingCommanded'
  BY <1>6 DEF RequestFails, panelVars, viewState
<1>7. ASSUME NEW n \in Users, Registers(n)
      PROVE  LoadingCommanded'
  BY <1>7 DEF Registers, panelVars, viewState
<1>8. ASSUME NEW n \in Users, DeletedElsewhere(n)
      PROVE  LoadingCommanded'
  BY <1>8 DEF DeletedElsewhere, panelVars, viewState
<1>9. ASSUME Open
      PROVE  LoadingCommanded'
  BY <1>9 DEF Open, Issue, panelVars, viewState
<1>10. ASSUME Leave
      PROVE  LoadingCommanded'
  BY <1>10 DEF Leave, panelVars, viewState
<1>11. ASSUME NEW i \in Slots, DataArrives(i)
      PROVE  LoadingCommanded'
  BY <1>11 DEF DataArrives, InRange, panelVars, viewState
<1>12. ASSUME NEW i \in Slots, FailureArrives(i)
      PROVE  LoadingCommanded'
  BY <1>12 DEF FailureArrives, LoadingOver, panelVars, viewState
<1>13. ASSUME NEW i \in Slots, DoneArrives(i)
      PROVE  LoadingCommanded'
  BY <1>13 DEF DoneArrives, panelVars, viewState
<1>14. ASSUME NEW i \in Slots, Lost(i)
      PROVE  LoadingCommanded'
  BY <1>14 DEF Lost, panelVars, viewState
<1>15. ASSUME CancelDelete
      PROVE  LoadingCommanded'
  BY <1>15 DEF CancelDelete, panelVars, viewState
<1>16. ASSUME NEW t \in PanelTab, ChooseTab(t)
      PROVE  LoadingCommanded'
  BY <1>16 DEF ChooseTab, panelVars, viewState
<1>17. ASSUME Reload
      PROVE  LoadingCommanded'
  BY <1>17 DEF Reload, Issue, panelVars, viewState
<1>18. ASSUME NEW step \in {-1, 1}, MoveUser(step)
      PROVE  LoadingCommanded'
  BY <1>18 DEF MoveUser, panelVars, viewState
<1>19. ASSUME RefuseSelf
      PROVE  LoadingCommanded'
  BY <1>19 DEF RefuseSelf, panelVars, viewState
<1>20. ASSUME AskToDelete
      PROVE  LoadingCommanded'
  BY <1>20 DEF AskToDelete, panelVars, viewState
<1>21. ASSUME ConfirmDelete
      PROVE  LoadingCommanded'
  BY <1>21 DEF ConfirmDelete, Issue, panelVars, viewState
<1>22. ASSUME ToggleLog
      PROVE  LoadingCommanded'
  BY <1>22 DEF ToggleLog, Issue, panelVars, viewState
<1>23. ASSUME Wipe
      PROVE  LoadingCommanded'
  BY <1>23 DEF Wipe, Issue, panelVars, viewState
<1>. HIDE DEF LoadingCommanded
<1>. QED
  BY <1>1, <1>2, <1>3, <1>4, <1>5, <1>6, <1>7, <1>8, <1>9, <1>10, <1>11,
     <1>12, <1>13, <1>14, <1>15, <1>16, <1>17, <1>18, <1>19, <1>20, <1>21,
     <1>22, <1>23 DEF PanelNext, Keystrokes, Others, Requests, Messages

-----------------------------------------------------------------------------
(* PanelInv is inductive: types, lists in order, and what two properties    *)
(* of the panel say.                                                        *)
THEOREM PanelInvariant == PanelSpec => []PanelInv
<1>1. PanelInit => PanelInv
  <2>. SUFFICES ASSUME PanelInit PROVE PanelInv
    OBVIOUS
  <2>1. <<>> \in Seq(Users) /\ Idle \in [kind : Kinds, name : Users \cup {None}, list : Seq(Users)]
    BY DEF Idle, Command, Kinds
  <2>2. PanelShape
    BY <2>1 DEF PanelInit, PanelShape, PanelTab
  <2>3. ListsOrdered
    BY EmptyOrdered DEF PanelInit, ListsOrdered, Idle, Command
  <2>. QED  BY <2>2, <2>3 DEF PanelInit, PanelInv, UserInRange, LoadingCommanded
<1>2. PanelInv /\ [PanelNext]_panelVars => PanelInv'
  BY PanelShapeStep, ListsOrderedStep, UserInRangeStep, LoadingCommandedStep DEF PanelInv
<1>. QED  BY <1>1, <1>2, PTL DEF PanelSpec

(* The types of the panel's state. *)
THEOREM PanelTypeCorrect == PanelSpec => []PanelTypeOK
<1>1. PanelInv => PanelTypeOK
  BY DEF PanelInv, PanelShape, Kinds, PanelTypeOK
<1>. QED  BY <1>1, PanelInvariant, PTL

(* The cursor is never past the end of a list that has just arrived         *)
(* (adminDataMsg).                                                          *)
THEOREM CursorInRange == PanelSpec => []UserInRange
BY PanelInvariant, PTL DEF PanelInv

(* A panel that takes no keys waits for a command (adminPanelModel.loading). *)
THEOREM LoadingHasCommand == PanelSpec => []LoadingCommanded
BY PanelInvariant, PTL DEF PanelInv

(* A deletion is requested only of the user whom the question named, and    *)
(* never of the administrator (updateUsers).                                *)
THEOREM DeletesWhomAsked == PanelSpec => DeletesPrompted
<1>. DEFINE Prompted == \A i \in Slots :
                          command'[i].kind = "delete" /\ command[i].kind # "delete" =>
                              command'[i].name = pendingDelete /\ pendingDelete # Self
<1>1. PanelInv /\ [PanelNext]_panelVars => [Prompted]_panelVars
  <2>. SUFFICES ASSUME PanelInv, PanelNext PROVE Prompted
    OBVIOUS
  <2>. USE DEF PanelInv, PanelShape, Command, Idle, Refresh, Done, Failed
  <2>1. ASSUME NEW i \in Slots, RefreshRuns(i)
        PROVE  Prompted
    BY <2>1 DEF RefreshRuns, panelVars, viewState
  <2>2. ASSUME NEW i \in Slots, DeleteRuns(i)
        PROVE  Prompted
    BY <2>2 DEF DeleteRuns, panelVars, viewState
  <2>3. ASSUME NEW i \in Slots, WipeRuns(i)
        PROVE  Prompted
    BY <2>3 DEF WipeRuns, panelVars, viewState
  <2>4. ASSUME NEW i \in Slots, ToggleRuns(i)
        PROVE  Prompted
    BY <2>4 DEF ToggleRuns, panelVars, viewState
  <2>5. ASSUME NEW i \in Slots, RequestFails(i)
        PROVE  Prompted
    BY <2>5 DEF RequestFails, panelVars, viewState
  <2>6. ASSUME NEW n \in Users, Registers(n)
        PROVE  Prompted
    BY <2>6 DEF Registers, panelVars, viewState
  <2>7. ASSUME NEW n \in Users, DeletedElsewhere(n)
        PROVE  Prompted
    BY <2>7 DEF DeletedElsewhere, panelVars, viewState
  <2>8. ASSUME Open
        PROVE  Prompted
    BY <2>8 DEF Open, Issue, panelVars, viewState
  <2>9. ASSUME Leave
        PROVE  Prompted
    BY <2>9 DEF Leave, panelVars, viewState
  <2>10. ASSUME NEW i \in Slots, DataArrives(i)
        PROVE  Prompted
    BY <2>10 DEF DataArrives, InRange, panelVars, viewState
  <2>11. ASSUME NEW i \in Slots, FailureArrives(i)
        PROVE  Prompted
    BY <2>11 DEF FailureArrives, LoadingOver, panelVars, viewState
  <2>12. ASSUME NEW i \in Slots, DoneArrives(i)
        PROVE  Prompted
    BY <2>12 DEF DoneArrives, panelVars, viewState
  <2>13. ASSUME NEW i \in Slots, Lost(i)
        PROVE  Prompted
    BY <2>13 DEF Lost, panelVars, viewState
  <2>14. ASSUME CancelDelete
        PROVE  Prompted
    BY <2>14 DEF CancelDelete, panelVars, viewState
  <2>15. ASSUME NEW t \in PanelTab, ChooseTab(t)
        PROVE  Prompted
    BY <2>15 DEF ChooseTab, panelVars, viewState
  <2>16. ASSUME Reload
        PROVE  Prompted
    BY <2>16 DEF Reload, Issue, panelVars, viewState
  <2>17. ASSUME NEW step \in {-1, 1}, MoveUser(step)
        PROVE  Prompted
    BY <2>17 DEF MoveUser, panelVars, viewState
  <2>18. ASSUME RefuseSelf
        PROVE  Prompted
    BY <2>18 DEF RefuseSelf, panelVars, viewState
  <2>19. ASSUME AskToDelete
        PROVE  Prompted
    BY <2>19 DEF AskToDelete, panelVars, viewState
  <2>20. ASSUME ConfirmDelete
        PROVE  Prompted
    <3>1. PICK i \in Slots : command' = [command EXCEPT ![i] = Command("delete", Highlighted, <<>>)]
      BY <2>20 DEF ConfirmDelete, Issue
    <3>2. pendingDelete = Highlighted /\ Highlighted # Self
      BY <2>20 DEF ConfirmDelete, Asked
    <3>3. command'[i].name = Highlighted /\ \A j \in Slots : j # i => command'[j] = command[j]
      BY <3>1
    <3>. QED  BY <3>2, <3>3
  <2>21. ASSUME ToggleLog
        PROVE  Prompted
    BY <2>21 DEF ToggleLog, Issue, panelVars, viewState
  <2>22. ASSUME Wipe
        PROVE  Prompted
    BY <2>22 DEF Wipe, Issue, panelVars, viewState
  <2>. QED
    BY <2>1, <2>2, <2>3, <2>4, <2>5, <2>6, <2>7, <2>8, <2>9, <2>10, <2>11,
       <2>12, <2>13, <2>14, <2>15, <2>16, <2>17, <2>18, <2>19, <2>20, <2>21,
       <2>22 DEF PanelNext, Keystrokes, Others, Requests, Messages
<1>. QED  BY <1>1, PanelInvariant, PTL DEF PanelSpec, DeletesPrompted

-----------------------------------------------------------------------------

(* What the handler of a connection holds at each stage. *)
HandlerHolds ==
    \A c \in Conn :
        /\ stage[c] # "off" => account[c] \in Account
        /\ stage[c] \in {"check", "save"} => to[c] \in Account
        /\ stage[c] \in {"confirm"} \cup Delivering => work[c] \in Row
        /\ stage[c] = "push" => target[c] \in Conn
        /\ stage[c] \notin {"drain", "confirm"} => queue[c] = {}

(* No account is ahead of the lives that its id has had: what is gone stays *)
(* gone, whoever gets the id.                                               *)
HasLived(a) == a[2] <= life[a[1]]
AccountsLived ==
    /\ \A i \in existing : life[i] >= 1
    /\ \A c \in Conn : stage[c] # "off" => HasLived(account[c])
    /\ \A row \in rows : HasLived(row.from)

(* The registry has, for each id, the one open connection that serves it. *)
RegistryServes ==
    /\ \A i \in Id : clients[i] # NoConn =>
          /\ clients[i] \in Conn \ closed
          /\ stage[clients[i]] \in Serving /\ account[clients[i]][1] = i
    /\ \A c \in Conn : stage[c] \in Serving /\ c \notin closed => clients[account[c][1]] = c
    /\ \A c \in Conn : stage[c] = "register" => c \notin closed

(* A message_id that is in the table belongs to the newest message that has *)
(* it; a handler may hold an older one.                                     *)
RowsNewest ==
    /\ \A row \in rows : row.message[2] = count[row.message[1]]
    /\ \A c \in Conn :
          /\ stage[c] \in {"confirm"} \cup Delivering =>
                work[c].message[2] <= count[work[c].message[1]]
          /\ stage[c] \in {"confirm", "settle"} => work[c].message \in Written
          /\ \A row \in queue[c] : row.message[2] <= count[row.message[1]]

(* Rows go by ids: in a bootstrap, in a push, in what was written. *)
HeldForId ==
    /\ \A c \in Conn : \A row \in queue[c] : row.to[1] = account[c][1]
    /\ \A c \in Conn : stage[c] = "push" =>
          \/ target[c] \in closed
          \/ stage[target[c]] # "off" /\ account[target[c]][1] = work[c].to[1]
    /\ \A w \in written : w[2][1] = w[3][1]

(* NoneStranded from the moment on at which the rows have been listed: what *)
(* is on the list is on its way, too.                                       *)
Awaited(row, c) ==
    /\ stage[c] \in {"drain", "confirm"} \cup Reading /\ c \notin closed \cup lost
    /\ row.to[1] = account[c][1] /\ Living(row.from)
    /\ row.message[2] = 1 /\ row.message \notin Written
NoneMissed ==
    \A c \in Conn, row \in rows :
        Awaited(row, c) => OnItsWay(row, c) \/ row \in queue[c]

DeletionInv ==
    /\ DeletionTypeOK /\ HandlerHolds /\ AccountsLived /\ RegistryServes
    /\ RowsNewest /\ MarkedWasWritten /\ HeldForId /\ NoneMissed

(* The account that has an id, as a pair. *)
LEMMA AccountAtType ==
    ASSUME DeletionInv, NEW i \in existing
    PROVE  i \in Id /\ AccountAt(i) \in Account
BY DEF DeletionInv, DeletionTypeOK, AccountsLived, AccountAt, Account, Id

(* What a handler may look up, and the ids of what it has in hand. *)
LEMMA RecipientType ==
    ASSUME DeletionInv, NEW c \in Conn, stage[c] = "lookup"
    PROVE  work[c] \in Row /\ work[c].to[1] \in Id /\ Recipient(c) \in Conn \cup {NoConn}
<1>1. work[c] \in Row
  BY DEF DeletionInv, HandlerHolds, Delivering
<1>2. work[c].to \in Account
  BY <1>1 DEF Row
<1>3. work[c].to[1] \in Id
  BY <1>2 DEF Account
<1>. QED  BY <1>1, <1>3 DEF DeletionInv, DeletionTypeOK, Recipient

(* The frames that have been written, by message. *)
LEMMA WritesAdds ==
    ASSUME NEW c \in Conn, NEW row, Writes(c, row)
    PROVE  Written' = Written \cup {row.message}
<1>. DEFINE w == <<row.message, row.to, account[c]>>
<1>1. written' = written \cup {w} /\ w[1] = row.message
  BY DEF Writes
<1>2. ASSUME NEW m \in Written' PROVE m \in Written \cup {row.message}
  BY <1>1, <1>2 DEF Written
<1>3. ASSUME NEW m \in Written \cup {row.message} PROVE m \in Written'
  <2>1. CASE m \in Written
    BY <1>1, <2>1 DEF Written
  <2>2. CASE m = row.message
    BY <1>1, <2>2 DEF Written
  <2>. QED  BY <1>3, <2>1, <2>2
<1>. QED  BY <1>2, <1>3

LEMMA WrittenSame == written' = written => Written' = Written
BY DEF Written

(* What a row is made of. *)
LEMMA RowParts ==
    ASSUME NEW row \in Row
    PROVE  /\ row.message \in Mail /\ row.from \in Account /\ row.to \in Account
           /\ row.message[1] \in RowId /\ row.message[2] \in 1 .. MaxLife
           /\ row.from[1] \in Id /\ row.from[2] \in 1 .. MaxLife
           /\ row.to[1] \in Id
<1>1. row.message \in Mail /\ row.from \in Account /\ row.to \in Account
  BY DEF Row
<1>. QED  BY <1>1 DEF Mail, Account

(* What SaveMessage inserts: a new message, of a message_id that has no row. *)
LEMMA NewRow ==
    ASSUME DeletionInv, NEW c \in Conn, NEW r \in RowId, SaveMessage(c, r)
    PROVE  \E row \in Row :
              /\ row = [message |-> <<r, count[r] + 1>>, from |-> account[c], to |-> to[c]]
              /\ rows' = rows \cup {row} /\ work' = [work EXCEPT ![c] = row]
              /\ row.message = <<r, count[r] + 1>> /\ row.from = account[c]
              /\ row.message[1] = r /\ row.message[2] = count[r] + 1
              /\ count[r] \in Nat /\ row \notin rows
              /\ count' = [count EXCEPT ![r] = count[r] + 1]
              /\ r \notin RowIds
<1>. DEFINE row == [message |-> <<r, count[r] + 1>>, from |-> account[c], to |-> to[c]]
<1>1. r \notin RowIds
  <2>1. RowIds \subseteq Int /\ r \in Int
    <3>1. ASSUME NEW x \in rows PROVE x.message[1] \in Int
      BY <3>1, RowParts DEF DeletionInv, DeletionTypeOK, RowId
    <3>. QED  BY <3>1 DEF RowIds, RowId
  <2>. QED  BY <2>1 DEF SaveMessage, IsNext
<1>2. count[r] \in Nat /\ count[r] + 1 \in 1 .. MaxLife
  BY DeletionAssumption DEF DeletionInv, DeletionTypeOK, SaveMessage
<1>3. <<r, count[r] + 1>> \in Mail
  BY <1>2 DEF Mail
<1>4. account[c] \in Account /\ to[c] \in Account
  BY DEF DeletionInv, HandlerHolds, SaveMessage
<1>5. row \in Row
  BY <1>3, <1>4 DEF Row
<1>6. row \notin rows
  <2>1. row \in rows => row.message[1] \in RowIds
    BY DEF RowIds
  <2>. QED  BY <1>1, <2>1
<1>. QED  BY <1>1, <1>2, <1>5, <1>6 DEF SaveMessage

(* Registering moves, beside c's own handler, at most that of the connection *)
(* that is closed, to the packet that it has read.                           *)
LEMMA RegisterMoves ==
    ASSUME DeletionInv, NEW c \in Conn, Register(c)
    PROVE  /\ stage' \in [Conn -> Stage] /\ stage'[c] = "pending"
           /\ \A d \in Conn \ {c} :
                 \/ stage'[d] = stage[d]
                 \/ stage[d] = "read" /\ stage'[d] = "packet" /\ d \in closed'
<1>. DEFINE old == clients[account[c][1]]
<1>1. PICK s \in {"read", "packet"} :
        stage' = [d \in Conn |-> IF d = c THEN "pending"
                                 ELSE IF d = old /\ stage[d] = "read" THEN s
                                 ELSE stage[d]]
  BY DEF Register
<1>2. closed' = closed \cup ({old} \ {NoConn})
  BY DEF Register
<1>3. \A d \in Conn : stage'[d] \in Stage
  BY <1>1 DEF DeletionInv, DeletionTypeOK, Stage, Serving, Reading, Delivering
<1>4. \A d \in Conn \ {c} :
        \/ stage'[d] = stage[d]
        \/ stage[d] = "read" /\ stage'[d] = "packet" /\ d \in closed'
  BY <1>1, <1>2, DeletionAssumption
<1>. QED  BY <1>1, <1>3, <1>4

(* Types: an account is made of an id and a life it has had, a row of what  *)
(* was found by SaveMessage.                                                *)
LEMMA DeletionTypesStep ==
    DeletionInv /\ [DeletionNext]_deletionVars => DeletionTypeOK'
<1>. SUFFICES ASSUME DeletionInv, [DeletionNext]_deletionVars PROVE DeletionTypeOK'
  OBVIOUS
<1>. USE DEF DeletionInv, DeletionTypeOK, HandlerHolds, RowIds, Stage, Serving, Reading, Delivering, userVars, rowVars, connVars, handVars, Goto
<1>1. ASSUME NEW i \in Id, CreateUser(i)
      PROVE  DeletionTypeOK'
  <2>1. life[i] \in 0 .. MaxLife /\ life[i] + 1 \in 0 .. MaxLife
    BY <1>1, DeletionAssumption DEF CreateUser
  <2>. QED  BY <1>1, <2>1 DEF CreateUser
<1>2. ASSUME NEW i \in Id, DeleteUser(i)
      PROVE  DeletionTypeOK'
  BY <1>2 DEF DeleteUser, Remains
<1>3. ASSUME WipeAllData
      PROVE  DeletionTypeOK'
  BY <1>3 DEF WipeAllData, Remains
<1>4. ASSUME NEW c \in Conn, NEW i \in Id, Authenticate(c, i)
      PROVE  DeletionTypeOK'
  BY <1>4, AccountAtType DEF Authenticate
<1>5. ASSUME NEW c \in Conn, Register(c)
      PROVE  DeletionTypeOK'
  BY <1>5, RegisterMoves DEF Register, Account
<1>6. ASSUME NEW c \in Conn, ReadFails(c)
      PROVE  DeletionTypeOK'
  BY <1>6 DEF ReadFails
<1>7. ASSUME NEW c \in Conn, Unregister(c)
      PROVE  DeletionTypeOK'
  BY <1>7 DEF Unregister
<1>8. ASSUME NEW c \in Conn, LinkLost(c)
      PROVE  DeletionTypeOK'
  BY <1>8 DEF LinkLost
<1>9. ASSUME NEW c \in Conn, ListPending(c)
      PROVE  DeletionTypeOK'
  BY <1>9 DEF ListPending, Undelivered
<1>10. ASSUME NEW c \in Conn, NEW row \in queue[c], WritePending(c, row)
      PROVE  DeletionTypeOK'
  <2>1. row \in Row /\ row.message \in Mail /\ row.to \in Account
    BY <1>10, RowParts DEF WritePending
  <2>2. account[c] \in Account
    BY <1>10 DEF WritePending
  <2>3. written' \subseteq Mail \X Account \X Account
    BY <1>10, <2>1, <2>2 DEF WritePending, Writes
  <2>. QED  BY <1>10, <2>1, <2>3 DEF WritePending
<1>11. ASSUME NEW c \in Conn, MarkPending(c)
      PROVE  DeletionTypeOK'
  BY <1>11 DEF MarkPending, Marks, MarkedIds, PutDown
<1>12. ASSUME NEW c \in Conn, BootstrapDone(c)
      PROVE  DeletionTypeOK'
  BY <1>12 DEF BootstrapDone
<1>13. ASSUME NEW c \in Conn, BootstrapFails(c)
      PROVE  DeletionTypeOK'
  BY <1>13 DEF BootstrapFails, WriteMayFail
<1>14. ASSUME NEW c \in Conn, NEW i \in Id, FindAddressee(c, i)
      PROVE  DeletionTypeOK'
  BY <1>14, AccountAtType DEF FindAddressee, HasPacket
<1>15. ASSUME NEW c \in Conn, NEW r \in RowId, SaveMessage(c, r)
      PROVE  DeletionTypeOK'
  <2>1. PICK new \in Row :
            /\ rows' = rows \cup {new} /\ work' = [work EXCEPT ![c] = new]
            /\ count' = [count EXCEPT ![r] = count[r] + 1]
    BY <1>15, NewRow
  <2>2. count[r] + 1 \in 0 .. MaxLife
    BY <1>15, DeletionAssumption DEF SaveMessage
  <2>. QED  BY <1>15, <2>1, <2>2 DEF SaveMessage, NoAccount
<1>16. ASSUME NEW c \in Conn, SendFails(c)
      PROVE  DeletionTypeOK'
  BY <1>16 DEF SendFails
<1>17. ASSUME NEW c \in Conn, Lookup(c)
      PROVE  DeletionTypeOK'
  <2>1. stage[c] = "lookup"
    BY <1>17 DEF Lookup
  <2>2. Recipient(c) \in Conn \cup {NoConn}
    BY <2>1, RecipientType
  <2>. QED  BY <1>17, <2>2 DEF Lookup, PutDown
<1>18. ASSUME NEW c \in Conn, PushRow(c)
      PROVE  DeletionTypeOK'
  <2>1. work[c] \in Row /\ target[c] \in Conn
    BY <1>18 DEF PushRow
  <2>2. work[c].message \in Mail /\ work[c].to \in Account
    BY <2>1, RowParts
  <2>3. account[target[c]] \in Account
    BY <1>18 DEF PushRow, CanWrite, HeldForId
  <2>4. written' \subseteq Mail \X Account \X Account
    BY <1>18, <2>2, <2>3 DEF PushRow, Writes
  <2>. QED  BY <1>18, <2>4 DEF PushRow
<1>19. ASSUME NEW c \in Conn, PushFails(c)
      PROVE  DeletionTypeOK'
  BY <1>19 DEF PushFails, WriteMayFail, PutDown
<1>20. ASSUME NEW c \in Conn, MarkDelivered(c)
      PROVE  DeletionTypeOK'
  BY <1>20 DEF MarkDelivered, Marks, MarkedIds, PutDown
<1>21. ASSUME NEW c \in Conn, MarkFails(c)
      PROVE  DeletionTypeOK'
  BY <1>21 DEF MarkFails, PutDown
<1>22. CASE UNCHANGED deletionVars
  BY <1>22 DEF deletionVars
<1>23. ASSUME NEW c \in Conn, CloseConn(c)
      PROVE  DeletionTypeOK'
  BY <1>23 DEF CloseConn
<1>24. ASSUME NEW c \in Conn, AreFriends(c)
      PROVE  DeletionTypeOK'
  BY <1>24 DEF AreFriends
<1>. QED  BY <1>1, <1>2, <1>3, <1>4, <1>5, <1>6, <1>7, <1>8, <1>9, <1>10, <1>11, <1>12, <1>13, <1>14, <1>15, <1>16, <1>17, <1>18, <1>19, <1>20, <1>21, <1>22, <1>23, <1>24
       DEF DeletionNext, UserStep, ConnStep, BootstrapStep, DeliverStep

(* A handler takes up what it needs at the step before it needs it, and     *)
(* puts it down with PutDown.                                               *)
LEMMA HandlerHoldsStep ==
    DeletionInv /\ [DeletionNext]_deletionVars => HandlerHolds'
<1>. SUFFICES ASSUME DeletionInv, [DeletionNext]_deletionVars PROVE HandlerHolds'
  OBVIOUS
<1>. USE DEF DeletionInv, DeletionTypeOK, HandlerHolds, Stage, Serving, Reading, Delivering, userVars, rowVars, connVars, handVars, Goto
<1>1. ASSUME NEW i \in Id, CreateUser(i)
      PROVE  HandlerHolds'
  BY <1>1 DEF CreateUser
<1>2. ASSUME NEW i \in Id, DeleteUser(i)
      PROVE  HandlerHolds'
  BY <1>2 DEF DeleteUser, Remains
<1>3. ASSUME WipeAllData
      PROVE  HandlerHolds'
  BY <1>3 DEF WipeAllData, Remains
<1>4. ASSUME NEW c \in Conn, NEW i \in Id, Authenticate(c, i)
      PROVE  HandlerHolds'
  BY <1>4, AccountAtType DEF Authenticate
<1>5. ASSUME NEW c \in Conn, Register(c)
      PROVE  HandlerHolds'
  BY <1>5, RegisterMoves DEF Register
<1>6. ASSUME NEW c \in Conn, ReadFails(c)
      PROVE  HandlerHolds'
  BY <1>6 DEF ReadFails
<1>7. ASSUME NEW c \in Conn, Unregister(c)
      PROVE  HandlerHolds'
  BY <1>7 DEF Unregister
<1>8. ASSUME NEW c \in Conn, LinkLost(c)
      PROVE  HandlerHolds'
  BY <1>8 DEF LinkLost
<1>9. ASSUME NEW c \in Conn, ListPending(c)
      PROVE  HandlerHolds'
  BY <1>9 DEF ListPending, Undelivered
<1>10. ASSUME NEW c \in Conn, NEW row \in queue[c], WritePending(c, row)
      PROVE  HandlerHolds'
  BY <1>10 DEF WritePending, CanWrite, Writes
<1>11. ASSUME NEW c \in Conn, MarkPending(c)
      PROVE  HandlerHolds'
  BY <1>11 DEF MarkPending, Marks, MarkedIds, PutDown
<1>12. ASSUME NEW c \in Conn, BootstrapDone(c)
      PROVE  HandlerHolds'
  BY <1>12 DEF BootstrapDone
<1>13. ASSUME NEW c \in Conn, BootstrapFails(c)
      PROVE  HandlerHolds'
  BY <1>13 DEF BootstrapFails, WriteMayFail
<1>14. ASSUME NEW c \in Conn, NEW i \in Id, FindAddressee(c, i)
      PROVE  HandlerHolds'
  BY <1>14, AccountAtType DEF FindAddressee, HasPacket
<1>15. ASSUME NEW c \in Conn, NEW r \in RowId, SaveMessage(c, r)
      PROVE  HandlerHolds'
  <2>1. PICK new \in Row : work' = [work EXCEPT ![c] = new]
    BY <1>15, NewRow
  <2>. QED  BY <1>15, <2>1 DEF SaveMessage
<1>16. ASSUME NEW c \in Conn, SendFails(c)
      PROVE  HandlerHolds'
  BY <1>16 DEF SendFails
<1>17. ASSUME NEW c \in Conn, Lookup(c)
      PROVE  HandlerHolds'
  <2>1. stage[c] = "lookup"
    BY <1>17 DEF Lookup
  <2>2. Recipient(c) \in Conn \cup {NoConn}
    BY <2>1, RecipientType
  <2>. QED  BY <1>17, <2>2 DEF Lookup, PutDown
<1>18. ASSUME NEW c \in Conn, PushRow(c)
      PROVE  HandlerHolds'
  BY <1>18 DEF PushRow, CanWrite, Writes
<1>19. ASSUME NEW c \in Conn, PushFails(c)
      PROVE  HandlerHolds'
  BY <1>19 DEF PushFails, WriteMayFail, PutDown
<1>20. ASSUME NEW c \in Conn, MarkDelivered(c)
      PROVE  HandlerHolds'
  BY <1>20 DEF MarkDelivered, Marks, MarkedIds, PutDown
<1>21. ASSUME NEW c \in Conn, MarkFails(c)
      PROVE  HandlerHolds'
  BY <1>21 DEF MarkFails, PutDown
<1>22. CASE UNCHANGED deletionVars
  BY <1>22 DEF deletionVars
<1>23. ASSUME NEW c \in Conn, CloseConn(c)
      PROVE  HandlerHolds'
  BY <1>23 DEF CloseConn
<1>24. ASSUME NEW c \in Conn, AreFriends(c)
      PROVE  HandlerHolds'
  BY <1>24 DEF AreFriends
<1>. QED  BY <1>1, <1>2, <1>3, <1>4, <1>5, <1>6, <1>7, <1>8, <1>9, <1>10, <1>11, <1>12, <1>13, <1>14, <1>15, <1>16, <1>17, <1>18, <1>19, <1>20, <1>21, <1>22, <1>23, <1>24
       DEF DeletionNext, UserStep, ConnStep, BootstrapStep, DeliverStep

(* register closes the connection that it replaces; unregister removes only *)
(* its own.                                                                 *)
LEMMA RegistryServesStep ==
    DeletionInv /\ [DeletionNext]_deletionVars => RegistryServes'
<1>. SUFFICES ASSUME DeletionInv, [DeletionNext]_deletionVars PROVE RegistryServes'
  OBVIOUS
<1>. USE DEF DeletionInv, DeletionTypeOK, HandlerHolds, RegistryServes, DeletionAssumption, Id, Account, Stage, Serving, Reading, Delivering, userVars, rowVars, connVars, handVars, Goto
<1>1. ASSUME NEW i \in Id, CreateUser(i)
      PROVE  RegistryServes'
  BY <1>1 DEF CreateUser
<1>2. ASSUME NEW i \in Id, DeleteUser(i)
      PROVE  RegistryServes'
  BY <1>2 DEF DeleteUser, Remains
<1>3. ASSUME WipeAllData
      PROVE  RegistryServes'
  BY <1>3 DEF WipeAllData, Remains
<1>4. ASSUME NEW c \in Conn, NEW i \in Id, Authenticate(c, i)
      PROVE  RegistryServes'
  BY <1>4 DEF Authenticate, AccountAt
<1>5. ASSUME NEW c \in Conn, Register(c)
      PROVE  RegistryServes'
  <2>. DEFINE me == account[c][1]
  <2>1. /\ stage[c] = "register" /\ clients' = [clients EXCEPT ![me] = c]
        /\ closed' = closed \cup ({clients[me]} \ {NoConn}) /\ account' = account
    BY <1>5 DEF Register
  <2>m. /\ stage'[c] = "pending"
        /\ \A d \in Conn \ {c} :
              \/ stage'[d] = stage[d]
              \/ stage[d] = "read" /\ stage'[d] = "packet" /\ d \in closed'
    BY <1>5, RegisterMoves
  <2>2. me \in Id /\ c # NoConn /\ c \notin closed
    <3>1. account[c] \in Account
      BY <2>1
    <3>2. c # NoConn
      BY DeletionAssumption
    <3>3. c \notin closed
      BY <2>1 DEF RegistryServes
    <3>. QED  BY <3>1, <3>2, <3>3 DEF Account
  <2>3. {"pending", "read", "packet"} \subseteq Serving /\ "register" \notin Serving
    OBVIOUS
  <2>4. stage \in [Conn -> Stage] /\ clients \in [Id -> Conn \cup {NoConn}]
    OBVIOUS
  <2>5. RegistryServes
    OBVIOUS
  <2>. HIDE DEF DeletionInv, DeletionTypeOK, HandlerHolds, DeletionAssumption, Id, Account,
            Stage, Serving, Reading, Delivering
  <2>6. ASSUME NEW i \in Id PROVE clients[i] # c
    BY <2>1, <2>2, <2>3, <2>5
  <2>7. ASSUME NEW i \in Id, clients'[i] # NoConn
        PROVE  /\ clients'[i] \in Conn \ closed'
               /\ stage'[clients'[i]] \in Serving /\ account'[clients'[i]][1] = i
    <3>1. CASE i = me
      <4>1. clients'[i] = c /\ stage'[c] = "pending"
        BY <2>1, <2>4, <2>m, <3>1
      <4>2. c \notin closed' /\ account'[c][1] = i
        BY <2>1, <2>2, <2>6, <3>1
      <4>. QED  BY <2>3, <4>1, <4>2
    <3>2. CASE i # me
      <4>1. clients'[i] = clients[i] /\ clients[i] # c
        BY <2>1, <2>2, <2>4, <2>6, <3>2
      <4>2. clients[i] \in Conn \ closed /\ stage[clients[i]] \in Serving /\ account[clients[i]][1] = i
        BY <2>5, <2>7, <4>1
      <4>3. clients[me] # NoConn => account[clients[me]][1] = me
        BY <2>2, <2>5
      <4>4. clients[i] # NoConn /\ clients[i] # clients[me]
        BY <2>7, <4>1, <4>2, <4>3, <3>2
      <4>5. stage'[clients[i]] \in Serving
        BY <2>3, <2>m, <4>1, <4>2
      <4>. QED  BY <2>1, <2>4, <4>1, <4>2, <4>4, <4>5
    <3>. QED  BY <3>1, <3>2
  <2>8. ASSUME NEW d \in Conn, stage'[d] \in Serving, d \notin closed'
        PROVE  clients'[account'[d][1]] = d
    <3>1. CASE d = c
      BY <2>1, <2>2, <2>4, <3>1
    <3>2. CASE d # c
      <4>1. stage[d] \in Serving /\ d \notin closed
        BY <2>1, <2>3, <2>m, <2>8, <3>2
      <4>2. d # clients[me]
        BY <2>1, <2>8, DeletionAssumption DEF DeletionAssumption
      <4>3. clients[account[d][1]] = d
        BY <2>5, <4>1
      <4>. QED  BY <2>1, <2>4, <4>2, <4>3
    <3>. QED  BY <3>1, <3>2
  <2>9. ASSUME NEW d \in Conn, stage'[d] = "register" PROVE d \notin closed'
    <3>1. d # c /\ stage[d] = "register"
      BY <2>m, <2>9
    <3>2. d # clients[me]
      BY <2>2, <2>3, <2>5, <3>1, DeletionAssumption DEF DeletionAssumption
    <3>. QED  BY <2>1, <2>5, <3>1, <3>2
  <2>. QED  BY <2>7, <2>8, <2>9 DEF RegistryServes
<1>6. ASSUME NEW c \in Conn, ReadFails(c)
      PROVE  RegistryServes'
  BY <1>6 DEF ReadFails
<1>7. ASSUME NEW c \in Conn, Unregister(c)
      PROVE  RegistryServes'
  BY <1>7 DEF Unregister
<1>8. ASSUME NEW c \in Conn, LinkLost(c)
      PROVE  RegistryServes'
  BY <1>8 DEF LinkLost
<1>9. ASSUME NEW c \in Conn, ListPending(c)
      PROVE  RegistryServes'
  BY <1>9 DEF ListPending, Undelivered
<1>10. ASSUME NEW c \in Conn, NEW row \in queue[c], WritePending(c, row)
      PROVE  RegistryServes'
  BY <1>10 DEF WritePending, CanWrite, Writes
<1>11. ASSUME NEW c \in Conn, MarkPending(c)
      PROVE  RegistryServes'
  BY <1>11 DEF MarkPending, Marks, MarkedIds, PutDown
<1>12. ASSUME NEW c \in Conn, BootstrapDone(c)
      PROVE  RegistryServes'
  BY <1>12 DEF BootstrapDone
<1>13. ASSUME NEW c \in Conn, BootstrapFails(c)
      PROVE  RegistryServes'
  BY <1>13 DEF BootstrapFails, WriteMayFail
<1>14. ASSUME NEW c \in Conn, NEW i \in Id, FindAddressee(c, i)
      PROVE  RegistryServes'
  BY <1>14 DEF FindAddressee, HasPacket, AccountAt
<1>15. ASSUME NEW c \in Conn, NEW r \in RowId, SaveMessage(c, r)
      PROVE  RegistryServes'
  BY <1>15 DEF SaveMessage, IsNext
<1>16. ASSUME NEW c \in Conn, SendFails(c)
      PROVE  RegistryServes'
  BY <1>16 DEF SendFails
<1>17. ASSUME NEW c \in Conn, Lookup(c)
      PROVE  RegistryServes'
  <2>1. PICK s \in {"read", "push"} : stage' = [stage EXCEPT ![c] = s]
    BY <1>17 DEF Lookup, PutDown
  <2>2. stage[c] = "lookup" /\ UNCHANGED <<clients, closed, account>>
    BY <1>17 DEF Lookup
  <2>. QED  BY <2>1, <2>2
<1>18. ASSUME NEW c \in Conn, PushRow(c)
      PROVE  RegistryServes'
  BY <1>18 DEF PushRow, CanWrite, Writes
<1>19. ASSUME NEW c \in Conn, PushFails(c)
      PROVE  RegistryServes'
  BY <1>19 DEF PushFails, WriteMayFail, PutDown
<1>20. ASSUME NEW c \in Conn, MarkDelivered(c)
      PROVE  RegistryServes'
  BY <1>20 DEF MarkDelivered, Marks, MarkedIds, PutDown
<1>21. ASSUME NEW c \in Conn, MarkFails(c)
      PROVE  RegistryServes'
  BY <1>21 DEF MarkFails, PutDown
<1>22. CASE UNCHANGED deletionVars
  BY <1>22 DEF deletionVars
<1>23. ASSUME NEW c \in Conn, CloseConn(c)
      PROVE  RegistryServes'
  BY <1>23 DEF CloseConn
<1>24. ASSUME NEW c \in Conn, AreFriends(c)
      PROVE  RegistryServes'
  BY <1>24 DEF AreFriends
<1>. QED  BY <1>1, <1>2, <1>3, <1>4, <1>5, <1>6, <1>7, <1>8, <1>9, <1>10, <1>11, <1>12, <1>13, <1>14, <1>15, <1>16, <1>17, <1>18, <1>19, <1>20, <1>21, <1>22, <1>23, <1>24
       DEF DeletionNext, UserStep, ConnStep, BootstrapStep, DeliverStep

(* A row that is inserted is of a message_id that no row has; the older     *)
(* messages of that id are in the hands of handlers only.                   *)
LEMMA RowsNewestStep ==
    DeletionInv /\ [DeletionNext]_deletionVars => RowsNewest'
<1>. SUFFICES ASSUME DeletionInv, [DeletionNext]_deletionVars PROVE RowsNewest'
  OBVIOUS
<1>. USE DEF DeletionInv, DeletionTypeOK, HandlerHolds, RowsNewest, Stage, Serving, Reading, Delivering, userVars, rowVars, connVars, handVars, Goto
<1>1. ASSUME NEW i \in Id, CreateUser(i)
      PROVE  RowsNewest'
  BY <1>1, WrittenSame DEF CreateUser
<1>2. ASSUME NEW i \in Id, DeleteUser(i)
      PROVE  RowsNewest'
  BY <1>2, WrittenSame DEF DeleteUser, Remains
<1>3. ASSUME WipeAllData
      PROVE  RowsNewest'
  BY <1>3, WrittenSame DEF WipeAllData, Remains
<1>4. ASSUME NEW c \in Conn, NEW i \in Id, Authenticate(c, i)
      PROVE  RowsNewest'
  BY <1>4, WrittenSame DEF Authenticate, AccountAt
<1>5. ASSUME NEW c \in Conn, Register(c)
      PROVE  RowsNewest'
  BY <1>5, WrittenSame, RegisterMoves DEF Register
<1>6. ASSUME NEW c \in Conn, ReadFails(c)
      PROVE  RowsNewest'
  BY <1>6, WrittenSame DEF ReadFails
<1>7. ASSUME NEW c \in Conn, Unregister(c)
      PROVE  RowsNewest'
  BY <1>7, WrittenSame DEF Unregister
<1>8. ASSUME NEW c \in Conn, LinkLost(c)
      PROVE  RowsNewest'
  BY <1>8, WrittenSame DEF LinkLost
<1>9. ASSUME NEW c \in Conn, ListPending(c)
      PROVE  RowsNewest'
  BY <1>9, WrittenSame, RowParts DEF ListPending, Undelivered
<1>10. ASSUME NEW c \in Conn, NEW row \in queue[c], WritePending(c, row)
      PROVE  RowsNewest'
  <2>1. Written' = Written \cup {row.message}
    BY <1>10, WritesAdds DEF WritePending
  <2>. QED  BY <1>10, <2>1 DEF WritePending
<1>11. ASSUME NEW c \in Conn, MarkPending(c)
      PROVE  RowsNewest'
  BY <1>11, WrittenSame DEF MarkPending, Marks, MarkedIds, PutDown
<1>12. ASSUME NEW c \in Conn, BootstrapDone(c)
      PROVE  RowsNewest'
  BY <1>12, WrittenSame DEF BootstrapDone
<1>13. ASSUME NEW c \in Conn, BootstrapFails(c)
      PROVE  RowsNewest'
  BY <1>13, WrittenSame DEF BootstrapFails, WriteMayFail
<1>14. ASSUME NEW c \in Conn, NEW i \in Id, FindAddressee(c, i)
      PROVE  RowsNewest'
  BY <1>14, WrittenSame DEF FindAddressee, HasPacket, AccountAt
<1>15. ASSUME NEW c \in Conn, NEW r \in RowId, SaveMessage(c, r)
      PROVE  RowsNewest'
  <2>1. PICK new \in Row :
            /\ rows' = rows \cup {new} /\ work' = [work EXCEPT ![c] = new]
            /\ new.message[1] = r /\ new.message[2] = count[r] + 1
            /\ count[r] \in Nat /\ r \notin RowIds
            /\ count' = [count EXCEPT ![r] = count[r] + 1]
    BY <1>15, NewRow
  <2>2. Written' = Written
    BY <1>15, WrittenSame DEF SaveMessage
  <2>3. \A j \in RowId : count[j] \in Nat /\ count'[j] \in Nat /\ count[j] <= count'[j] /\ (j # r => count'[j] = count[j])
    BY <2>1, DeletionAssumption
  <2>4. ASSUME NEW row \in rows' PROVE row.message[2] = count'[row.message[1]]
    <3>1. CASE row = new
      BY <2>1, <3>1
    <3>2. CASE row \in rows
      <4>1. row.message[1] # r
        BY <2>1, <3>2 DEF RowIds
      <4>. QED  BY <2>3, <3>2, <4>1, RowParts
    <3>. QED  BY <2>1, <3>1, <3>2
  <2>5. ASSUME NEW row \in Row, row.message[2] <= count[row.message[1]]
        PROVE  row.message[2] <= count'[row.message[1]]
    <3>1. row.message[1] \in RowId /\ row.message[2] \in Int
      BY RowParts
    <3>. QED  BY <2>3, <2>5, <3>1
  <2>6. ASSUME NEW d \in Conn, stage'[d] \in {"confirm"} \cup Delivering
        PROVE  work'[d].message[2] <= count'[work'[d].message[1]]
    <3>1. CASE d = c
      BY <2>1, <3>1
    <3>2. CASE d # c
      <4>1. stage[d] \in {"confirm"} \cup Delivering /\ work'[d] = work[d]
        BY <1>15, <2>1, <2>6, <3>2 DEF SaveMessage
      <4>. QED  BY <2>5, <4>1
    <3>. QED  BY <3>1, <3>2
  <2>7. ASSUME NEW d \in Conn, stage'[d] \in {"confirm", "settle"}
        PROVE  work'[d].message \in Written'
    BY <1>15, <2>1, <2>2, <2>7 DEF SaveMessage
  <2>8. ASSUME NEW d \in Conn, NEW row \in queue'[d]
        PROVE  row.message[2] <= count'[row.message[1]]
    <3>1. row \in queue[d] /\ row \in Row
      BY <1>15, <2>8 DEF SaveMessage
    <3>. QED  BY <2>5, <3>1
  <2>. QED  BY <2>4, <2>6, <2>7, <2>8
<1>16. ASSUME NEW c \in Conn, SendFails(c)
      PROVE  RowsNewest'
  BY <1>16, WrittenSame DEF SendFails
<1>17. ASSUME NEW c \in Conn, Lookup(c)
      PROVE  RowsNewest'
  BY <1>17, WrittenSame DEF Lookup, Recipient, PutDown
<1>18. ASSUME NEW c \in Conn, PushRow(c)
      PROVE  RowsNewest'
  <2>1. target[c] \in Conn
    BY <1>18 DEF PushRow
  <2>2. Written' = Written \cup {work[c].message}
    BY <1>18, <2>1, WritesAdds DEF PushRow
  <2>. QED  BY <1>18, <2>2 DEF PushRow
<1>19. ASSUME NEW c \in Conn, PushFails(c)
      PROVE  RowsNewest'
  BY <1>19, WrittenSame DEF PushFails, WriteMayFail, PutDown
<1>20. ASSUME NEW c \in Conn, MarkDelivered(c)
      PROVE  RowsNewest'
  BY <1>20, WrittenSame DEF MarkDelivered, Marks, MarkedIds, PutDown
<1>21. ASSUME NEW c \in Conn, MarkFails(c)
      PROVE  RowsNewest'
  BY <1>21, WrittenSame DEF MarkFails, PutDown
<1>22. CASE UNCHANGED deletionVars
  BY <1>22 DEF deletionVars, Written
<1>23. ASSUME NEW c \in Conn, CloseConn(c)
      PROVE  RowsNewest'
  BY <1>23, WrittenSame DEF CloseConn
<1>24. ASSUME NEW c \in Conn, AreFriends(c)
      PROVE  RowsNewest'
  BY <1>24, WrittenSame DEF AreFriends
<1>. QED  BY <1>1, <1>2, <1>3, <1>4, <1>5, <1>6, <1>7, <1>8, <1>9, <1>10, <1>11, <1>12, <1>13, <1>14, <1>15, <1>16, <1>17, <1>18, <1>19, <1>20, <1>21, <1>22, <1>23, <1>24
       DEF DeletionNext, UserStep, ConnStep, BootstrapStep, DeliverStep

(* A mark hits the row that its handler has written, or none, or the row of *)
(* a later message.                                                         *)
LEMMA MarkedWasWrittenStep ==
    DeletionInv /\ [DeletionNext]_deletionVars => MarkedWasWritten'
<1>. SUFFICES ASSUME DeletionInv, [DeletionNext]_deletionVars PROVE MarkedWasWritten'
  OBVIOUS
<1>. USE DEF DeletionInv, DeletionTypeOK, HandlerHolds, RowsNewest, MarkedWasWritten, Delivering, userVars, rowVars, connVars, handVars, Goto
<1>1. ASSUME NEW i \in Id, CreateUser(i)
      PROVE  MarkedWasWritten'
  BY <1>1, WrittenSame DEF CreateUser
<1>2. ASSUME NEW i \in Id, DeleteUser(i)
      PROVE  MarkedWasWritten'
  BY <1>2, WrittenSame DEF DeleteUser, Remains
<1>3. ASSUME WipeAllData
      PROVE  MarkedWasWritten'
  BY <1>3, WrittenSame DEF WipeAllData, Remains
<1>4. ASSUME NEW c \in Conn, NEW i \in Id, Authenticate(c, i)
      PROVE  MarkedWasWritten'
  BY <1>4, WrittenSame DEF Authenticate, AccountAt
<1>5. ASSUME NEW c \in Conn, Register(c)
      PROVE  MarkedWasWritten'
  BY <1>5, WrittenSame, RegisterMoves DEF Register
<1>6. ASSUME NEW c \in Conn, ReadFails(c)
      PROVE  MarkedWasWritten'
  BY <1>6, WrittenSame DEF ReadFails
<1>7. ASSUME NEW c \in Conn, Unregister(c)
      PROVE  MarkedWasWritten'
  BY <1>7, WrittenSame DEF Unregister
<1>8. ASSUME NEW c \in Conn, LinkLost(c)
      PROVE  MarkedWasWritten'
  BY <1>8, WrittenSame DEF LinkLost
<1>9. ASSUME NEW c \in Conn, ListPending(c)
      PROVE  MarkedWasWritten'
  BY <1>9, WrittenSame DEF ListPending, Undelivered
<1>10. ASSUME NEW c \in Conn, NEW row \in queue[c], WritePending(c, row)
      PROVE  MarkedWasWritten'
  <2>1. Written' = Written \cup {row.message}
    BY <1>10, WritesAdds DEF WritePending
  <2>. QED  BY <1>10, <2>1 DEF WritePending
<1>11. ASSUME NEW c \in Conn, MarkPending(c)
      PROVE  MarkedWasWritten'
  <2>1. /\ work[c] \in Row /\ work[c].message \in Written
        /\ work[c].message[2] <= count[work[c].message[1]]
    BY <1>11 DEF MarkPending
  <2>2. /\ rows' = rows /\ marked' = marked \cup ({work[c].message[1]} \cap RowIds)
        /\ Written' = Written
    BY <1>11, WrittenSame DEF MarkPending, Marks, MarkedIds
  <2>3. ASSUME NEW row \in rows, row.message[1] = work[c].message[1], row.message[2] = 1
        PROVE  row.message = work[c].message
    <3>1. row.message \in Mail /\ work[c].message \in Mail
      BY <2>1, RowParts
    <3>2. count[row.message[1]] = 1
      BY <2>3
    <3>3. work[c].message[2] = 1
      BY <2>1, <2>3, <3>2, RowParts
    <3>. QED  BY <2>3, <3>1, <3>3 DEF Mail
  <2>. QED  BY <2>1, <2>2, <2>3
<1>12. ASSUME NEW c \in Conn, BootstrapDone(c)
      PROVE  MarkedWasWritten'
  BY <1>12, WrittenSame DEF BootstrapDone
<1>13. ASSUME NEW c \in Conn, BootstrapFails(c)
      PROVE  MarkedWasWritten'
  BY <1>13, WrittenSame DEF BootstrapFails, WriteMayFail
<1>14. ASSUME NEW c \in Conn, NEW i \in Id, FindAddressee(c, i)
      PROVE  MarkedWasWritten'
  BY <1>14, WrittenSame DEF FindAddressee, HasPacket, AccountAt
<1>15. ASSUME NEW c \in Conn, NEW r \in RowId, SaveMessage(c, r)
      PROVE  MarkedWasWritten'
  <2>1. PICK new \in Row :
            rows' = rows \cup {new} /\ new.message[1] = r /\ r \notin RowIds
    BY <1>15, NewRow
  <2>2. marked' = marked /\ Written' = Written
    BY <1>15, WrittenSame DEF SaveMessage
  <2>. QED  BY <2>1, <2>2
<1>16. ASSUME NEW c \in Conn, SendFails(c)
      PROVE  MarkedWasWritten'
  BY <1>16, WrittenSame DEF SendFails
<1>17. ASSUME NEW c \in Conn, Lookup(c)
      PROVE  MarkedWasWritten'
  BY <1>17, WrittenSame DEF Lookup, Recipient, PutDown
<1>18. ASSUME NEW c \in Conn, PushRow(c)
      PROVE  MarkedWasWritten'
  <2>1. target[c] \in Conn
    BY <1>18 DEF PushRow
  <2>2. Written' = Written \cup {work[c].message}
    BY <1>18, <2>1, WritesAdds DEF PushRow
  <2>. QED  BY <1>18, <2>2 DEF PushRow
<1>19. ASSUME NEW c \in Conn, PushFails(c)
      PROVE  MarkedWasWritten'
  BY <1>19, WrittenSame DEF PushFails, WriteMayFail, PutDown
<1>20. ASSUME NEW c \in Conn, MarkDelivered(c)
      PROVE  MarkedWasWritten'
  <2>1. /\ work[c] \in Row /\ work[c].message \in Written
        /\ work[c].message[2] <= count[work[c].message[1]]
    BY <1>20 DEF MarkDelivered
  <2>2. /\ rows' = rows /\ marked' = marked \cup ({work[c].message[1]} \cap RowIds)
        /\ Written' = Written
    BY <1>20, WrittenSame DEF MarkDelivered, Marks, MarkedIds
  <2>3. ASSUME NEW row \in rows, row.message[1] = work[c].message[1], row.message[2] = 1
        PROVE  row.message = work[c].message
    <3>1. row.message \in Mail /\ work[c].message \in Mail
      BY <2>1, RowParts
    <3>2. count[row.message[1]] = 1
      BY <2>3
    <3>3. work[c].message[2] = 1
      BY <2>1, <2>3, <3>2, RowParts
    <3>. QED  BY <2>3, <3>1, <3>3 DEF Mail
  <2>. QED  BY <2>1, <2>2, <2>3
<1>21. ASSUME NEW c \in Conn, MarkFails(c)
      PROVE  MarkedWasWritten'
  BY <1>21, WrittenSame DEF MarkFails, PutDown
<1>22. CASE UNCHANGED deletionVars
  BY <1>22 DEF deletionVars, Written
<1>23. ASSUME NEW c \in Conn, CloseConn(c)
      PROVE  MarkedWasWritten'
  BY <1>23, WrittenSame DEF CloseConn
<1>24. ASSUME NEW c \in Conn, AreFriends(c)
      PROVE  MarkedWasWritten'
  BY <1>24, WrittenSame DEF AreFriends
<1>. QED  BY <1>1, <1>2, <1>3, <1>4, <1>5, <1>6, <1>7, <1>8, <1>9, <1>10, <1>11, <1>12, <1>13, <1>14, <1>15, <1>16, <1>17, <1>18, <1>19, <1>20, <1>21, <1>22, <1>23, <1>24
       DEF DeletionNext, UserStep, ConnStep, BootstrapStep, DeliverStep

(* Rows and connections meet by the id that both had when they were met.    *)
LEMMA HeldForIdStep ==
    DeletionInv /\ [DeletionNext]_deletionVars => HeldForId'
<1>. SUFFICES ASSUME DeletionInv, [DeletionNext]_deletionVars PROVE HeldForId'
  OBVIOUS
<1>. USE DEF DeletionInv, DeletionTypeOK, HandlerHolds, RegistryServes, HeldForId, Stage, Serving, Reading, Delivering, userVars, rowVars, connVars, handVars, Goto
<1>1. ASSUME NEW i \in Id, CreateUser(i)
      PROVE  HeldForId'
  BY <1>1 DEF CreateUser
<1>2. ASSUME NEW i \in Id, DeleteUser(i)
      PROVE  HeldForId'
  BY <1>2 DEF DeleteUser, Remains
<1>3. ASSUME WipeAllData
      PROVE  HeldForId'
  BY <1>3 DEF WipeAllData, Remains
<1>4. ASSUME NEW c \in Conn, NEW i \in Id, Authenticate(c, i)
      PROVE  HeldForId'
  BY <1>4 DEF Authenticate, AccountAt
<1>5. ASSUME NEW c \in Conn, Register(c)
      PROVE  HeldForId'
  BY <1>5, RegisterMoves DEF Register
<1>6. ASSUME NEW c \in Conn, ReadFails(c)
      PROVE  HeldForId'
  BY <1>6 DEF ReadFails
<1>7. ASSUME NEW c \in Conn, Unregister(c)
      PROVE  HeldForId'
  BY <1>7 DEF Unregister
<1>8. ASSUME NEW c \in Conn, LinkLost(c)
      PROVE  HeldForId'
  BY <1>8 DEF LinkLost
<1>9. ASSUME NEW c \in Conn, ListPending(c)
      PROVE  HeldForId'
  BY <1>9 DEF ListPending, Undelivered
<1>10. ASSUME NEW c \in Conn, NEW row \in queue[c], WritePending(c, row)
      PROVE  HeldForId'
  BY <1>10 DEF WritePending, CanWrite, Writes
<1>11. ASSUME NEW c \in Conn, MarkPending(c)
      PROVE  HeldForId'
  BY <1>11 DEF MarkPending, Marks, MarkedIds, PutDown
<1>12. ASSUME NEW c \in Conn, BootstrapDone(c)
      PROVE  HeldForId'
  BY <1>12 DEF BootstrapDone
<1>13. ASSUME NEW c \in Conn, BootstrapFails(c)
      PROVE  HeldForId'
  BY <1>13 DEF BootstrapFails, WriteMayFail
<1>14. ASSUME NEW c \in Conn, NEW i \in Id, FindAddressee(c, i)
      PROVE  HeldForId'
  BY <1>14 DEF FindAddressee, HasPacket, AccountAt
<1>15. ASSUME NEW c \in Conn, NEW r \in RowId, SaveMessage(c, r)
      PROVE  HeldForId'
  BY <1>15 DEF SaveMessage, IsNext
<1>16. ASSUME NEW c \in Conn, SendFails(c)
      PROVE  HeldForId'
  BY <1>16 DEF SendFails
<1>17. ASSUME NEW c \in Conn, Lookup(c)
      PROVE  HeldForId'
  <2>1. stage[c] = "lookup" /\ stage' = [stage EXCEPT ![c] = stage'[c]]
    BY <1>17 DEF Lookup, PutDown
  <2>2. work[c].to[1] \in Id
    BY <2>1, RecipientType
  <2>3. CASE Recipient(c) = NoConn
    BY <1>17, <2>3 DEF Lookup, PutDown
  <2>4. CASE Recipient(c) # NoConn
    <3>1. /\ target' = [target EXCEPT ![c] = Recipient(c)]
          /\ stage' = [stage EXCEPT ![c] = "push"]
          /\ UNCHANGED <<work, queue, account, closed, written>>
      BY <1>17, <2>4 DEF Lookup
    <3>2. /\ Recipient(c) \in Conn \ closed /\ stage[Recipient(c)] \in Serving
          /\ account[Recipient(c)][1] = work[c].to[1]
      BY <2>2, <2>4 DEF Recipient
    <3>. QED  BY <3>1, <3>2
  <2>. QED  BY <2>3, <2>4
<1>18. ASSUME NEW c \in Conn, PushRow(c)
      PROVE  HeldForId'
  BY <1>18 DEF PushRow, CanWrite, Writes
<1>19. ASSUME NEW c \in Conn, PushFails(c)
      PROVE  HeldForId'
  BY <1>19 DEF PushFails, WriteMayFail, PutDown
<1>20. ASSUME NEW c \in Conn, MarkDelivered(c)
      PROVE  HeldForId'
  BY <1>20 DEF MarkDelivered, Marks, MarkedIds, PutDown
<1>21. ASSUME NEW c \in Conn, MarkFails(c)
      PROVE  HeldForId'
  BY <1>21 DEF MarkFails, PutDown
<1>22. CASE UNCHANGED deletionVars
  BY <1>22 DEF deletionVars
<1>23. ASSUME NEW c \in Conn, CloseConn(c)
      PROVE  HeldForId'
  BY <1>23 DEF CloseConn
<1>24. ASSUME NEW c \in Conn, AreFriends(c)
      PROVE  HeldForId'
  BY <1>24 DEF AreFriends
<1>. QED  BY <1>1, <1>2, <1>3, <1>4, <1>5, <1>6, <1>7, <1>8, <1>9, <1>10, <1>11, <1>12, <1>13, <1>14, <1>15, <1>16, <1>17, <1>18, <1>19, <1>20, <1>21, <1>22, <1>23, <1>24
       DEF DeletionNext, UserStep, ConnStep, BootstrapStep, DeliverStep

(* An id is given out to one life more; nothing else is ahead of it.        *)
LEMMA AccountsLivedStep ==
    DeletionInv /\ [DeletionNext]_deletionVars => AccountsLived'
<1>. SUFFICES ASSUME DeletionInv, [DeletionNext]_deletionVars PROVE AccountsLived'
  OBVIOUS
<1>. USE DEF DeletionInv, DeletionTypeOK, HandlerHolds, AccountsLived, HasLived, Id, Account, NoAccount, Row, Stage, Serving, Reading, Delivering, userVars, rowVars, connVars, handVars, Goto
<1>1. ASSUME NEW i \in Id, CreateUser(i)
      PROVE  AccountsLived'
  BY <1>1 DEF CreateUser
<1>2. ASSUME NEW i \in Id, DeleteUser(i)
      PROVE  AccountsLived'
  BY <1>2 DEF DeleteUser, Remains
<1>3. ASSUME WipeAllData
      PROVE  AccountsLived'
  BY <1>3 DEF WipeAllData, Remains
<1>4. ASSUME NEW c \in Conn, NEW i \in Id, Authenticate(c, i)
      PROVE  AccountsLived'
  BY <1>4 DEF Authenticate, AccountAt
<1>5. ASSUME NEW c \in Conn, Register(c)
      PROVE  AccountsLived'
  BY <1>5, RegisterMoves DEF Register
<1>6. ASSUME NEW c \in Conn, ReadFails(c)
      PROVE  AccountsLived'
  BY <1>6 DEF ReadFails
<1>7. ASSUME NEW c \in Conn, Unregister(c)
      PROVE  AccountsLived'
  BY <1>7 DEF Unregister
<1>8. ASSUME NEW c \in Conn, LinkLost(c)
      PROVE  AccountsLived'
  BY <1>8 DEF LinkLost
<1>9. ASSUME NEW c \in Conn, ListPending(c)
      PROVE  AccountsLived'
  BY <1>9 DEF ListPending, Undelivered
<1>10. ASSUME NEW c \in Conn, NEW row \in queue[c], WritePending(c, row)
      PROVE  AccountsLived'
  BY <1>10 DEF WritePending, CanWrite, Writes
<1>11. ASSUME NEW c \in Conn, MarkPending(c)
      PROVE  AccountsLived'
  BY <1>11 DEF MarkPending, Marks, MarkedIds, PutDown
<1>12. ASSUME NEW c \in Conn, BootstrapDone(c)
      PROVE  AccountsLived'
  BY <1>12 DEF BootstrapDone
<1>13. ASSUME NEW c \in Conn, BootstrapFails(c)
      PROVE  AccountsLived'
  BY <1>13 DEF BootstrapFails, WriteMayFail
<1>14. ASSUME NEW c \in Conn, NEW i \in Id, FindAddressee(c, i)
      PROVE  AccountsLived'
  BY <1>14 DEF FindAddressee, HasPacket, AccountAt
<1>15. ASSUME NEW c \in Conn, NEW r \in RowId, SaveMessage(c, r)
      PROVE  AccountsLived'
  <2>1. PICK new \in Row : rows' = rows \cup {new} /\ new.from = account[c]
    BY <1>15, NewRow
  <2>. QED  BY <1>15, <2>1 DEF SaveMessage
<1>16. ASSUME NEW c \in Conn, SendFails(c)
      PROVE  AccountsLived'
  BY <1>16 DEF SendFails
<1>17. ASSUME NEW c \in Conn, Lookup(c)
      PROVE  AccountsLived'
  BY <1>17 DEF Lookup, Recipient, PutDown
<1>18. ASSUME NEW c \in Conn, PushRow(c)
      PROVE  AccountsLived'
  BY <1>18 DEF PushRow, CanWrite, Writes
<1>19. ASSUME NEW c \in Conn, PushFails(c)
      PROVE  AccountsLived'
  BY <1>19 DEF PushFails, WriteMayFail, PutDown
<1>20. ASSUME NEW c \in Conn, MarkDelivered(c)
      PROVE  AccountsLived'
  BY <1>20 DEF MarkDelivered, Marks, MarkedIds, PutDown
<1>21. ASSUME NEW c \in Conn, MarkFails(c)
      PROVE  AccountsLived'
  BY <1>21 DEF MarkFails, PutDown
<1>22. CASE UNCHANGED deletionVars
  BY <1>22 DEF deletionVars
<1>23. ASSUME NEW c \in Conn, CloseConn(c)
      PROVE  AccountsLived'
  BY <1>23 DEF CloseConn
<1>24. ASSUME NEW c \in Conn, AreFriends(c)
      PROVE  AccountsLived'
  BY <1>24 DEF AreFriends
<1>. QED  BY <1>1, <1>2, <1>3, <1>4, <1>5, <1>6, <1>7, <1>8, <1>9, <1>10, <1>11, <1>12, <1>13, <1>14, <1>15, <1>16, <1>17, <1>18, <1>19, <1>20, <1>21, <1>22, <1>23, <1>24
       DEF DeletionNext, UserStep, ConnStep, BootstrapStep, DeliverStep

(* A message that no handler will take to a connection has been written, or *)
(* is on the list of its bootstrap.                                         *)
LEMMA NoneMissedStep ==
    DeletionInv /\ [DeletionNext]_deletionVars => NoneMissed'
<1>. SUFFICES ASSUME DeletionInv, [DeletionNext]_deletionVars PROVE NoneMissed'
  OBVIOUS
<1>. USE DEF DeletionInv, DeletionTypeOK, HandlerHolds, NoneMissed, Awaited, OnItsWay, Living, Stage, Serving, Reading, Delivering, userVars, rowVars, connVars, handVars, Goto
<1>1. ASSUME NEW i \in Id, CreateUser(i)
      PROVE  NoneMissed'
  <2>0. Written' = Written /\ rows' = rows
    BY <1>1, WrittenSame DEF CreateUser
  <2>1. ASSUME NEW d \in Conn, NEW row \in rows, Awaited(row, d)' PROVE Awaited(row, d)
    <3>1. row.from \in Account /\ row.from[1] \in Id /\ row.from[2] <= life[row.from[1]]
      BY RowParts DEF AccountsLived, HasLived
    <3>2. row.from[1] # i
      BY <1>1, <2>1, <3>1, RowParts DEF CreateUser
    <3>. QED  BY <1>1, <2>0, <2>1, <3>1, <3>2 DEF CreateUser
  <2>. QED  BY <1>1, <2>0, <2>1 DEF CreateUser
<1>2. ASSUME NEW i \in Id, DeleteUser(i)
      PROVE  NoneMissed'
  <2>0. Written' = Written
    BY <1>2, WrittenSame DEF DeleteUser, Remains
  <2>. SUFFICES ASSUME NEW d \in Conn, NEW row \in rows', Awaited(row, d)'
                PROVE  OnItsWay(row, d)' \/ row \in queue'[d]
    OBVIOUS
  <2>1. row \in rows /\ Awaited(row, d)
    BY <1>2, <2>0 DEF DeleteUser, Remains
  <2>2. OnItsWay(row, d) \/ row \in queue[d]
    BY <2>1
  <2>3. ASSUME OnItsWay(row, d) PROVE OnItsWay(row, d)'
    BY <1>2, <2>3 DEF DeleteUser, Remains
  <2>4. ASSUME row \in queue[d] PROVE row \in queue'[d]
    BY <1>2, <2>1, <2>4 DEF DeleteUser, Remains
  <2>. QED  BY <2>2, <2>3, <2>4
<1>3. ASSUME WipeAllData
      PROVE  NoneMissed'
  <2>0. Written' = Written
    BY <1>3, WrittenSame DEF WipeAllData, Remains
  <2>. SUFFICES ASSUME NEW d \in Conn, NEW row \in rows', Awaited(row, d)'
                PROVE  OnItsWay(row, d)' \/ row \in queue'[d]
    OBVIOUS
  <2>1. row \in rows /\ Awaited(row, d)
    BY <1>3, <2>0 DEF WipeAllData, Remains
  <2>2. OnItsWay(row, d) \/ row \in queue[d]
    BY <2>1
  <2>3. ASSUME OnItsWay(row, d) PROVE OnItsWay(row, d)'
    BY <1>3, <2>3 DEF WipeAllData, Remains
  <2>4. ASSUME row \in queue[d] PROVE row \in queue'[d]
    BY <1>3, <2>1, <2>4 DEF WipeAllData, Remains
  <2>. QED  BY <2>2, <2>3, <2>4
<1>4. ASSUME NEW c \in Conn, NEW i \in Id, Authenticate(c, i)
      PROVE  NoneMissed'
  <2>0. Written' = Written
    BY <1>4, WrittenSame DEF Authenticate, AccountAt
  <2>. SUFFICES ASSUME NEW d \in Conn, NEW row \in rows', Awaited(row, d)'
                PROVE  OnItsWay(row, d)' \/ row \in queue'[d]
    OBVIOUS
  <2>1. row \in rows /\ Awaited(row, d)
    BY <1>4, <2>0 DEF Authenticate, AccountAt
  <2>2. OnItsWay(row, d) \/ row \in queue[d]
    BY <2>1
  <2>3. ASSUME OnItsWay(row, d) PROVE OnItsWay(row, d)'
    BY <1>4, <2>3 DEF Authenticate, AccountAt
  <2>4. ASSUME row \in queue[d] PROVE row \in queue'[d]
    BY <1>4, <2>1, <2>4 DEF Authenticate, AccountAt
  <2>. QED  BY <2>2, <2>3, <2>4
<1>5. ASSUME NEW c \in Conn, Register(c)
      PROVE  NoneMissed'
  <2>0. Written' = Written
    BY <1>5, WrittenSame, RegisterMoves DEF Register
  <2>. SUFFICES ASSUME NEW d \in Conn, NEW row \in rows', Awaited(row, d)'
                PROVE  OnItsWay(row, d)' \/ row \in queue'[d]
    OBVIOUS
  <2>1. row \in rows /\ Awaited(row, d)
    BY <1>5, <2>0, RegisterMoves DEF Register
  <2>2. OnItsWay(row, d) \/ row \in queue[d]
    BY <2>1
  <2>3. ASSUME OnItsWay(row, d) PROVE OnItsWay(row, d)'
    BY <1>5, <2>3, RegisterMoves DEF Register
  <2>4. ASSUME row \in queue[d] PROVE row \in queue'[d]
    BY <1>5, <2>1, <2>4, RegisterMoves DEF Register
  <2>. QED  BY <2>2, <2>3, <2>4
<1>6. ASSUME NEW c \in Conn, ReadFails(c)
      PROVE  NoneMissed'
  <2>0. Written' = Written
    BY <1>6, WrittenSame DEF ReadFails
  <2>. SUFFICES ASSUME NEW d \in Conn, NEW row \in rows', Awaited(row, d)'
                PROVE  OnItsWay(row, d)' \/ row \in queue'[d]
    OBVIOUS
  <2>1. row \in rows /\ Awaited(row, d)
    BY <1>6, <2>0 DEF ReadFails
  <2>2. OnItsWay(row, d) \/ row \in queue[d]
    BY <2>1
  <2>3. ASSUME OnItsWay(row, d) PROVE OnItsWay(row, d)'
    BY <1>6, <2>3 DEF ReadFails
  <2>4. ASSUME row \in queue[d] PROVE row \in queue'[d]
    BY <1>6, <2>1, <2>4 DEF ReadFails
  <2>. QED  BY <2>2, <2>3, <2>4
<1>7. ASSUME NEW c \in Conn, Unregister(c)
      PROVE  NoneMissed'
  <2>0. Written' = Written
    BY <1>7, WrittenSame DEF Unregister
  <2>. SUFFICES ASSUME NEW d \in Conn, NEW row \in rows', Awaited(row, d)'
                PROVE  OnItsWay(row, d)' \/ row \in queue'[d]
    OBVIOUS
  <2>1. row \in rows /\ Awaited(row, d)
    BY <1>7, <2>0 DEF Unregister
  <2>2. OnItsWay(row, d) \/ row \in queue[d]
    BY <2>1
  <2>3. ASSUME OnItsWay(row, d) PROVE OnItsWay(row, d)'
    BY <1>7, <2>3 DEF Unregister
  <2>4. ASSUME row \in queue[d] PROVE row \in queue'[d]
    BY <1>7, <2>1, <2>4 DEF Unregister
  <2>. QED  BY <2>2, <2>3, <2>4
<1>8. ASSUME NEW c \in Conn, LinkLost(c)
      PROVE  NoneMissed'
  <2>0. Written' = Written
    BY <1>8, WrittenSame DEF LinkLost
  <2>. SUFFICES ASSUME NEW d \in Conn, NEW row \in rows', Awaited(row, d)'
                PROVE  OnItsWay(row, d)' \/ row \in queue'[d]
    OBVIOUS
  <2>1. row \in rows /\ Awaited(row, d)
    BY <1>8, <2>0 DEF LinkLost
  <2>2. OnItsWay(row, d) \/ row \in queue[d]
    BY <2>1
  <2>3. ASSUME OnItsWay(row, d) PROVE OnItsWay(row, d)'
    BY <1>8, <2>3 DEF LinkLost
  <2>4. ASSUME row \in queue[d] PROVE row \in queue'[d]
    BY <1>8, <2>1, <2>4 DEF LinkLost
  <2>. QED  BY <2>2, <2>3, <2>4
<1>9. ASSUME NEW c \in Conn, ListPending(c)
      PROVE  NoneMissed'
  <2>0. Written' = Written
    BY <1>9, WrittenSame DEF ListPending
  <2>. SUFFICES ASSUME NEW d \in Conn, NEW row \in rows', Awaited(row, d)'
                PROVE  OnItsWay(row, d)' \/ row \in queue'[d]
    OBVIOUS
  <2>1. row \in rows
    BY <1>9 DEF ListPending
  <2>2. CASE d = c
    <3>1. /\ row.to[1] = account[c][1] /\ row.from[1] \in existing
          /\ row.message[2] = 1 /\ row.message \notin Written
      BY <1>9, <2>0, <2>2 DEF ListPending
    <3>2. row.message[1] \notin marked
      BY <2>1, <3>1 DEF MarkedWasWritten
    <3>. QED  BY <1>9, <2>1, <2>2, <3>1, <3>2 DEF ListPending, Undelivered
  <2>3. CASE d # c
    <3>1. Awaited(row, d)
      BY <1>9, <2>0, <2>3 DEF ListPending
    <3>2. OnItsWay(row, d) => OnItsWay(row, d)'
      BY <1>9 DEF ListPending
    <3>. QED  BY <1>9, <2>1, <2>3, <3>1, <3>2 DEF ListPending
  <2>. QED  BY <2>2, <2>3
<1>10. ASSUME NEW c \in Conn, NEW row \in queue[c], WritePending(c, row)
      PROVE  NoneMissed'
  <2>. DEFINE sent == row
  <2>0. Written' = Written \cup {sent.message}
    BY <1>10, WritesAdds DEF WritePending
  <2>. SUFFICES ASSUME NEW d \in Conn, NEW other \in rows', Awaited(other, d)'
                PROVE  OnItsWay(other, d)' \/ other \in queue'[d]
    OBVIOUS
  <2>1. other \in rows /\ Awaited(other, d) /\ other # sent
    BY <1>10, <2>0 DEF WritePending
  <2>2. OnItsWay(other, d) => OnItsWay(other, d)'
    BY <1>10 DEF WritePending
  <2>3. other \in queue[d] => other \in queue'[d]
    BY <1>10, <2>1 DEF WritePending
  <2>. QED  BY <2>1, <2>2, <2>3
<1>11. ASSUME NEW c \in Conn, MarkPending(c)
      PROVE  NoneMissed'
  <2>0. Written' = Written
    BY <1>11, WrittenSame DEF MarkPending, Marks, PutDown
  <2>. SUFFICES ASSUME NEW d \in Conn, NEW row \in rows', Awaited(row, d)'
                PROVE  OnItsWay(row, d)' \/ row \in queue'[d]
    OBVIOUS
  <2>1. row \in rows /\ Awaited(row, d)
    BY <1>11, <2>0 DEF MarkPending, Marks, PutDown
  <2>2. OnItsWay(row, d) \/ row \in queue[d]
    BY <2>1
  <2>3. ASSUME OnItsWay(row, d) PROVE OnItsWay(row, d)'
    BY <1>11, <2>3 DEF MarkPending, Marks, PutDown
  <2>4. ASSUME row \in queue[d] PROVE row \in queue'[d]
    BY <1>11, <2>1, <2>4 DEF MarkPending, Marks, PutDown
  <2>. QED  BY <2>2, <2>3, <2>4
<1>12. ASSUME NEW c \in Conn, BootstrapDone(c)
      PROVE  NoneMissed'
  <2>0. Written' = Written
    BY <1>12, WrittenSame DEF BootstrapDone
  <2>. SUFFICES ASSUME NEW d \in Conn, NEW row \in rows', Awaited(row, d)'
                PROVE  OnItsWay(row, d)' \/ row \in queue'[d]
    OBVIOUS
  <2>1. row \in rows /\ Awaited(row, d)
    BY <1>12, <2>0 DEF BootstrapDone
  <2>2. OnItsWay(row, d) \/ row \in queue[d]
    BY <2>1
  <2>3. ASSUME OnItsWay(row, d) PROVE OnItsWay(row, d)'
    BY <1>12, <2>3 DEF BootstrapDone
  <2>4. ASSUME row \in queue[d] PROVE row \in queue'[d]
    BY <1>12, <2>1, <2>4 DEF BootstrapDone
  <2>. QED  BY <2>2, <2>3, <2>4
<1>13. ASSUME NEW c \in Conn, BootstrapFails(c)
      PROVE  NoneMissed'
  <2>0. Written' = Written
    BY <1>13, WrittenSame DEF BootstrapFails, WriteMayFail
  <2>. SUFFICES ASSUME NEW d \in Conn, NEW row \in rows', Awaited(row, d)'
                PROVE  OnItsWay(row, d)' \/ row \in queue'[d]
    OBVIOUS
  <2>1. row \in rows /\ Awaited(row, d)
    BY <1>13, <2>0 DEF BootstrapFails, WriteMayFail
  <2>2. OnItsWay(row, d) \/ row \in queue[d]
    BY <2>1
  <2>3. ASSUME OnItsWay(row, d) PROVE OnItsWay(row, d)'
    BY <1>13, <2>3 DEF BootstrapFails, WriteMayFail
  <2>4. ASSUME row \in queue[d] PROVE row \in queue'[d]
    BY <1>13, <2>1, <2>4 DEF BootstrapFails, WriteMayFail
  <2>. QED  BY <2>2, <2>3, <2>4
<1>14. ASSUME NEW c \in Conn, NEW i \in Id, FindAddressee(c, i)
      PROVE  NoneMissed'
  <2>0. Written' = Written
    BY <1>14, WrittenSame DEF FindAddressee, HasPacket, AccountAt
  <2>. SUFFICES ASSUME NEW d \in Conn, NEW row \in rows', Awaited(row, d)'
                PROVE  OnItsWay(row, d)' \/ row \in queue'[d]
    OBVIOUS
  <2>1. row \in rows /\ Awaited(row, d)
    BY <1>14, <2>0 DEF FindAddressee, HasPacket, AccountAt
  <2>2. OnItsWay(row, d) \/ row \in queue[d]
    BY <2>1
  <2>3. ASSUME OnItsWay(row, d) PROVE OnItsWay(row, d)'
    BY <1>14, <2>3 DEF FindAddressee, HasPacket, AccountAt
  <2>4. ASSUME row \in queue[d] PROVE row \in queue'[d]
    BY <1>14, <2>1, <2>4 DEF FindAddressee, HasPacket, AccountAt
  <2>. QED  BY <2>2, <2>3, <2>4
<1>15. ASSUME NEW c \in Conn, NEW r \in RowId, SaveMessage(c, r)
      PROVE  NoneMissed'
  <2>0. Written' = Written
    BY <1>15, WrittenSame DEF SaveMessage
  <2>. SUFFICES ASSUME NEW d \in Conn, NEW row \in rows', Awaited(row, d)'
                PROVE  OnItsWay(row, d)' \/ row \in queue'[d]
    OBVIOUS
  <2>1. PICK new \in Row :
            rows' = rows \cup {new} /\ work' = [work EXCEPT ![c] = new]
    BY <1>15, NewRow
  <2>2. CASE row = new
    <3>1. work'[c] = row /\ stage'[c] = "lookup"
      BY <1>15, <2>1, <2>2 DEF SaveMessage
    <3>. QED  BY <3>1
  <2>3. CASE row \in rows
    <3>1. Awaited(row, d)
      BY <1>15, <2>0 DEF SaveMessage
    <3>2. OnItsWay(row, d) => OnItsWay(row, d)'
      BY <1>15, <2>1 DEF SaveMessage
    <3>. QED  BY <1>15, <2>3, <3>1, <3>2 DEF SaveMessage
  <2>. QED  BY <2>1, <2>2, <2>3
<1>16. ASSUME NEW c \in Conn, SendFails(c)
      PROVE  NoneMissed'
  <2>0. Written' = Written
    BY <1>16, WrittenSame DEF SendFails
  <2>. SUFFICES ASSUME NEW d \in Conn, NEW row \in rows', Awaited(row, d)'
                PROVE  OnItsWay(row, d)' \/ row \in queue'[d]
    OBVIOUS
  <2>1. row \in rows /\ Awaited(row, d)
    BY <1>16, <2>0 DEF SendFails
  <2>2. OnItsWay(row, d) \/ row \in queue[d]
    BY <2>1
  <2>3. ASSUME OnItsWay(row, d) PROVE OnItsWay(row, d)'
    BY <1>16, <2>3 DEF SendFails
  <2>4. ASSUME row \in queue[d] PROVE row \in queue'[d]
    BY <1>16, <2>1, <2>4 DEF SendFails
  <2>. QED  BY <2>2, <2>3, <2>4
<1>17. ASSUME NEW c \in Conn, Lookup(c)
      PROVE  NoneMissed'
  <2>0. Written' = Written
    BY <1>17, WrittenSame DEF Lookup, PutDown
  <2>. SUFFICES ASSUME NEW d \in Conn, NEW row \in rows', Awaited(row, d)'
                PROVE  OnItsWay(row, d)' \/ row \in queue'[d]
    OBVIOUS
  <2>1. row \in rows /\ Awaited(row, d)
    BY <1>17, <2>0 DEF Lookup, PutDown
  <2>2. queue' = queue /\ (OnItsWay(row, d) \/ row \in queue[d])
    BY <1>17, <2>1 DEF Lookup, PutDown
  <2>3. clients[account[d][1]] = d /\ d # NoConn
    BY <2>1, DeletionAssumption DEF RegistryServes, DeletionAssumption
  <2>4. ASSUME NEW e \in Conn, work[e] = row,
               stage[e] = "lookup" \/ (stage[e] = "push" /\ target[e] = d)
        PROVE  OnItsWay(row, d)'
    <3>1. CASE e = c
      <4>1. Recipient(c) = d
        BY <2>1, <2>3, <2>4, <3>1 DEF Recipient
      <4>2. work'[c] = row /\ stage'[c] = "push" /\ target'[c] = d
        BY <1>17, <2>3, <2>4, <3>1, <4>1 DEF Lookup
      <4>. QED  BY <4>2
    <3>2. CASE e # c
      <4>1. work'[e] = work[e] /\ stage'[e] = stage[e] /\ target'[e] = target[e]
        BY <1>17, <3>2 DEF Lookup, PutDown
      <4>. QED  BY <2>4, <4>1
    <3>. QED  BY <3>1, <3>2
  <2>5. OnItsWay(row, d) => OnItsWay(row, d)'
    <3>. SUFFICES ASSUME OnItsWay(row, d) PROVE OnItsWay(row, d)'
      OBVIOUS
    <3>. PICK e \in Conn : work[e] = row /\ (stage[e] = "lookup" \/ (stage[e] = "push" /\ target[e] = d))
      BY DEF OnItsWay
    <3>. QED  BY <2>4
  <2>. QED  BY <2>2, <2>5
<1>18. ASSUME NEW c \in Conn, PushRow(c)
      PROVE  NoneMissed'
  <2>0. Written' = Written \cup {work[c].message}
    BY <1>18, WritesAdds DEF PushRow
  <2>. SUFFICES ASSUME NEW d \in Conn, NEW row \in rows', Awaited(row, d)'
                PROVE  OnItsWay(row, d)' \/ row \in queue'[d]
    OBVIOUS
  <2>1. row \in rows /\ Awaited(row, d) /\ row # work[c]
    BY <1>18, <2>0 DEF PushRow
  <2>2. OnItsWay(row, d) => OnItsWay(row, d)'
    BY <1>18, <2>1 DEF PushRow
  <2>. QED  BY <1>18, <2>1, <2>2 DEF PushRow
<1>19. ASSUME NEW c \in Conn, PushFails(c)
      PROVE  NoneMissed'
  <2>0. Written' = Written
    BY <1>19, WrittenSame DEF PushFails, PutDown
  <2>. SUFFICES ASSUME NEW d \in Conn, NEW row \in rows', Awaited(row, d)'
                PROVE  OnItsWay(row, d)' \/ row \in queue'[d]
    OBVIOUS
  <2>1. row \in rows /\ Awaited(row, d)
    BY <1>19, <2>0 DEF PushFails, PutDown
  <2>2. target[c] # d
    BY <1>19, <2>1 DEF PushFails, WriteMayFail
  <2>3. OnItsWay(row, d) => OnItsWay(row, d)'
    BY <1>19, <2>2 DEF PushFails, PutDown
  <2>. QED  BY <1>19, <2>1, <2>3 DEF PushFails, PutDown
<1>20. ASSUME NEW c \in Conn, MarkDelivered(c)
      PROVE  NoneMissed'
  <2>0. Written' = Written
    BY <1>20, WrittenSame DEF MarkDelivered, Marks, PutDown
  <2>. SUFFICES ASSUME NEW d \in Conn, NEW row \in rows', Awaited(row, d)'
                PROVE  OnItsWay(row, d)' \/ row \in queue'[d]
    OBVIOUS
  <2>1. row \in rows /\ Awaited(row, d)
    BY <1>20, <2>0 DEF MarkDelivered, Marks, PutDown
  <2>2. OnItsWay(row, d) \/ row \in queue[d]
    BY <2>1
  <2>3. ASSUME OnItsWay(row, d) PROVE OnItsWay(row, d)'
    BY <1>20, <2>3 DEF MarkDelivered, Marks, PutDown
  <2>4. ASSUME row \in queue[d] PROVE row \in queue'[d]
    BY <1>20, <2>1, <2>4 DEF MarkDelivered, Marks, PutDown
  <2>. QED  BY <2>2, <2>3, <2>4
<1>21. ASSUME NEW c \in Conn, MarkFails(c)
      PROVE  NoneMissed'
  <2>0. Written' = Written
    BY <1>21, WrittenSame DEF MarkFails, PutDown
  <2>. SUFFICES ASSUME NEW d \in Conn, NEW row \in rows', Awaited(row, d)'
                PROVE  OnItsWay(row, d)' \/ row \in queue'[d]
    OBVIOUS
  <2>1. row \in rows /\ Awaited(row, d)
    BY <1>21, <2>0 DEF MarkFails, PutDown
  <2>2. OnItsWay(row, d) \/ row \in queue[d]
    BY <2>1
  <2>3. ASSUME OnItsWay(row, d) PROVE OnItsWay(row, d)'
    BY <1>21, <2>3 DEF MarkFails, PutDown
  <2>4. ASSUME row \in queue[d] PROVE row \in queue'[d]
    BY <1>21, <2>1, <2>4 DEF MarkFails, PutDown
  <2>. QED  BY <2>2, <2>3, <2>4
<1>22. CASE UNCHANGED deletionVars
  BY <1>22 DEF deletionVars, Written
<1>23. ASSUME NEW c \in Conn, CloseConn(c)
      PROVE  NoneMissed'
  <2>0. Written' = Written
    BY <1>23, WrittenSame DEF CloseConn
  <2>. SUFFICES ASSUME NEW d \in Conn, NEW row \in rows', Awaited(row, d)'
                PROVE  OnItsWay(row, d)' \/ row \in queue'[d]
    OBVIOUS
  <2>1. row \in rows /\ Awaited(row, d)
    BY <1>23, <2>0 DEF CloseConn
  <2>2. OnItsWay(row, d) \/ row \in queue[d]
    BY <2>1
  <2>3. ASSUME OnItsWay(row, d) PROVE OnItsWay(row, d)'
    BY <1>23, <2>3 DEF CloseConn
  <2>4. ASSUME row \in queue[d] PROVE row \in queue'[d]
    BY <1>23, <2>1, <2>4 DEF CloseConn
  <2>. QED  BY <2>2, <2>3, <2>4
<1>24. ASSUME NEW c \in Conn, AreFriends(c)
      PROVE  NoneMissed'
  <2>0. Written' = Written
    BY <1>24, WrittenSame DEF AreFriends
  <2>. SUFFICES ASSUME NEW d \in Conn, NEW row \in rows', Awaited(row, d)'
                PROVE  OnItsWay(row, d)' \/ row \in queue'[d]
    OBVIOUS
  <2>1. row \in rows /\ Awaited(row, d)
    BY <1>24, <2>0 DEF AreFriends
  <2>2. OnItsWay(row, d) \/ row \in queue[d]
    BY <2>1
  <2>3. ASSUME OnItsWay(row, d) PROVE OnItsWay(row, d)'
    BY <1>24, <2>3 DEF AreFriends
  <2>4. ASSUME row \in queue[d] PROVE row \in queue'[d]
    BY <1>24, <2>1, <2>4 DEF AreFriends
  <2>. QED  BY <2>2, <2>3, <2>4
<1>. QED  BY <1>1, <1>2, <1>3, <1>4, <1>5, <1>6, <1>7, <1>8, <1>9, <1>10, <1>11, <1>12, <1>13, <1>14, <1>15, <1>16, <1>17, <1>18, <1>19, <1>20, <1>21, <1>22, <1>23, <1>24
       DEF DeletionNext, UserStep, ConnStep, BootstrapStep, DeliverStep

-----------------------------------------------------------------------------
(* What is known of handlers, ids and message_ids is inductive: types, who   *)
(* is in the registry, what rows and handlers have to do with each other.    *)
THEOREM DeletionInvariant == DeletionSpec => []DeletionInv
<1>1. DeletionInit => DeletionInv
  <2>. SUFFICES ASSUME DeletionInit PROVE DeletionInv
    OBVIOUS
  <2>. USE DEF DeletionInit
  <2>1. DeletionTypeOK
    BY DeletionAssumption DEF DeletionTypeOK, DeletionAssumption, Id, RowId, RowIds, Stage
  <2>2. HandlerHolds
    BY DEF HandlerHolds, Delivering
  <2>3. AccountsLived /\ HeldForId
    BY DEF AccountsLived, HeldForId
  <2>4. RegistryServes
    BY DeletionAssumption DEF RegistryServes, DeletionAssumption, Serving, Reading, Delivering
  <2>5. RowsNewest /\ MarkedWasWritten /\ NoneMissed
    BY DEF RowsNewest, Delivering, MarkedWasWritten, NoneMissed
  <2>. QED  BY <2>1, <2>2, <2>3, <2>4, <2>5 DEF DeletionInv
<1>2. DeletionInv /\ [DeletionNext]_deletionVars => DeletionInv'
  BY DeletionTypesStep, HandlerHoldsStep, AccountsLivedStep, RegistryServesStep,
     RowsNewestStep, MarkedWasWrittenStep, HeldForIdStep, NoneMissedStep DEF DeletionInv
<1>. QED  BY <1>1, <1>2, PTL DEF DeletionSpec

(* The types of what messages, accounts and handlers are made of. *)
THEOREM DeletionTypeCorrect == DeletionSpec => []DeletionTypeOK
BY DeletionInvariant, PTL DEF DeletionInv

(* A row is marked delivered after a write only, if its message_id is new:  *)
(* no deletion of users between the two can mislead a handler about it.     *)
THEOREM MarkedUnlessReused == DeletionSpec => []MarkedWasWritten
BY DeletionInvariant, PTL DEF DeletionInv

(* No message is stranded between push and bootstrap (hub.go), whoever is   *)
(* deleted and whichever ids are given out again meanwhile.                 *)
THEOREM DeletionStrandsNone == DeletionSpec => []NoneStranded
<1>1. DeletionInv => NoneStranded
  <2>. SUFFICES ASSUME DeletionInv, NEW c \in Conn, NEW row \in rows,
                       stage[c] \in Reading, c \notin closed \cup lost,
                       row.to[1] = account[c][1], Living(row.from),
                       row.message[2] = 1, row.message \notin Written
                PROVE  OnItsWay(row, c)
    BY DEF NoneStranded
  <2>1. queue[c] = {}
    BY DEF DeletionInv, HandlerHolds, Reading, Delivering
  <2>2. OnItsWay(row, c) \/ row \in queue[c]
    BY DEF DeletionInv, NoneMissed, Awaited
  <2>. QED  BY <2>1, <2>2
<1>. QED  BY <1>1, DeletionInvariant, PTL

(* A message reaches another account than its addressee's only through an   *)
(* id that one of them had and lost (deliver, sendBootstrap).               *)
THEOREM ReachesAddressee == DeletionSpec => []ReadByAddressee
<1>1. DeletionInv => ReadByAddressee
  <2>. SUFFICES ASSUME DeletionInv, NEW w \in written, Living(w[2]), Living(w[3])
                PROVE  w[2] = w[3]
    BY DEF ReadByAddressee
  <2>1. w[2] \in Account /\ w[3] \in Account
    BY DEF DeletionInv, DeletionTypeOK
  <2>2. w[2][1] = w[3][1]
    BY DEF DeletionInv, HeldForId
  <2>3. w[2][2] = w[3][2]
    BY <2>2 DEF Living
  <2>. QED  BY <2>1, <2>2, <2>3 DEF Account
<1>. QED  BY <1>1, DeletionInvariant, PTL

=============================================================================
