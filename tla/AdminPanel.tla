----------------------------- MODULE AdminPanel -----------------------------
(***************************************************************************)
(* The administrator's panel of the client (tui/admin_panel.go), with the  *)
(* requests that client/admin.go makes for it and what else may happen to  *)
(* the users meanwhile.                                                    *)
(*                                                                         *)
(* A command makes its request in a goroutine of its own: it reads or      *)
(* changes the table at one time, and its message reaches Update at        *)
(* another, behind the messages of later commands if need be, or when a    *)
(* new panel has been opened, or none is.  What the log toggles do on the  *)
(* server is in Startup.                                                   *)
(***************************************************************************)
EXTENDS Integers, Sequences, FiniteSets

CONSTANTS
    Users,      \* usernames, as numbers in their order
    Self,       \* username of the panel
    None,       \* no name
    Slots       \* bound: commands under way at once

ASSUME PanelAssumption ==
    Users \subseteq Int /\ IsFiniteSet(Users) /\ Self \in Users /\ None \notin Users

VARIABLES
    accounts,       \* the users table
    open,           \* the panel is on the screen
    panelTab, loading, users, userIdx, pendingDelete,   \* adminPanelModel
    command         \* commands under way, each with what it has learnt

panelVars == <<accounts, open, panelTab, loading, users, userIdx, pendingDelete, command>>
viewState == <<panelTab, loading, users, userIdx, pendingDelete>>

-----------------------------------------------------------------------------
PanelTab == {"dashboard", "users", "logs", "wipe"}

\* ORDER BY username.
Sorted(S) ==
    CHOOSE s \in [1 .. Cardinality(S) -> S] : \A i, j \in DOMAIN s : i < j => s[i] < s[j]

\* A command to run, and its message: the data of a refresh, or how an action ended.
Command(kind, name, list) == [kind |-> kind, name |-> name, list |-> list]
Idle    == Command("idle", None, <<>>)
Refresh == Command("refresh", None, <<>>)
Done    == Command("done", None, <<>>)
Failed  == Command("failed", None, <<>>)

Issue(c) ==
    \E i \in Slots :
        /\ command[i] = Idle
        /\ command' = [command EXCEPT ![i] = c]

PanelInit ==
    /\ accounts = Users /\ open = FALSE
    /\ panelTab = "dashboard" /\ loading = FALSE /\ users = <<>>
    /\ userIdx = 0 /\ pendingDelete = None
    /\ command = [i \in Slots |-> Idle]

-----------------------------------------------------------------------------
(* Requests, on the server *)

\* Dashboard, then ListUsers.
RefreshRuns(i) ==
    /\ command[i] = Refresh /\ Self \in accounts
    /\ command' = [command EXCEPT ![i] = Command("data", None, Sorted(accounts))]
    /\ UNCHANGED <<accounts, open, viewState>>

DeleteRuns(i) ==
    /\ command[i].kind = "delete"
    /\ {command[i].name, Self} \subseteq accounts
    /\ accounts' = accounts \ {command[i].name}
    /\ command' = [command EXCEPT ![i] = Done]
    /\ UNCHANGED <<open, viewState>>

WipeRuns(i) ==
    /\ command[i].kind = "wipe" /\ Self \in accounts
    /\ accounts' = {}
    /\ command' = [command EXCEPT ![i] = Done]
    /\ UNCHANGED <<open, viewState>>

ToggleRuns(i) ==
    /\ command[i].kind = "toggle" /\ Self \in accounts
    /\ command' = [command EXCEPT ![i] = Done]
    /\ UNCHANGED <<accounts, open, viewState>>

\* Not found, an administrator, the wrong phrase, an old token, no answer in time.
RequestFails(i) ==
    /\ command[i].kind \in {"refresh", "delete", "wipe", "toggle"}
    /\ command' = [command EXCEPT ![i] = Failed]
    /\ UNCHANGED <<accounts, open, viewState>>

\* Somebody registers, or another administrator deletes.
Registers(n) ==
    /\ n \notin accounts /\ accounts' = accounts \cup {n}
    /\ UNCHANGED <<open, viewState, command>>
DeletedElsewhere(n) ==
    /\ n \in accounts \ {Self} /\ accounts' = accounts \ {n}
    /\ UNCHANGED <<open, viewState, command>>

-----------------------------------------------------------------------------
(* Opening and leaving *)

(* adminLoginSuccessMsg, of a late answer also where a panel is open: a new *)
(* one, and Init's refresh, which does not say that it is loading.          *)
Open ==
    /\ open' = TRUE
    /\ panelTab' = "dashboard" /\ loading' = FALSE /\ users' = <<>>
    /\ userIdx' = 0 /\ pendingDelete' = None
    /\ Issue(Refresh)
    /\ UNCHANGED accounts

\* esc or q; navigateMsg comes later, when other keys may have been pressed.
Leave ==
    /\ open /\ open' = FALSE
    /\ UNCHANGED <<accounts, viewState, command>>

-----------------------------------------------------------------------------
(* Messages: those that find no panel on the screen go nowhere *)

(* Mutant: an index that is one too large counts as in range.               *)
InRangeLoose(list) == IF userIdx > Len(list) THEN Len(list) - 1 ELSE userIdx
InRange(list) ==
    IF userIdx < Len(list) THEN userIdx ELSE IF list = <<>> THEN 0 ELSE Len(list) - 1

DataArrives(i) ==
    /\ open /\ command[i].kind = "data"
    /\ loading' = FALSE
    /\ users' = command[i].list /\ userIdx' = InRange(command[i].list)
    /\ command' = [command EXCEPT ![i] = Idle]
    /\ UNCHANGED <<accounts, open, panelTab, pendingDelete>>

(* Of a refresh or an action.  Mutant: the error is looked at first.        *)
LoadingKept == loading
LoadingOver == FALSE
FailureArrives(i) ==
    /\ open /\ command[i] = Failed
    /\ loading' = LoadingOver
    /\ command' = [command EXCEPT ![i] = Idle]
    /\ UNCHANGED <<accounts, open, panelTab, users, userIdx, pendingDelete>>

(* Its own refresh follows.                                                 *)
DoneArrives(i) ==
    /\ open /\ command[i] = Done
    /\ loading' = TRUE
    /\ command' = [command EXCEPT ![i] = Refresh]
    /\ UNCHANGED <<accounts, open, panelTab, users, userIdx, pendingDelete>>

Lost(i) ==
    /\ ~open /\ command[i].kind \in {"data", "failed", "done"}
    /\ command' = [command EXCEPT ![i] = Idle]
    /\ UNCHANGED <<accounts, open, viewState>>

-----------------------------------------------------------------------------
(* Keys *)

Ready == open /\ ~loading

\* esc and q, with a deletion to confirm.
CancelDelete ==
    /\ Ready /\ panelTab = "users" /\ pendingDelete # None
    /\ pendingDelete' = None
    /\ UNCHANGED <<accounts, open, panelTab, loading, users, userIdx, command>>

ChooseTab(t) ==
    /\ Ready /\ panelTab' = t
    /\ pendingDelete' = IF t = "users" THEN None ELSE pendingDelete
    /\ UNCHANGED <<accounts, open, loading, users, userIdx, command>>

Reload ==
    /\ Ready /\ Issue(Refresh) /\ loading' = TRUE
    /\ UNCHANGED <<accounts, open, panelTab, users, userIdx, pendingDelete>>

MoveUser(step) ==
    /\ Ready /\ panelTab = "users"
    /\ pendingDelete' = None
    /\ userIdx' = IF userIdx + step \in 0 .. Len(users) - 1 THEN userIdx + step ELSE userIdx
    /\ UNCHANGED <<accounts, open, panelTab, loading, users, command>>

Highlighted == users[userIdx + 1]

\* d: at first a question.
RefuseSelf ==
    /\ Ready /\ panelTab = "users" /\ users # <<>>
    /\ Highlighted = Self
    /\ pendingDelete' = None
    /\ UNCHANGED <<accounts, open, panelTab, loading, users, userIdx, command>>

AskToDelete ==
    /\ Ready /\ panelTab = "users" /\ users # <<>>
    /\ Highlighted \notin {Self, pendingDelete}
    /\ pendingDelete' = Highlighted
    /\ UNCHANGED <<accounts, open, panelTab, loading, users, userIdx, command>>

(* Mutant: any question counts as asked about the user who is highlighted.  *)
AskedAnything == pendingDelete # None
Asked == pendingDelete = Highlighted
ConfirmDelete ==
    /\ Ready /\ panelTab = "users" /\ users # <<>>
    /\ Highlighted # Self /\ Asked
    /\ Issue(Command("delete", Highlighted, <<>>))
    /\ pendingDelete' = None /\ loading' = TRUE
    /\ UNCHANGED <<accounts, open, panelTab, users, userIdx>>

ToggleLog ==
    /\ Ready /\ panelTab = "logs"
    /\ Issue(Command("toggle", None, <<>>)) /\ loading' = TRUE
    /\ UNCHANGED <<accounts, open, panelTab, users, userIdx, pendingDelete>>

\* The phrase is the server's to check.
Wipe ==
    /\ Ready /\ panelTab = "wipe"
    /\ Issue(Command("wipe", None, <<>>)) /\ loading' = TRUE
    /\ UNCHANGED <<accounts, open, panelTab, users, userIdx, pendingDelete>>

-----------------------------------------------------------------------------
Requests(i) ==
    RefreshRuns(i) \/ DeleteRuns(i) \/ WipeRuns(i) \/ ToggleRuns(i) \/ RequestFails(i)
Messages(i) == DataArrives(i) \/ FailureArrives(i) \/ DoneArrives(i) \/ Lost(i)
Others == \E n \in Users : Registers(n) \/ DeletedElsewhere(n)
Keystrokes ==
    \/ Open \/ Leave \/ CancelDelete \/ Reload
    \/ \E t \in PanelTab : ChooseTab(t)
    \/ \E step \in {-1, 1} : MoveUser(step)
    \/ RefuseSelf \/ AskToDelete \/ ConfirmDelete \/ ToggleLog \/ Wipe

PanelNext == Keystrokes \/ Others \/ \E i \in Slots : Requests(i) \/ Messages(i)

PanelSpec == PanelInit /\ [][PanelNext]_panelVars

-----------------------------------------------------------------------------
(* Properties *)

(* The types of the panel's state. *)
PanelTypeOK ==
    /\ accounts \subseteq Users
    /\ open \in BOOLEAN /\ loading \in BOOLEAN /\ panelTab \in PanelTab
    /\ users \in Seq(Users) /\ userIdx \in Nat /\ pendingDelete \in Users \cup {None}
    /\ \A i \in Slots : command[i].kind \in
          {"idle", "refresh", "data", "done", "failed", "delete", "toggle", "wipe"}

(* The highlighted user is one of the list, whichever list arrived last and *)
(* wherever the cursor was: d does not index past its end (adminDataMsg).   *)
UserInRange == users = <<>> \/ userIdx < Len(users)

(* Only the user whom the question on the screen names is deleted, although *)
(* a list that arrives between the two presses of d may put another one     *)
(* under the cursor (updateUsers), and never the administrator's own name.  *)
DeletesPrompted ==
    [][\A i \in Slots :
          command'[i].kind = "delete" /\ command[i].kind # "delete" =>
              command'[i].name = pendingDelete /\ pendingDelete # Self]_panelVars

(* A panel that is loading, and so takes no key but esc, has a command      *)
(* under way, although messages of older commands come and set it too.      *)
LoadingCommanded == open /\ loading => \E i \in Slots : command[i] # Idle

=============================================================================
