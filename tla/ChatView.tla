------------------------------ MODULE ChatView ------------------------------
(***************************************************************************)
(* The chat view of the client (tui/chat.go, modal.go), the chat events    *)
(* that app.go hands to it, and as much of the server as decides what they *)
(* say.                                                                    *)
(*                                                                         *)
(* Update is one step: Bubble Tea calls it for one message at a time.  A   *)
(* message is a key, a chat event, or the result of a command, and a       *)
(* command runs in a goroutine of its own, at any time.  Frames arrive in  *)
(* the order they were written in, on both ways.  The server handles one   *)
(* frame of this client at a time, other users' handlers write to it in    *)
(* between: a message is saved in one step and pushed in another, a        *)
(* history is read in one and written in another.  What the lists cost to  *)
(* make is in Friends; usernames are numbers, in their order.              *)
(***************************************************************************)
EXTENDS Integers, Sequences, FiniteSets

CONSTANTS
    Name,       \* the other users
    Body,       \* message bodies, each said once
    NoBody,
    NoName, Blank,      \* nothing, or only spaces, in the modal's input
    Limit,      \* defaultHistoryLimit
    MaxQueue    \* bound: frames under way, each way

ASSUME NameAssumption == Name \subseteq Int /\ NoName \notin Name /\ Blank \notin Name
ASSUME BodyAssumption == NoBody \notin Body
ASSUME LimitAssumption == Limit \in Nat /\ MaxQueue \in Nat

VARIABLES
    isFriend, hasAsked, askedFor,   \* the tables, as to this user
    log,        \* the messages table: conversation with each name
    unpushed,   \* messages saved by deliver and not yet written here
    outbox,     \* frames from the client
    answer,     \* the history the handler has read and not yet written
    inbox,      \* frames to the client, and its event channel
    tab, friends, incoming, outgoing, active,   \* chatModel
    threads, historyLoaded, input,
    modal,      \* "closed", "open" or "loading"
    typed,      \* its input
    cmds,       \* commands not yet run
    results,    \* names in modalResultMsg not yet handled
    said        \* history: <<name, body, self>> of what was said

tableVars  == <<isFriend, hasAsked, askedFor, log>>
serverVars == <<tableVars, unpushed, answer>>
listVars   == <<tab, friends, incoming, outgoing, active>>
threadVars == <<threads, historyLoaded>>
modalVars  == <<modal, typed>>
viewVars   == <<listVars, threadVars, input, modalVars>>
cmdVars    == <<cmds, results>>
vars       == <<serverVars, outbox, inbox, viewVars, cmdVars, said>>

-----------------------------------------------------------------------------
Tab     == {"friends", "incoming", "outgoing"}
Message == [body : Body, self : BOOLEAN]
NoAnswer == [peer |-> NoName, messages |-> <<>>]

Elements(s) == {s[i] : i \in 1 .. Len(s)}

(* The rows of a set, in some order: by created_at, in seconds. *)
Orders(S) == {s \in [1 .. Cardinality(S) -> S] : Elements(s) = S}

(* ORDER BY username. *)
IsSorted(s) == \A i, j \in 1 .. Len(s) : i < j => s[i] < s[j]

Contacts == [kind : {"contacts"},
             friends : {s \in Orders(isFriend) : IsSorted(s)},
             pending : Orders(hasAsked), outgoing : Orders(askedFor)]

(* appendUnique *)
Added(s, n) == IF n \in Elements(s) THEN s ELSE Append(s, n)

(* Frames, and events. *)
Frame(kind, n, b) == [kind |-> kind, name |-> n, body |-> b]
Deliver(event) == Len(inbox) < MaxQueue /\ inbox' = Append(inbox, event)
Transmit(frame) == Len(outbox) < MaxQueue /\ outbox' = Append(outbox, frame)

Init ==
    /\ isFriend = {} /\ hasAsked = {} /\ askedFor = {}
    /\ log = [n \in Name |-> <<>>]
    /\ unpushed = {} /\ outbox = <<>> /\ answer = NoAnswer /\ inbox = <<>>
    /\ said = {}
    /\ tab = "friends" /\ friends = <<>> /\ incoming = <<>> /\ outgoing = <<>>
    /\ active = 0
    /\ threads = [n \in Name |-> <<>>] /\ historyLoaded = {}
    /\ input = NoBody /\ modal = "closed" /\ typed = NoName
    /\ cmds = {} /\ results = {}

-----------------------------------------------------------------------------
(* The other users, and their handlers *)

PeerAsks(n) ==
    /\ n \notin isFriend \cup hasAsked
    /\ hasAsked' = hasAsked \cup {n}
    /\ Deliver(Frame("request", n, NoBody))
    /\ UNCHANGED <<isFriend, askedFor, log, unpushed, answer, outbox,
                   viewVars, cmdVars, said>>

PeerAccepts(n) ==
    /\ n \in askedFor \ isFriend
    /\ askedFor' = askedFor \ {n}
    /\ isFriend' = isFriend \cup {n}
    /\ UNCHANGED <<hasAsked, log, unpushed, answer, outbox, viewVars,
                   cmdVars, said>>
    /\ \E e \in Contacts' : Deliver(e)

PeerSays(n, b) ==
    /\ n \in isFriend
    /\ b # input /\ \A s \in said : s[2] # b
    /\ log' = [log EXCEPT ![n] = Append(@, [body |-> b, self |-> FALSE])]
    /\ unpushed' = unpushed \cup {<<n, b>>}
    /\ said' = said \cup {<<n, b, FALSE>>}
    /\ UNCHANGED <<isFriend, hasAsked, askedFor, answer, outbox, inbox,
                   viewVars, cmdVars>>

Push(n, b) ==
    /\ <<n, b>> \in unpushed
    /\ unpushed' = unpushed \ {<<n, b>>}
    /\ Deliver(Frame("message", n, b))
    /\ UNCHANGED <<tableVars, answer, outbox, viewVars, cmdVars, said>>

(* An administrator deletes the user: nobody is told. *)
PeerDeleted(n) ==
    /\ isFriend' = isFriend \ {n}
    /\ hasAsked' = hasAsked \ {n}
    /\ askedFor' = askedFor \ {n}
    /\ log' = [log EXCEPT ![n] = <<>>]
    /\ UNCHANGED <<unpushed, answer, outbox, inbox, viewVars, cmdVars, said>>

-----------------------------------------------------------------------------
(* The handler of this client *)

Handles(kind) ==
    /\ outbox # <<>> /\ answer = NoAnswer
    /\ Head(outbox).kind = kind
    /\ outbox' = Tail(outbox)

(* Any frame may be refused, and nothing is said of that. *)
HandlerRefuses ==
    /\ outbox # <<>> /\ answer = NoAnswer
    /\ outbox' = Tail(outbox)
    /\ UNCHANGED <<serverVars, inbox, viewVars, cmdVars, said>>

HandleSend ==
    LET f == Head(outbox) IN
    /\ Handles("say") /\ f.name \in isFriend
    /\ log' = [log EXCEPT ![f.name] = Append(@, [body |-> f.body, self |-> TRUE])]
    /\ UNCHANGED <<isFriend, hasAsked, askedFor, unpushed, answer, inbox,
                   viewVars, cmdVars, said>>

HandleRequest ==
    LET f == Head(outbox) IN
    /\ Handles("ask") /\ f.name \notin isFriend \cup askedFor
    /\ askedFor' = askedFor \cup {f.name}
    /\ UNCHANGED <<isFriend, hasAsked, log, unpushed, answer, viewVars,
                   cmdVars, said>>
    /\ \E e \in Contacts' : Deliver(e)

HandleAccept ==
    LET f == Head(outbox) IN
    /\ Handles("accept") /\ f.name \in hasAsked \ isFriend
    /\ hasAsked' = hasAsked \ {f.name}
    /\ isFriend' = isFriend \cup {f.name}
    /\ UNCHANGED <<askedFor, log, unpushed, answer, viewVars, cmdVars, said>>
    /\ \E e \in Contacts' : Deliver(e)

(* ListConversationMessages: the oldest rows, up to a limit. *)
Oldest(s) == IF Len(s) <= Limit THEN s ELSE SubSeq(s, 1, Limit)

HandleHistory ==
    LET f == Head(outbox) IN
    /\ Handles("history") /\ f.name \in isFriend
    /\ answer' = [peer |-> f.name, messages |-> Oldest(log[f.name])]
    /\ UNCHANGED <<tableVars, unpushed, inbox, viewVars, cmdVars, said>>

WriteHistory ==
    /\ answer # NoAnswer
    /\ Deliver([kind |-> "history", peer |-> answer.peer, messages |-> answer.messages])
    /\ answer' = NoAnswer
    /\ UNCHANGED <<tableVars, unpushed, outbox, viewVars, cmdVars, said>>

-----------------------------------------------------------------------------
(* chatModel *)

List(t) == CASE t = "incoming" -> incoming
             [] t = "outgoing" -> outgoing
             [] OTHER -> friends
CurrentList == List(tab)

ActiveFriend ==
    IF tab = "friends" /\ active < Len(friends) THEN friends[active + 1] ELSE NoName

(* clampActive, against the new list of the tab.  Mutants: a list that is   *)
(* one too short counts as long enough; the last entry instead of the first. *)
ClampedLast(list) == IF active >= Len(list) THEN Len(list) - 1 ELSE active
ClampedLoose(list) == IF active > Len(list) THEN 0 ELSE active
Clamped(list) == IF active >= Len(list) THEN 0 ELSE active

(* loadHistoryForActive, once the step is done. *)
LoadsHistory ==
    LET n == ActiveFriend' IN
    cmds' = cmds \cup
              IF n = NoName \/ n \in historyLoaded THEN {} ELSE {<<"history", n>>}

(* Where a message goes.  Mutant: always to the friend who is selected.     *)
ThreadOfActive(n) == IF ActiveFriend = NoName THEN n ELSE ActiveFriend
ThreadOf(n) == n
Say(n, b, self) ==
    threads' = [threads EXCEPT ![n] = Append(@, [body |-> b, self |-> self])]

(* The next event goes to Update. *)
Event(kind) ==
    /\ inbox # <<>>
    /\ Head(inbox).kind = kind
    /\ inbox' = Tail(inbox)

(* The command that Update returns here is dropped by app.go. *)
ContactsUpdated ==
    LET e == Head(inbox) IN
    /\ Event("contacts")
    /\ friends' = e.friends /\ incoming' = e.pending /\ outgoing' = e.outgoing
    /\ active' = Clamped(CASE tab = "incoming" -> e.pending
                           [] tab = "outgoing" -> e.outgoing
                           [] OTHER -> e.friends)
    /\ UNCHANGED <<serverVars, outbox, tab, threadVars, input, modalVars,
                   cmdVars, said>>

FriendRequest ==
    /\ Event("request")
    /\ incoming' = Added(incoming, Head(inbox).name)
    /\ tab' = "incoming"
    /\ UNCHANGED <<serverVars, outbox, friends, outgoing, active,
                   threadVars, input, modalVars, cmdVars, said>>

IncomingMessage ==
    LET e == Head(inbox) IN
    /\ Event("message")
    /\ Say(ThreadOf(e.name), e.body, FALSE)
    /\ UNCHANGED <<serverVars, outbox, listVars, historyLoaded, input,
                   modalVars, cmdVars, said>>

(* Mutant: the thread is kept, as after a reconnect. *)
WithHistoryKept(n, s) == [threads EXCEPT ![n] = s \o @]
WithHistory(n, s) == [threads EXCEPT ![n] = s]

HistoryLoaded ==
    LET e == Head(inbox) IN
    /\ Event("history")
    /\ threads' = WithHistory(e.peer, e.messages)
    /\ historyLoaded' = historyLoaded \cup {e.peer}
    /\ UNCHANGED <<serverVars, outbox, listVars, input, modalVars, cmdVars, said>>

(* A command runs: the goroutine writes its frame. *)
RunHistory(n) ==
    /\ <<"history", n>> \in cmds
    /\ cmds' = cmds \ {<<"history", n>>}
    /\ Transmit(Frame("history", n, NoBody))
    /\ UNCHANGED <<serverVars, inbox, viewVars, results, said>>

RunRequest(n) ==
    /\ <<"ask", n>> \in cmds
    /\ cmds' = cmds \ {<<"ask", n>>}
    /\ Transmit(Frame("ask", n, NoBody))
    /\ results' = results \cup {n}
    /\ UNCHANGED <<serverVars, inbox, viewVars, said>>

(* The frame is not written, and modalResultMsg says so: a modal that is    *)
(* open by then stops loading and keeps its name.                           *)
RequestFails(n) ==
    /\ <<"ask", n>> \in cmds
    /\ cmds' = cmds \ {<<"ask", n>>}
    /\ modal' = IF modal = "closed" THEN "closed" ELSE "open"
    /\ UNCHANGED <<serverVars, outbox, inbox, listVars, threadVars, input,
                   typed, results, said>>

(* modalResultMsg: that the frame was written, whatever becomes of it, and  *)
(* whichever modal is open by now.                                          *)
ModalResult(n) ==
    /\ n \in results
    /\ results' = results \ {n}
    /\ outgoing' = Added(outgoing, n)
    /\ tab' = "outgoing"
    /\ modal' = "closed" /\ typed' = NoName
    /\ UNCHANGED <<serverVars, outbox, inbox, friends, incoming, active,
                   threadVars, input, cmds, said>>

-----------------------------------------------------------------------------
(* Keys, with the modal closed *)

Chatting == modal = "closed"

SwitchTab(t) ==
    /\ Chatting
    /\ tab' = t /\ active' = 0
    /\ UNCHANGED <<serverVars, outbox, inbox, friends, incoming, outgoing,
                   threadVars, input, modalVars, results, said>>
    /\ LoadsHistory

Move(step) ==
    /\ Chatting
    /\ IF step < 0 THEN active > 0 ELSE active < Len(CurrentList) - 1
    /\ active' = active + step
    /\ UNCHANGED <<serverVars, outbox, inbox, tab, friends, incoming,
                   outgoing, threadVars, input, modalVars, results, said>>
    /\ LoadsHistory

Type(b) ==
    /\ Chatting /\ input = NoBody
    /\ \A s \in said : s[2] # b
    /\ input' = b
    /\ UNCHANGED <<serverVars, outbox, inbox, listVars, threadVars,
                   modalVars, cmdVars, said>>

(* Enter: list[m.active] *)
EnterOn(n) ==
    Chatting /\ active < Len(CurrentList) /\ n = CurrentList[active + 1]

EnterSends(n) ==
    /\ tab = "friends" /\ EnterOn(n) /\ input # NoBody
    /\ Transmit(Frame("say", n, input))
    /\ Say(n, input, TRUE)
    /\ said' = said \cup {<<n, input, TRUE>>}
    /\ input' = NoBody
    /\ UNCHANGED <<serverVars, inbox, listVars, historyLoaded, modalVars, cmdVars>>

EnterAccepts(n) ==
    /\ tab = "incoming" /\ EnterOn(n)
    /\ Transmit(Frame("accept", n, NoBody))
    /\ UNCHANGED <<serverVars, inbox, viewVars, cmdVars, said>>

(* The user quits and comes back: a new model and a new connection, which   *)
(* begins with the contacts.  The server has read the frames of the old one *)
(* before, or never does.                                                   *)
StartAgain ==
    /\ tab' = "friends" /\ friends' = <<>> /\ incoming' = <<>> /\ outgoing' = <<>>
    /\ active' = 0
    /\ threads' = [n \in Name |-> <<>>] /\ historyLoaded' = {}
    /\ input' = NoBody /\ modal' = "closed" /\ typed' = NoName
    /\ cmds' = {} /\ results' = {}
    /\ outbox' = <<>> /\ answer' = NoAnswer
    /\ \E e \in Contacts : inbox' = <<e>>
    /\ UNCHANGED <<tableVars, unpushed, said>>

Quit == Chatting /\ StartAgain

(* The index is past the end of a list that is not empty: the program dies. *)
EnterPanics ==
    Chatting /\ CurrentList # <<>> /\ active >= Len(CurrentList) /\ StartAgain

-----------------------------------------------------------------------------
(* Keys, with the modal open *)

OpenModal ==
    /\ Chatting
    /\ modal' = "open" /\ typed' = NoName
    /\ UNCHANGED <<serverVars, outbox, inbox, listVars, threadVars, input,
                   cmdVars, said>>

TypeName(n) ==
    /\ modal = "open" /\ typed' = n
    /\ UNCHANGED <<serverVars, outbox, inbox, listVars, threadVars, input,
                   modal, cmdVars, said>>

(* Only spaces: the modal says that it is sending, and nothing is sent. *)
Submit ==
    /\ modal = "open" /\ typed # NoName
    /\ modal' = "loading"
    /\ cmds' = cmds \cup IF typed = Blank THEN {} ELSE {<<"ask", typed>>}
    /\ UNCHANGED <<serverVars, outbox, inbox, listVars, threadVars, input,
                   typed, results, said>>

CloseModal ==
    /\ modal # "closed"
    /\ modal' = "closed" /\ typed' = NoName
    /\ UNCHANGED <<serverVars, outbox, inbox, listVars, threadVars, input,
                   cmdVars, said>>

-----------------------------------------------------------------------------
ServerStep ==
    \/ \E n \in Name : PeerAsks(n) \/ PeerAccepts(n) \/ PeerDeleted(n)
    \/ \E n \in Name, b \in Body : PeerSays(n, b) \/ Push(n, b)
    \/ HandlerRefuses \/ HandleSend \/ HandleRequest \/ HandleAccept
    \/ HandleHistory \/ WriteHistory

EventStep ==
    \/ ContactsUpdated \/ FriendRequest \/ IncomingMessage \/ HistoryLoaded
    \/ \E n \in Name : RunHistory(n) \/ RunRequest(n) \/ RequestFails(n) \/ ModalResult(n)

KeyStep ==
    \/ \E t \in Tab : SwitchTab(t)
    \/ Move(-1) \/ Move(1)
    \/ \E b \in Body : Type(b)
    \/ \E n \in Name : EnterSends(n) \/ EnterAccepts(n)
    \/ EnterPanics \/ Quit
    \/ OpenModal \/ Submit \/ CloseModal
    \/ \E n \in Name \cup {Blank} : TypeName(n)

Next == ServerStep \/ EventStep \/ KeyStep

Spec == Init /\ [][Next]_vars

-----------------------------------------------------------------------------
(* Properties *)

(* The types of the view. *)
TypeOK ==
    /\ tab \in Tab /\ modal \in {"closed", "open", "loading"} /\ active \in Nat
    /\ friends \in Seq(Name) /\ incoming \in Seq(Name) /\ outgoing \in Seq(Name)
    /\ threads \in [Name -> Seq(Message)]
    /\ historyLoaded \subseteq Name
    /\ input \in Body \cup {NoBody}
    /\ typed \in Name \cup {NoName, Blank}
    /\ cmds \subseteq {"history", "ask"} \X Name
    /\ results \subseteq Name
    /\ said \subseteq Name \X Body \X BOOLEAN

(* On the friends tab the selection is a friend whenever there is one, so   *)
(* that Enter sends to somebody, although lists, tabs and selection are     *)
(* changed by keys, events and results in any order (chat.go, clampActive). *)
FriendSelected == tab = "friends" /\ friends # <<>> => active < Len(friends)

(* A thread shows only what was said in that conversation and by whom:      *)
(* pushes, histories and own messages do not get into another's, whatever   *)
(* tab or friend is selected when they arrive (chat.go, appendMessage).     *)
ThreadsTruthful ==
    \A n \in Name : \A m \in Elements(threads[n]) : <<n, m.body, m.self>> \in said

(* What the user said is shown at most once: a history that has it already  *)
(* replaces the thread it was appended to (chat.go, historyMsg).            *)
OwnShownOnce ==
    \A n \in Name : \A i, j \in 1 .. Len(threads[n]) :
        threads[n][i].self /\ threads[n][i] = threads[n][j] => i = j

(* Enter sends, accepts or submits (README.md:129): whatever list is shown, *)
(* the selection is in it.                                                  *)
EnterInRange == CurrentList = <<>> \/ active < Len(CurrentList)

=============================================================================
