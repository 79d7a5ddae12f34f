------------------------------- MODULE Shell -------------------------------
(***************************************************************************)
(* The client's program around the chat view: the screens of tui/app.go    *)
(* and their forms, and the chat connections of client/chat.go.            *)
(*                                                                         *)
(* Update handles one message at a time.  A command runs in a goroutine of *)
(* its own and ends with a message, so messages of several commands come   *)
(* in any order: a navigation, the answer to a form, an event that a       *)
(* waiter took from a connection's channel.  Every connection has a read   *)
(* loop, in a goroutine too, between the socket and that channel.          *)
(***************************************************************************)
EXTENDS Integers, Sequences

CONSTANTS
    MaxConn,    \* bound: connections made in one run of the program
    MaxSent,    \* bound: frames the server sends on one of them
    Capacity    \* of the channel of events: 32 in the code

ASSUME ShellAssumption ==
    MaxConn \in Nat /\ MaxSent \in Nat /\ Capacity \in Nat \ {0}

Conn   == 1 .. MaxConn
Frame  == 1 .. MaxSent
Form   == {"login", "register", "adminLogin"}
Screen == Form \cup {"welcome", "chat", "adminPanel"}

VARIABLES
    screen,
    busy,       \* loading of the form that is shown
    current,    \* chatConn: 0 before the first
    opened,     \* connections made so far
    navs,       \* navigateMsg under way, by target
    requests,   \* submitted forms not yet answered
    waiting,    \* waiters on each connection's channel
    taken,      \* events taken by a waiter and not yet handled
    gone,       \* chatDisconnectedMsg under way
    strayed,    \* history: a command's message came where no one expected it
    shown,      \* history, until then: events shown in the present chat view
    sent,       \* frames sent by the server
    wire,       \* of these, not yet read
    cut,        \* the server has closed, or the network failed
    done,       \* closed by Close: the channel done, and the socket
    reader,     \* "none", "reading", "pushing", "ended" (events closed)
    held,       \* the event it pushes
    events      \* the channel

appVars    == <<screen, busy, current, opened, shown, strayed>>
msgVars    == <<navs, requests, waiting, taken, gone>>
serverVars == <<sent, wire, cut>>
readVars   == <<done, reader, held, events>>
shellVars  == <<appVars, msgVars, serverVars, readVars>>

ShellInit ==
    /\ screen = "welcome" /\ busy = FALSE /\ current = 0 /\ opened = 0
    /\ navs = [s \in Screen |-> 0] /\ requests = [f \in Form |-> 0]
    /\ waiting = [c \in Conn |-> 0] /\ taken = {} /\ gone = 0
    /\ shown = <<>> /\ strayed = FALSE
    /\ sent = [c \in Conn |-> 0] /\ wire = [c \in Conn |-> <<>>]
    /\ cut = {} /\ done = {}
    /\ reader = [c \in Conn |-> "none"] /\ held = [c \in Conn |-> 0]
    /\ events = [c \in Conn |-> <<>>]

More(f, x) == [f EXCEPT ![x] = @ + 1]
Less(f, x) == [f EXCEPT ![x] = @ - 1]

\* What is shown now, unless something went astray.
Strays(astray, now) ==
    /\ strayed' = (strayed \/ astray)
    /\ shown' = IF strayed \/ astray THEN <<>> ELSE now

-----------------------------------------------------------------------------
(* Keys *)

WelcomeKey(f) ==
    /\ screen = "welcome"
    /\ navs' = More(navs, f)
    /\ UNCHANGED <<appVars, requests, waiting, taken, gone, serverVars, readVars>>

\* Esc: a form that is loading takes no key, not even ctrl+c.
Back ==
    /\ screen \in Form \cup {"adminPanel"} /\ ~busy
    /\ navs' = More(navs, "welcome")
    /\ UNCHANGED <<appVars, requests, waiting, taken, gone, serverVars, readVars>>

Submit ==
    /\ screen \in Form /\ ~busy
    /\ busy' = TRUE
    /\ requests' = More(requests, screen)
    /\ UNCHANGED <<screen, current, opened, shown, strayed, navs, waiting,
                   taken, gone, serverVars, readVars>>

-----------------------------------------------------------------------------
(* Messages *)

Navigate(s) ==
    /\ navs[s] > 0 /\ navs' = Less(navs, s)
    /\ screen' = s /\ busy' = FALSE
    /\ Strays(screen = "chat", shown)
    /\ UNCHANGED <<current, opened, requests, waiting, taken, gone,
                   serverVars, readVars>>

(* authErrorMsg, to whatever form is shown. *)
AuthError(f) ==
    /\ requests[f] > 0 /\ requests' = Less(requests, f)
    /\ busy' = FALSE
    /\ UNCHANGED <<screen, current, opened, shown, strayed, navs, waiting,
                   taken, gone, serverVars, readVars>>

AdminLoggedIn ==
    /\ requests["adminLogin"] > 0 /\ requests' = Less(requests, "adminLogin")
    /\ screen' = "adminPanel" /\ busy' = FALSE
    /\ Strays(screen = "chat", shown)
    /\ UNCHANGED <<current, opened, navs, waiting, taken, gone,
                   serverVars, readVars>>

(* connectChat when Connect fails: a new form, with the error.  Mutant: the *)
(* form is left as it is, as its own handler of the success never runs.     *)
FormKept == busy
FormAfterError == FALSE
ConnectFails(f) ==
    /\ f # "adminLogin"
    /\ requests[f] > 0 /\ requests' = Less(requests, f)
    /\ screen' = f /\ busy' = FormAfterError
    /\ Strays(screen = "chat", shown)
    /\ UNCHANGED <<current, opened, navs, waiting, taken, gone,
                   serverVars, readVars>>

(* Mutant: both the view and the program begin to wait. *)
WaitersTwo == 2
Waiters == 1

(* A connection of before is neither closed nor waited for. *)
Connects(f) ==
    LET c == opened + 1 IN
    /\ f # "adminLogin" /\ opened < MaxConn
    /\ requests[f] > 0 /\ requests' = Less(requests, f)
    /\ opened' = c /\ current' = c
    /\ screen' = "chat" /\ busy' = FALSE
    /\ waiting' = [waiting EXCEPT ![c] = Waiters]
    /\ reader' = [reader EXCEPT ![c] = "reading"]
    /\ Strays(taken # {} \/ gone > 0 \/ \E d \in Conn : waiting[d] > 0, <<>>)
    /\ UNCHANGED <<navs, taken, gone, serverVars, done, held, events>>

(* chatDisconnectedMsg, from whichever connection: Close of the present one. *)
Disconnected ==
    /\ gone > 0 /\ gone' = gone - 1
    /\ done' = done \cup ({current} \cap Conn)
    /\ screen' = "login" /\ busy' = FALSE
    /\ UNCHANGED <<current, opened, shown, strayed, navs, requests, waiting,
                   taken, serverVars, reader, held, events>>

(* An event: it is dropped unless the chat is shown, and the present        *)
(* connection gets the next waiter.  Mutant: only when the chat is shown.   *)
WaitsIfShown == IF screen = "chat" THEN More(waiting, current) ELSE waiting
WaitsAgain == More(waiting, current)
ChatEvent(c, k) ==
    /\ <<c, k>> \in taken /\ taken' = taken \ {<<c, k>>}
    /\ Strays(FALSE, IF screen = "chat" THEN Append(shown, <<c, k>>) ELSE shown)
    /\ waiting' = WaitsAgain
    /\ UNCHANGED <<screen, busy, current, opened, navs, requests,
                   gone, serverVars, readVars>>

-----------------------------------------------------------------------------
(* waitForChatEvent, and the read loops *)

TakeEvent(c) ==
    /\ waiting[c] > 0 /\ events[c] # <<>>
    /\ waiting' = Less(waiting, c)
    /\ taken' = taken \cup {<<c, Head(events[c])>>}
    /\ events' = [events EXCEPT ![c] = Tail(@)]
    /\ UNCHANGED <<appVars, navs, requests, gone, serverVars, done, reader, held>>

TakeEnd(c) ==
    /\ waiting[c] > 0 /\ events[c] = <<>> /\ reader[c] = "ended"
    /\ waiting' = Less(waiting, c)
    /\ gone' = gone + 1
    /\ UNCHANGED <<appVars, navs, requests, taken, serverVars, readVars>>

ReadFrame(c) ==
    /\ reader[c] = "reading" /\ c \notin done /\ wire[c] # <<>>
    /\ held' = [held EXCEPT ![c] = Head(wire[c])]
    /\ wire' = [wire EXCEPT ![c] = Tail(@)]
    /\ reader' = [reader EXCEPT ![c] = "pushing"]
    /\ UNCHANGED <<appVars, msgVars, sent, cut, done, events>>

(* Read fails, or the loop sees done.  Mutant: Close leaves the socket.     *)
ReadFailsCut(c) == c \in cut /\ wire[c] = <<>>
ReadFails(c) == c \in done \/ (c \in cut /\ wire[c] = <<>>)
ReaderEnds(c) ==
    /\ reader[c] = "reading" /\ ReadFails(c)
    /\ reader' = [reader EXCEPT ![c] = "ended"]
    /\ UNCHANGED <<appVars, msgVars, serverVars, done, held, events>>

(* The channel is bounded, and a full one blocks the read loop.  Mutant: it *)
(* is found full one event too late.                                        *)
HasRoomLate(c) == Len(events[c]) <= Capacity
HasRoom(c) == Len(events[c]) < Capacity
PushEvent(c) ==
    /\ reader[c] = "pushing"
    /\ \/ HasRoom(c) /\ events' = [events EXCEPT ![c] = Append(@, held[c])]
       \/ c \in done /\ UNCHANGED events
    /\ held' = [held EXCEPT ![c] = 0]
    /\ reader' = [reader EXCEPT ![c] = "reading"]
    /\ UNCHANGED <<appVars, msgVars, serverVars, done>>

-----------------------------------------------------------------------------
(* The server *)

ServerSends(c) ==
    /\ c <= opened /\ c \notin cut \cup done /\ sent[c] < MaxSent
    /\ sent' = More(sent, c)
    /\ wire' = [wire EXCEPT ![c] = Append(@, sent[c] + 1)]
    /\ UNCHANGED <<appVars, msgVars, cut, readVars>>

\* Frames on the way arrive before the end, or are lost with the connection.
ServerCloses(c) ==
    /\ c <= opened /\ c \notin cut
    /\ cut' = cut \cup {c}
    /\ wire' \in {wire, [wire EXCEPT ![c] = <<>>]}
    /\ UNCHANGED <<appVars, msgVars, sent, readVars>>

-----------------------------------------------------------------------------
Key    == (\E f \in Form : WelcomeKey(f)) \/ Back \/ Submit
Answer == AdminLoggedIn \/ \E f \in Form : AuthError(f) \/ ConnectFails(f) \/ Connects(f)
Nav    == \E s \in Screen : Navigate(s)
Shows  == Disconnected \/ \E c \in Conn, k \in Frame : ChatEvent(c, k)
Take   == \E c \in Conn : TakeEvent(c) \/ TakeEnd(c)
Reads  == \E c \in Conn : ReadFrame(c) \/ ReaderEnds(c) \/ PushEvent(c)
Server == \E c \in Conn : ServerSends(c) \/ ServerCloses(c)

ShellNext == Key \/ Answer \/ Nav \/ Shows \/ Take \/ Reads \/ Server

(* Goroutines run, and requests end: http.Client and Dial have timeouts.    *)
(* Nothing is asked of the user, or of the server.                          *)
ShellFairness ==
    /\ WF_shellVars(Answer) /\ WF_shellVars(Nav) /\ WF_shellVars(Shows)
    /\ WF_shellVars(Take) /\ WF_shellVars(Reads)

ShellSpec == ShellInit /\ [][ShellNext]_shellVars /\ ShellFairness

-----------------------------------------------------------------------------
(* Properties *)

(* The types of the program's state. *)
ShellTypeOK ==
    /\ screen \in Screen /\ busy \in BOOLEAN
    /\ opened \in 0 .. MaxConn /\ current \in 0 .. opened
    /\ navs \in [Screen -> Nat] /\ requests \in [Form -> Nat]
    /\ waiting \in [Conn -> Nat] /\ gone \in Nat
    /\ taken \subseteq Conn \X Frame /\ shown \in Seq(Conn \X Frame)
    /\ reader \in [Conn -> {"none", "reading", "pushing", "ended"}]
    /\ held \in [Conn -> 0 .. MaxSent]
    /\ \A c \in Conn : events[c] \in Seq(Frame) /\ Len(events[c]) <= Capacity

(* A form that says it is loading, and so takes no key, waits for an answer *)
(* to itself that is under way, whatever answers to other forms,            *)
(* navigations and disconnections came before it (login.go, app.go).        *)
LoadingAnswered == busy => screen \in Form /\ requests[screen] > 0

(* As long as no command's message came after its time, what the chat view  *)
(* was shown is what the server sent on its connection from the first frame *)
(* on, without a gap, a repetition or an event of an older connection       *)
(* (app.go, ChatEvent; client/chat.go, readLoop).                           *)
ShownInOrder ==
    ~strayed /\ screen = "chat" =>
        shown = [i \in 1 .. Len(shown) |-> <<current, i>>]

(* When the connection of the chat on the screen is lost, the login form    *)
(* says so in the end, unless another connection has taken its place: the   *)
(* chain of waiters does not break (app.go, waitForChatEvent).              *)
LossNoticed ==
    \A c \in Conn :
        (screen = "chat" /\ current = c /\ c \in cut) ~> (screen = "login" \/ current # c)

(* Close ends the read loop, whether it reads or pushes (client/chat.go).   *)
CloseEndsReader == \A c \in Conn : (c \in done) ~> (reader[c] = "ended")

=============================================================================
