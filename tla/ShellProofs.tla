----------------------------- MODULE ShellProofs -----------------------------
(***************************************************************************)
(* Proofs about the client's program, for any number of connections, any   *)
(* frames on them and any capacity of the channel of events.               *)
(*                                                                         *)
(* What the chat view shows is in order because one waiter at a time takes *)
(* from one channel.  The invariant follows a frame from the server to the *)
(* view: each place on the way holds the numbers that come next after      *)
(* those of the place before it.                                           *)
(***************************************************************************)
EXTENDS Shell, SequenceTheorems, TLAPS

(* The types: of the program, of what is under way in it, of what is on its *)
(* way from the server, and of the read loops.                              *)
AppShape ==
    /\ screen \in Screen /\ busy \in BOOLEAN /\ strayed \in BOOLEAN
    /\ opened \in 0 .. MaxConn /\ current = opened
    /\ shown \in Seq(Conn \X Frame)

MsgShape ==
    /\ navs \in [Screen -> Nat] /\ requests \in [Form -> Nat]
    /\ waiting \in [Conn -> Nat] /\ gone \in Nat
    /\ taken \subseteq Conn \X Frame

ServerShape ==
    /\ sent \in [Conn -> 0 .. MaxSent] /\ wire \in [Conn -> Seq(Frame)]
    /\ cut \subseteq Conn

ReadShape ==
    /\ done \subseteq Conn
    /\ reader \in [Conn -> {"none", "reading", "pushing", "ended"}]
    /\ held \in [Conn -> 0 .. MaxSent]
    /\ \A c \in Conn : reader[c] = "pushing" => held[c] \in Frame
    /\ events \in [Conn -> Seq(Frame)]
    /\ \A c \in Conn : Len(events[c]) <= Capacity

ShellShape == AppShape /\ MsgShape /\ ServerShape /\ ReadShape

(* Nothing has happened on a connection that has not been made.             *)
Unused ==
    \A c \in Conn : c > opened =>
        /\ sent[c] = 0 /\ wire[c] = <<>> /\ events[c] = <<>>
        /\ reader[c] = "none" /\ c \notin cut \cup done

(* The chat is shown by Connects alone, and left by Disconnected or, if     *)
(* something goes astray, by an answer or a navigation.                     *)
ChatConnected ==
    /\ navs["chat"] = 0
    /\ screen = "chat" => current \in Conn \ done

(* Until then there is one waiter, event or end to come, and none but of    *)
(* the connection whose chat is shown.                                      *)
OneWaiter ==
    ~strayed =>
        /\ \A c \in Conn : waiting[c] > 0 => c = current /\ waiting[c] = 1 /\ taken = {} /\ gone = 0
        /\ \A e, f \in taken : e = f
        /\ taken # {} => gone = 0
        /\ gone <= 1
        /\ screen # "chat" => taken = {} /\ gone = 0 /\ \A c \in Conn : waiting[c] = 0

(* The last frame that a waiter took, that the read loop pushed, that it    *)
(* read.                                                                    *)
LastTaken     == Len(shown) + (IF taken = {} THEN 0 ELSE 1)
LastPushed(c) == LastTaken + Len(events[c])
LastRead(c)   == LastPushed(c) + (IF reader[c] = "pushing" THEN 1 ELSE 0)

(* The frames of the connection whose chat is shown, from the view back to  *)
(* the server.                                                              *)
Flows(c) ==
    /\ \A i \in 1 .. Len(shown) : shown[i] = <<c, i>>
    /\ \A e \in taken : e = <<c, LastTaken>>
    /\ \A i \in 1 .. Len(events[c]) : events[c][i] = LastTaken + i
    /\ reader[c] = "pushing" => held[c] = LastRead(c)
    /\ \A i \in 1 .. Len(wire[c]) : wire[c][i] = LastRead(c) + i
    /\ c \notin cut => sent[c] = LastRead(c) + Len(wire[c])

FlowsInOrder ==
    ~strayed /\ screen = "chat" => \A c \in Conn : c = current => Flows(c)

ShellInv ==
    /\ ShellShape /\ Unused /\ ChatConnected /\ LoadingAnswered
    /\ OneWaiter /\ FlowsInOrder

-----------------------------------------------------------------------------
(* Counting up, and down from what is there. *)
LEMMA Counting ==
    ASSUME NEW S, NEW g \in [S -> Nat], NEW x \in S
    PROVE  /\ More(g, x) \in [S -> Nat]
           /\ g[x] > 0 => Less(g, x) \in [S -> Nat]
<1>1. g[x] \in Nat /\ g[x] + 1 \in Nat /\ (g[x] > 0 => g[x] - 1 \in Nat)
  OBVIOUS
<1>. QED  BY <1>1 DEF More, Less

(* A step keeps the types. *)
LEMMA AppShapeStep ==
    ASSUME AppShape, MsgShape, [ShellNext]_shellVars
    PROVE  AppShape'
<1>. USE ShellAssumption DEF AppShape
<1>0. CASE UNCHANGED appVars
  BY <1>0 DEF AppShape, appVars
<1>1. ASSUME Submit
      PROVE  AppShape'
  <2>1. busy' = TRUE /\ UNCHANGED <<screen, current, opened, shown, strayed>>
    BY <1>1 DEF Submit
  <2>. QED  BY <2>1
<1>2. ASSUME NEW s \in Screen, Navigate(s)
      PROVE  AppShape'
  <2>1. /\ shown' \in {<<>>, shown} /\ strayed' \in BOOLEAN /\ busy' = FALSE
        /\ UNCHANGED <<current, opened>> /\ screen' \in Screen
    BY <1>2 DEF Navigate, Strays, Screen, Form
  <2>2. <<>> \in Seq(Conn \X Frame)
    OBVIOUS
  <2>. QED  BY <2>1, <2>2
<1>3. ASSUME NEW f \in Form, AuthError(f)
      PROVE  AppShape'
  <2>1. busy' = FALSE /\ UNCHANGED <<screen, current, opened, shown, strayed>>
    BY <1>3 DEF AuthError
  <2>. QED  BY <2>1
<1>4. ASSUME AdminLoggedIn
      PROVE  AppShape'
  <2>1. /\ shown' \in {<<>>, shown} /\ strayed' \in BOOLEAN /\ busy' = FALSE
        /\ UNCHANGED <<current, opened>> /\ screen' \in Screen
    BY <1>4 DEF AdminLoggedIn, Strays, Screen, Form
  <2>2. <<>> \in Seq(Conn \X Frame)
    OBVIOUS
  <2>. QED  BY <2>1, <2>2
<1>5. ASSUME NEW f \in Form, ConnectFails(f)
      PROVE  AppShape'
  <2>1. /\ shown' \in {<<>>, shown} /\ strayed' \in BOOLEAN /\ busy' = FALSE
        /\ UNCHANGED <<current, opened>> /\ screen' \in Screen
    BY <1>5 DEF ConnectFails, Strays, Screen, Form, FormAfterError
  <2>2. <<>> \in Seq(Conn \X Frame)
    OBVIOUS
  <2>. QED  BY <2>1, <2>2
<1>6. ASSUME NEW f \in Form, Connects(f)
      PROVE  AppShape'
  <2>1. /\ shown' = <<>> /\ strayed' \in BOOLEAN /\ busy' = FALSE /\ screen' = "chat"
        /\ current' = opened + 1 /\ opened' = opened + 1 /\ opened < MaxConn
    BY <1>6 DEF Connects, Strays
  <2>2. "chat" \in Screen /\ <<>> \in Seq(Conn \X Frame) /\ opened + 1 \in 0 .. MaxConn
    BY <2>1 DEF Screen
  <2>. QED  BY <2>1, <2>2
<1>7. ASSUME Disconnected
      PROVE  AppShape'
  <2>1. busy' = FALSE /\ screen' = "login" /\ UNCHANGED <<current, opened, shown, strayed>>
    BY <1>7 DEF Disconnected
  <2>. QED  BY <2>1 DEF Screen, Form
<1>8. ASSUME NEW c \in Conn, NEW k \in Frame, ChatEvent(c, k)
      PROVE  AppShape'
  <2>1. <<c, k>> \in Conn \X Frame
    OBVIOUS
  <2>2. Append(shown, <<c, k>>) \in Seq(Conn \X Frame) /\ <<>> \in Seq(Conn \X Frame)
    BY <2>1, AppendProperties
  <2>3. /\ shown' \in {<<>>, shown, Append(shown, <<c, k>>)} /\ strayed' \in BOOLEAN
        /\ UNCHANGED <<screen, busy, current, opened>>
    BY <1>8 DEF ChatEvent, Strays
  <2>. QED  BY <2>2, <2>3
<1>. HIDE DEF AppShape
<1>. QED
  BY <1>0, <1>1, <1>2, <1>3, <1>4, <1>5, <1>6, <1>7, <1>8 DEF ShellNext, Key,
     Answer, Nav, Shows, Take, Reads, Server, WelcomeKey, Back, TakeEvent,
     TakeEnd, ReadFrame, ReaderEnds, PushEvent, ServerSends, ServerCloses,
     shellVars, appVars, msgVars, serverVars, readVars

(* A step keeps the types of what is under way. *)
LEMMA MsgShapeStep ==
    ASSUME AppShape, MsgShape, ReadShape, [ShellNext]_shellVars
    PROVE  MsgShape'
<1>. USE ShellAssumption DEF MsgShape
<1>0. CASE UNCHANGED msgVars
  BY <1>0 DEF MsgShape, msgVars
<1>1. ASSUME NEW f \in Form, WelcomeKey(f)
      PROVE  MsgShape'
  <2>1. navs' = More(navs, f) /\ f \in Screen /\ UNCHANGED <<requests, waiting, taken, gone>>
    BY <1>1 DEF WelcomeKey, Screen
  <2>2. navs' \in [Screen -> Nat]
    BY <2>1, Counting
  <2>. QED  BY <2>1, <2>2
<1>2. ASSUME Back
      PROVE  MsgShape'
  <2>1. navs' = More(navs, "welcome") /\ "welcome" \in Screen /\ UNCHANGED <<requests, waiting, taken, gone>>
    BY <1>2 DEF Back, Screen
  <2>2. navs' \in [Screen -> Nat]
    BY <2>1, Counting
  <2>. QED  BY <2>1, <2>2
<1>3. ASSUME Submit
      PROVE  MsgShape'
  <2>1. requests' = More(requests, screen) /\ screen \in Form /\ UNCHANGED <<navs, waiting, taken, gone>>
    BY <1>3 DEF Submit
  <2>2. requests' \in [Form -> Nat]
    BY <2>1, Counting
  <2>. QED  BY <2>1, <2>2
<1>4. ASSUME NEW s \in Screen, Navigate(s)
      PROVE  MsgShape'
  <2>1. navs' = Less(navs, s) /\ navs[s] > 0 /\ UNCHANGED <<requests, waiting, taken, gone>>
    BY <1>4 DEF Navigate
  <2>2. navs' \in [Screen -> Nat]
    BY <2>1, Counting
  <2>. QED  BY <2>1, <2>2
<1>5. ASSUME NEW f \in Form, AuthError(f)
      PROVE  MsgShape'
  <2>1. requests' = Less(requests, f) /\ requests[f] > 0 /\ UNCHANGED <<navs, waiting, taken, gone>>
    BY <1>5 DEF AuthError
  <2>2. requests' \in [Form -> Nat]
    BY <2>1, Counting
  <2>. QED  BY <2>1, <2>2
<1>6. ASSUME AdminLoggedIn
      PROVE  MsgShape'
  <2>1. requests' = Less(requests, "adminLogin") /\ "adminLogin" \in Form /\ requests["adminLogin"] > 0 /\ UNCHANGED <<navs, waiting, taken, gone>>
    BY <1>6 DEF AdminLoggedIn, Form
  <2>2. requests' \in [Form -> Nat]
    BY <2>1, Counting
  <2>. QED  BY <2>1, <2>2
<1>7. ASSUME NEW f \in Form, ConnectFails(f)
      PROVE  MsgShape'
  <2>1. requests' = Less(requests, f) /\ requests[f] > 0 /\ UNCHANGED <<navs, waiting, taken, gone>>
    BY <1>7 DEF ConnectFails
  <2>2. requests' \in [Form -> Nat]
    BY <2>1, Counting
  <2>. QED  BY <2>1, <2>2
<1>8. ASSUME NEW f \in Form, Connects(f)
      PROVE  MsgShape'
  <2>1. requests' = Less(requests, f) /\ requests[f] > 0
        /\ waiting' = [waiting EXCEPT ![opened + 1] = 1] /\ UNCHANGED <<navs, taken, gone>>
    BY <1>8 DEF Connects, Waiters
  <2>2. requests' \in [Form -> Nat]
    BY <2>1, Counting
  <2>. QED  BY <2>1, <2>2
<1>9. ASSUME Disconnected
      PROVE  MsgShape'
  <2>1. gone > 0 /\ gone' = gone - 1 /\ UNCHANGED <<navs, requests, waiting, taken>>
    BY <1>9 DEF Disconnected
  <2>2. gone' \in Nat
    BY <2>1
  <2>. QED  BY <2>1, <2>2
<1>10. ASSUME NEW c \in Conn, NEW k \in Frame, ChatEvent(c, k)
      PROVE  MsgShape'
  <2>1. taken' \subseteq taken /\ waiting' = More(waiting, current) /\ UNCHANGED <<navs, requests, gone>>
    BY <1>10 DEF ChatEvent, WaitsAgain
  <2>2. waiting' \in [Conn -> Nat]
    <3>1. CASE current \in Conn
      BY <3>1, <2>1, Counting
    <3>2. CASE current \notin Conn
      <4>1. More(waiting, current) = waiting
        BY <3>2 DEF More
      <4>. QED  BY <4>1, <2>1
    <3>. QED  BY <3>1, <3>2
  <2>. QED  BY <2>1, <2>2
<1>11. ASSUME NEW c \in Conn, TakeEvent(c)
      PROVE  MsgShape'
  <2>1. events[c] \in Seq(Frame) /\ events[c] # <<>> /\ Len(events[c]) <= Capacity
    BY <1>11 DEF TakeEvent, ReadShape
  <2>2. /\ Tail(events[c]) \in Seq(Frame) /\ Len(Tail(events[c])) = Len(events[c]) - 1
        /\ Len(events[c]) \in Nat /\ Head(events[c]) \in Frame
    BY <2>1, HeadTailProperties, LenProperties
  <2>3. /\ waiting' = Less(waiting, c) /\ waiting[c] > 0
        /\ taken' = taken \cup {<<c, Head(events[c])>>} /\ UNCHANGED <<navs, requests, gone>>
    BY <1>11 DEF TakeEvent
  <2>4. taken' \subseteq Conn \X Frame
    BY <2>2, <2>3
  <2>5. waiting' \in [Conn -> Nat]
    BY <2>3, Counting
  <2>. QED  BY <2>3, <2>4, <2>5
<1>12. ASSUME NEW c \in Conn, TakeEnd(c)
      PROVE  MsgShape'
  <2>1. /\ waiting' = Less(waiting, c) /\ waiting[c] > 0 /\ gone' = gone + 1
        /\ UNCHANGED <<navs, requests, taken>>
    BY <1>12 DEF TakeEnd
  <2>2. waiting' \in [Conn -> Nat] /\ gone' \in Nat
    BY <2>1, Counting
  <2>. QED  BY <2>1, <2>2
<1>. HIDE DEF MsgShape
<1>. QED
  BY <1>0, <1>1, <1>2, <1>3, <1>4, <1>5, <1>6, <1>7, <1>8, <1>9, <1>10, <1>11,
     <1>12 DEF ShellNext, Key, Answer, Nav, Shows, Take, Reads, Server,
     ReadFrame, ReaderEnds, PushEvent, ServerSends, ServerCloses, shellVars,
     appVars, msgVars, serverVars, readVars

(* A step keeps the types of what is on its way. *)
LEMMA ServerShapeStep ==
    ASSUME AppShape, ServerShape, [ShellNext]_shellVars
    PROVE  ServerShape'
<1>. USE ShellAssumption DEF ServerShape
<1>0. CASE UNCHANGED serverVars
  BY <1>0 DEF ServerShape, serverVars
<1>1. ASSUME NEW c \in Conn, ReadFrame(c)
      PROVE  ServerShape'
  <2>1. wire[c] \in Seq(Frame) /\ wire[c] # <<>>
    BY <1>1 DEF ReadFrame, ServerShape
  <2>2. Head(wire[c]) \in Frame /\ Tail(wire[c]) \in Seq(Frame)
    BY <2>1, HeadTailProperties
  <2>3. wire' = [wire EXCEPT ![c] = Tail(@)] /\ UNCHANGED <<sent, cut>>
    BY <1>1 DEF ReadFrame
  <2>. QED  BY <2>2, <2>3
<1>2. ASSUME NEW c \in Conn, ServerSends(c)
      PROVE  ServerShape'
  <2>1. /\ sent[c] < MaxSent /\ sent' = [sent EXCEPT ![c] = @ + 1] /\ cut' = cut
        /\ wire' = [wire EXCEPT ![c] = Append(@, sent[c] + 1)]
    BY <1>2 DEF ServerSends, More
  <2>2. sent[c] + 1 \in Frame /\ sent[c] + 1 \in 0 .. MaxSent
    BY <2>1 DEF Frame
  <2>3. Append(wire[c], sent[c] + 1) \in Seq(Frame)
    BY <2>2, AppendProperties
  <2>. QED  BY <2>1, <2>2, <2>3
<1>3. ASSUME NEW c \in Conn, ServerCloses(c)
      PROVE  ServerShape'
  <2>1. /\ wire' = wire \/ wire' = [wire EXCEPT ![c] = <<>>]
        /\ sent' = sent /\ cut' = cut \cup {c}
    BY <1>3 DEF ServerCloses
  <2>2. <<>> \in Seq(Frame)
    OBVIOUS
  <2>3. wire' \in [Conn -> Seq(Frame)]
    BY <2>1, <2>2
  <2>. QED  BY <2>1, <2>3
<1>. HIDE DEF ServerShape
<1>. QED
  BY <1>0, <1>1, <1>2, <1>3 DEF ShellNext, Key, Answer, Nav, Shows, Take,
     Reads, Server, WelcomeKey, Back, Submit, Navigate, AuthError,
     AdminLoggedIn, ConnectFails, Connects, Disconnected, ChatEvent,
     TakeEvent, TakeEnd, ReaderEnds, PushEvent, shellVars, appVars, msgVars,
     serverVars, readVars

(* A step keeps the types of the read loops. *)
LEMMA ReadShapeStep ==
    ASSUME ServerShape, ReadShape, [ShellNext]_shellVars
    PROVE  ReadShape'
<1>. USE ShellAssumption DEF ReadShape
<1>0. CASE UNCHANGED readVars
  BY <1>0 DEF ReadShape, readVars
<1>1. ASSUME NEW f \in Form, Connects(f)
      PROVE  ReadShape'
  <2>1. reader' = [reader EXCEPT ![opened + 1] = "reading"] /\ UNCHANGED <<done, held, events>>
    BY <1>1 DEF Connects
  <2>. QED  BY <2>1
<1>2. ASSUME Disconnected
      PROVE  ReadShape'
  <2>1. done' = done \cup ({current} \cap Conn) /\ UNCHANGED <<reader, held, events>>
    BY <1>2 DEF Disconnected
  <2>. QED  BY <2>1
<1>3. ASSUME NEW c \in Conn, TakeEvent(c)
      PROVE  ReadShape'
  <2>1. events[c] \in Seq(Frame) /\ events[c] # <<>> /\ Len(events[c]) <= Capacity
    BY <1>3 DEF TakeEvent, ReadShape
  <2>2. /\ Tail(events[c]) \in Seq(Frame) /\ Len(Tail(events[c])) = Len(events[c]) - 1
        /\ Len(events[c]) \in Nat /\ Head(events[c]) \in Frame
    BY <2>1, HeadTailProperties, LenProperties
  <2>3. events' = [events EXCEPT ![c] = Tail(@)] /\ UNCHANGED <<done, reader, held>>
    BY <1>3 DEF TakeEvent
  <2>4. Len(Tail(events[c])) <= Capacity
    BY <2>1, <2>2
  <2>. QED  BY <2>2, <2>3, <2>4
<1>4. ASSUME NEW c \in Conn, ReadFrame(c)
      PROVE  ReadShape'
  <2>1. wire[c] \in Seq(Frame) /\ wire[c] # <<>>
    BY <1>4 DEF ReadFrame, ServerShape
  <2>2. Head(wire[c]) \in Frame /\ Tail(wire[c]) \in Seq(Frame)
    BY <2>1, HeadTailProperties
  <2>3. /\ held' = [held EXCEPT ![c] = Head(wire[c])] /\ reader' = [reader EXCEPT ![c] = "pushing"]
        /\ UNCHANGED <<done, events>>
    BY <1>4 DEF ReadFrame
  <2>4. Head(wire[c]) \in 0 .. MaxSent
    BY <2>2 DEF Frame
  <2>. QED  BY <2>2, <2>3, <2>4
<1>5. ASSUME NEW c \in Conn, ReaderEnds(c)
      PROVE  ReadShape'
  <2>1. reader' = [reader EXCEPT ![c] = "ended"] /\ UNCHANGED <<done, held, events>>
    BY <1>5 DEF ReaderEnds
  <2>. QED  BY <2>1
<1>6. ASSUME NEW c \in Conn, PushEvent(c)
      PROVE  ReadShape'
  <2>1. /\ reader' = [reader EXCEPT ![c] = "reading"] /\ held' = [held EXCEPT ![c] = 0] /\ done' = done
        /\ \/ Len(events[c]) < Capacity /\ events' = [events EXCEPT ![c] = Append(@, held[c])]
           \/ events' = events
        /\ held[c] \in Frame /\ events[c] \in Seq(Frame)
    BY <1>6 DEF PushEvent, HasRoom
  <2>2. /\ Append(events[c], held[c]) \in Seq(Frame) /\ Len(events[c]) \in Nat
        /\ Len(Append(events[c], held[c])) = Len(events[c]) + 1
    BY <2>1, AppendProperties, LenProperties
  <2>3. events' \in [Conn -> Seq(Frame)] /\ \A d \in Conn : Len(events'[d]) <= Capacity
    <3>1. CASE events' = events
      BY <3>1
    <3>2. CASE Len(events[c]) < Capacity /\ events' = [events EXCEPT ![c] = Append(@, held[c])]
      <4>1. Len(Append(events[c], held[c])) <= Capacity
        BY <3>2, <2>2
      <4>2. \A d \in Conn : events'[d] = IF d = c THEN Append(events[c], held[c]) ELSE events[d]
        BY <3>2
      <4>3. events' \in [Conn -> Seq(Frame)]
        BY <3>2, <2>2
      <4>. QED  BY <4>1, <4>2, <4>3
    <3>. QED  BY <2>1, <3>1, <3>2
  <2>4. 0 \in 0 .. MaxSent
    OBVIOUS
  <2>5. held' \in [Conn -> 0 .. MaxSent] /\ \A d \in Conn : reader'[d] = "pushing" => held'[d] \in Frame
    BY <2>1, <2>4
  <2>6. reader' \in [Conn -> {"none", "reading", "pushing", "ended"}]
    BY <2>1
  <2>. QED  BY <2>1, <2>3, <2>5, <2>6
<1>. HIDE DEF ReadShape
<1>. QED
  BY <1>0, <1>1, <1>2, <1>3, <1>4, <1>5, <1>6 DEF ShellNext, Key, Answer, Nav,
     Shows, Take, Reads, Server, WelcomeKey, Back, Submit, Navigate,
     AuthError, AdminLoggedIn, ConnectFails, ChatEvent, TakeEnd, ServerSends,
     ServerCloses, shellVars, appVars, msgVars, serverVars, readVars

(* A step touches only connections that have been made. *)
LEMMA UnusedStep ==
    ASSUME ShellShape, Unused, [ShellNext]_shellVars
    PROVE  Unused'
<1>. USE ShellAssumption DEF ShellShape, AppShape, ServerShape, ReadShape,
     Unused, Conn, Frame
<1>1. ASSUME UNCHANGED shellVars
      PROVE  Unused'
  BY <1>1 DEF shellVars, appVars, msgVars, serverVars, readVars
<1>2. ASSUME NEW f \in Form, WelcomeKey(f)
      PROVE  Unused'
  BY <1>2 DEF WelcomeKey, More, shellVars, appVars, msgVars, serverVars,
     readVars
<1>3. ASSUME Back
      PROVE  Unused'
  BY <1>3 DEF Back, More, shellVars, appVars, msgVars, serverVars, readVars
<1>4. ASSUME Submit
      PROVE  Unused'
  BY <1>4 DEF Submit, More, shellVars, appVars, msgVars, serverVars, readVars
<1>5. ASSUME NEW s \in Screen, Navigate(s)
      PROVE  Unused'
  BY <1>5 DEF Navigate, Less, Strays, shellVars, appVars, msgVars, serverVars,
     readVars
<1>6. ASSUME NEW f \in Form, AuthError(f)
      PROVE  Unused'
  BY <1>6 DEF AuthError, Less, shellVars, appVars, msgVars, serverVars,
     readVars
<1>7. ASSUME AdminLoggedIn
      PROVE  Unused'
  BY <1>7 DEF AdminLoggedIn, Less, Strays, shellVars, appVars, msgVars,
     serverVars, readVars
<1>8. ASSUME NEW f \in Form, ConnectFails(f)
      PROVE  Unused'
  BY <1>8 DEF ConnectFails, FormAfterError, Less, Strays, shellVars, appVars,
     msgVars, serverVars, readVars
<1>9. ASSUME NEW f \in Form, Connects(f)
      PROVE  Unused'
  <2>1. /\ opened' = opened + 1 /\ reader' = [reader EXCEPT ![opened + 1] = "reading"]
        /\ UNCHANGED <<sent, wire, events, cut, done>>
    BY <1>9 DEF Connects, serverVars
  <2>2. \A d \in Conn : d > opened' => d > opened /\ reader'[d] = reader[d]
    BY <2>1
  <2>. QED  BY <2>1, <2>2
<1>10. ASSUME Disconnected
      PROVE  Unused'
  BY <1>10 DEF Disconnected, shellVars, appVars, msgVars, serverVars, readVars
<1>11. ASSUME NEW c \in Conn, NEW k \in Frame, ChatEvent(c, k)
      PROVE  Unused'
  BY <1>11 DEF ChatEvent, WaitsAgain, More, Strays, shellVars, appVars,
     msgVars, serverVars, readVars
<1>12. ASSUME NEW c \in Conn, TakeEvent(c)
      PROVE  Unused'
  BY <1>12 DEF TakeEvent, Less, shellVars, appVars, msgVars, serverVars,
     readVars
<1>13. ASSUME NEW c \in Conn, TakeEnd(c)
      PROVE  Unused'
  BY <1>13 DEF TakeEnd, Less, shellVars, appVars, msgVars, serverVars,
     readVars
<1>14. ASSUME NEW c \in Conn, ReadFrame(c)
      PROVE  Unused'
  BY <1>14 DEF ReadFrame, shellVars, appVars, msgVars, serverVars, readVars
<1>15. ASSUME NEW c \in Conn, ReaderEnds(c)
      PROVE  Unused'
  BY <1>15 DEF ReaderEnds, shellVars, appVars, msgVars, serverVars, readVars
<1>16. ASSUME NEW c \in Conn, PushEvent(c)
      PROVE  Unused'
  BY <1>16 DEF PushEvent, HasRoom, shellVars, appVars, msgVars, serverVars, readVars
<1>17. ASSUME NEW c \in Conn, ServerSends(c)
      PROVE  Unused'
  BY <1>17 DEF ServerSends, More, shellVars, appVars, msgVars, serverVars,
     readVars
<1>18. ASSUME NEW c \in Conn, ServerCloses(c)
      PROVE  Unused'
  <2>1. /\ c <= opened /\ cut' = cut \cup {c} /\ UNCHANGED <<opened, sent, events, reader, done>>
        /\ \A d \in Conn : d # c => wire'[d] = wire[d]
    BY <1>18 DEF ServerCloses, appVars, readVars
  <2>2. \A d \in Conn : d > opened' => d > opened /\ d # c
    BY <2>1
  <2>3. \A d \in Conn : d > opened' => sent'[d] = 0 /\ wire'[d] = <<>> /\ events'[d] = <<>> /\ reader'[d] = "none"
    BY <2>1, <2>2
  <2>4. \A d \in Conn : d > opened' => d \notin cut' \cup done'
    BY <2>1, <2>2
  <2>. QED  BY <2>3, <2>4
<1>. HIDE DEF Unused
<1>. QED
  BY <1>1, <1>2, <1>3, <1>4, <1>5, <1>6, <1>7, <1>8, <1>9, <1>10, <1>11,
     <1>12, <1>13, <1>14, <1>15, <1>16, <1>17, <1>18 DEF ShellNext, Key,
     Answer, Nav, Shows, Take, Reads, Server

(* A step shows the chat only with a connection that is not closed. *)
LEMMA ChatConnectedStep ==
    ASSUME ShellShape, Unused, ChatConnected, [ShellNext]_shellVars
    PROVE  ChatConnected'
<1>. USE ShellAssumption DEF ShellShape, AppShape, MsgShape, Unused,
     ChatConnected, Screen, Form, Conn
<1>1. ASSUME UNCHANGED shellVars
      PROVE  ChatConnected'
  BY <1>1 DEF shellVars, appVars, msgVars, serverVars, readVars
<1>2. ASSUME NEW f \in Form, WelcomeKey(f)
      PROVE  ChatConnected'
  BY <1>2 DEF WelcomeKey, More, shellVars, appVars, msgVars, serverVars,
     readVars
<1>3. ASSUME Back
      PROVE  ChatConnected'
  BY <1>3 DEF Back, More, shellVars, appVars, msgVars, serverVars, readVars
<1>4. ASSUME Submit
      PROVE  ChatConnected'
  BY <1>4 DEF Submit, More, shellVars, appVars, msgVars, serverVars, readVars
<1>5. ASSUME NEW s \in Screen, Navigate(s)
      PROVE  ChatConnected'
  BY <1>5 DEF Navigate, Less, Strays, shellVars, appVars, msgVars, serverVars,
     readVars
<1>6. ASSUME NEW f \in Form, AuthError(f)
      PROVE  ChatConnected'
  BY <1>6 DEF AuthError, Less, shellVars, appVars, msgVars, serverVars,
     readVars
<1>7. ASSUME AdminLoggedIn
      PROVE  ChatConnected'
  BY <1>7 DEF AdminLoggedIn, Less, Strays, shellVars, appVars, msgVars,
     serverVars, readVars
<1>8. ASSUME NEW f \in Form, ConnectFails(f)
      PROVE  ChatConnected'
  BY <1>8 DEF ConnectFails, FormAfterError, Less, Strays, shellVars, appVars,
     msgVars, serverVars, readVars
<1>9. ASSUME NEW f \in Form, Connects(f)
      PROVE  ChatConnected'
  BY <1>9 DEF Connects, Waiters, Less, Strays, shellVars, appVars, msgVars,
     serverVars, readVars
<1>10. ASSUME Disconnected
      PROVE  ChatConnected'
  BY <1>10 DEF Disconnected, shellVars, appVars, msgVars, serverVars, readVars
<1>11. ASSUME NEW c \in Conn, NEW k \in Frame, ChatEvent(c, k)
      PROVE  ChatConnected'
  BY <1>11 DEF ChatEvent, WaitsAgain, More, Strays, shellVars, appVars,
     msgVars, serverVars, readVars
<1>12. ASSUME NEW c \in Conn, TakeEvent(c)
      PROVE  ChatConnected'
  BY <1>12 DEF TakeEvent, Less, shellVars, appVars, msgVars, serverVars,
     readVars
<1>13. ASSUME NEW c \in Conn, TakeEnd(c)
      PROVE  ChatConnected'
  BY <1>13 DEF TakeEnd, Less, shellVars, appVars, msgVars, serverVars,
     readVars
<1>14. ASSUME NEW c \in Conn, ReadFrame(c)
      PROVE  ChatConnected'
  BY <1>14 DEF ReadFrame, shellVars, appVars, msgVars, serverVars, readVars
<1>15. ASSUME NEW c \in Conn, ReaderEnds(c)
      PROVE  ChatConnected'
  BY <1>15 DEF ReaderEnds, shellVars, appVars, msgVars, serverVars, readVars
<1>16. ASSUME NEW c \in Conn, PushEvent(c)
      PROVE  ChatConnected'
  BY <1>16 DEF PushEvent, HasRoom, shellVars, appVars, msgVars, serverVars, readVars
<1>17. ASSUME NEW c \in Conn, ServerSends(c)
      PROVE  ChatConnected'
  BY <1>17 DEF ServerSends, More, shellVars, appVars, msgVars, serverVars,
     readVars
<1>18. ASSUME NEW c \in Conn, ServerCloses(c)
      PROVE  ChatConnected'
  BY <1>18 DEF ServerCloses, shellVars, appVars, msgVars, serverVars, readVars
<1>. HIDE DEF ChatConnected
<1>. QED
  BY <1>1, <1>2, <1>3, <1>4, <1>5, <1>6, <1>7, <1>8, <1>9, <1>10, <1>11,
     <1>12, <1>13, <1>14, <1>15, <1>16, <1>17, <1>18 DEF ShellNext, Key,
     Answer, Nav, Shows, Take, Reads, Server

(* A step leaves a form that is loading with an answer under way. *)
LEMMA LoadingAnsweredStep ==
    ASSUME ShellShape, LoadingAnswered, [ShellNext]_shellVars
    PROVE  LoadingAnswered'
<1>. USE DEF ShellShape, AppShape, MsgShape, LoadingAnswered, Form
<1>1. ASSUME UNCHANGED shellVars
      PROVE  LoadingAnswered'
  BY <1>1 DEF shellVars, appVars, msgVars, serverVars, readVars
<1>2. ASSUME NEW f \in Form, WelcomeKey(f)
      PROVE  LoadingAnswered'
  BY <1>2 DEF WelcomeKey, More, shellVars, appVars, msgVars, serverVars,
     readVars
<1>3. ASSUME Back
      PROVE  LoadingAnswered'
  BY <1>3 DEF Back, More, shellVars, appVars, msgVars, serverVars, readVars
<1>4. ASSUME Submit
      PROVE  LoadingAnswered'
  BY <1>4 DEF Submit, More, shellVars, appVars, msgVars, serverVars, readVars
<1>5. ASSUME NEW s \in Screen, Navigate(s)
      PROVE  LoadingAnswered'
  BY <1>5 DEF Navigate, Less, Strays, shellVars, appVars, msgVars, serverVars,
     readVars
<1>6. ASSUME NEW f \in Form, AuthError(f)
      PROVE  LoadingAnswered'
  BY <1>6 DEF AuthError, Less, shellVars, appVars, msgVars, serverVars,
     readVars
<1>7. ASSUME AdminLoggedIn
      PROVE  LoadingAnswered'
  BY <1>7 DEF AdminLoggedIn, Less, Strays, shellVars, appVars, msgVars,
     serverVars, readVars
<1>8. ASSUME NEW f \in Form, ConnectFails(f)
      PROVE  LoadingAnswered'
  BY <1>8 DEF ConnectFails, FormAfterError, Less, Strays, shellVars, appVars,
     msgVars, serverVars, readVars
<1>9. ASSUME NEW f \in Form, Connects(f)
      PROVE  LoadingAnswered'
  BY <1>9 DEF Connects, Waiters, Less, Strays, shellVars, appVars, msgVars,
     serverVars, readVars
<1>10. ASSUME Disconnected
      PROVE  LoadingAnswered'
  BY <1>10 DEF Disconnected, shellVars, appVars, msgVars, serverVars, readVars
<1>11. ASSUME NEW c \in Conn, NEW k \in Frame, ChatEvent(c, k)
      PROVE  LoadingAnswered'
  BY <1>11 DEF ChatEvent, WaitsAgain, More, Strays, shellVars, appVars,
     msgVars, serverVars, readVars
<1>12. ASSUME NEW c \in Conn, TakeEvent(c)
      PROVE  LoadingAnswered'
  BY <1>12 DEF TakeEvent, Less, shellVars, appVars, msgVars, serverVars,
     readVars
<1>13. ASSUME NEW c \in Conn, TakeEnd(c)
      PROVE  LoadingAnswered'
  BY <1>13 DEF TakeEnd, Less, shellVars, appVars, msgVars, serverVars,
     readVars
<1>14. ASSUME NEW c \in Conn, ReadFrame(c)
      PROVE  LoadingAnswered'
  BY <1>14 DEF ReadFrame, shellVars, appVars, msgVars, serverVars, readVars
<1>15. ASSUME NEW c \in Conn, ReaderEnds(c)
      PROVE  LoadingAnswered'
  BY <1>15 DEF ReaderEnds, shellVars, appVars, msgVars, serverVars, readVars
<1>16. ASSUME NEW c \in Conn, PushEvent(c)
      PROVE  LoadingAnswered'
  BY <1>16 DEF PushEvent, HasRoom, shellVars, appVars, msgVars, serverVars, readVars
<1>17. ASSUME NEW c \in Conn, ServerSends(c)
      PROVE  LoadingAnswered'
  BY <1>17 DEF ServerSends, More, shellVars, appVars, msgVars, serverVars,
     readVars
<1>18. ASSUME NEW c \in Conn, ServerCloses(c)
      PROVE  LoadingAnswered'
  BY <1>18 DEF ServerCloses, shellVars, appVars, msgVars, serverVars, readVars
<1>. HIDE DEF LoadingAnswered
<1>. QED
  BY <1>1, <1>2, <1>3, <1>4, <1>5, <1>6, <1>7, <1>8, <1>9, <1>10, <1>11,
     <1>12, <1>13, <1>14, <1>15, <1>16, <1>17, <1>18 DEF ShellNext, Key,
     Answer, Nav, Shows, Take, Reads, Server

(* A step leaves one waiter, event or end to come. *)
LEMMA OneWaiterStep ==
    ASSUME ShellShape, ChatConnected, OneWaiter, [ShellNext]_shellVars
    PROVE  OneWaiter'
<1>. USE ShellAssumption DEF ShellShape, AppShape, MsgShape, ChatConnected,
     OneWaiter, Form, Screen, Conn
<1>1. ASSUME UNCHANGED shellVars
      PROVE  OneWaiter'
  BY <1>1 DEF shellVars, appVars, msgVars, serverVars, readVars
<1>2. ASSUME NEW f \in Form, WelcomeKey(f)
      PROVE  OneWaiter'
  BY <1>2 DEF WelcomeKey, More, shellVars, appVars, msgVars, serverVars,
     readVars
<1>3. ASSUME Back
      PROVE  OneWaiter'
  BY <1>3 DEF Back, More, shellVars, appVars, msgVars, serverVars, readVars
<1>4. ASSUME Submit
      PROVE  OneWaiter'
  BY <1>4 DEF Submit, More, shellVars, appVars, msgVars, serverVars, readVars
<1>5. ASSUME NEW s \in Screen, Navigate(s)
      PROVE  OneWaiter'
  BY <1>5 DEF Navigate, Less, Strays, shellVars, appVars, msgVars, serverVars,
     readVars
<1>6. ASSUME NEW f \in Form, AuthError(f)
      PROVE  OneWaiter'
  BY <1>6 DEF AuthError, Less, shellVars, appVars, msgVars, serverVars,
     readVars
<1>7. ASSUME AdminLoggedIn
      PROVE  OneWaiter'
  BY <1>7 DEF AdminLoggedIn, Less, Strays, shellVars, appVars, msgVars,
     serverVars, readVars
<1>8. ASSUME NEW f \in Form, ConnectFails(f)
      PROVE  OneWaiter'
  BY <1>8 DEF ConnectFails, FormAfterError, Less, Strays, shellVars, appVars,
     msgVars, serverVars, readVars
<1>9. ASSUME NEW f \in Form, Connects(f)
      PROVE  OneWaiter'
  <2>1. /\ opened' = opened + 1 /\ current' = opened + 1 /\ opened < MaxConn /\ screen' = "chat"
        /\ waiting' = [waiting EXCEPT ![opened + 1] = 1] /\ UNCHANGED <<taken, gone>>
        /\ strayed' = (strayed \/ taken # {} \/ gone > 0 \/ \E d \in Conn : waiting[d] > 0)
    BY <1>9 DEF Connects, Strays, Waiters
  <2>2. ASSUME ~strayed'
        PROVE  /\ taken' = {} /\ gone' = 0
               /\ \A d \in Conn : waiting'[d] > 0 => d = current' /\ waiting'[d] = 1
    <3>1. ~strayed /\ taken = {} /\ ~ (gone > 0) /\ \A d \in Conn : ~ (waiting[d] > 0)
      BY <2>1, <2>2, Zenon
    <3>2. \A d \in Conn : waiting'[d] > 0 => d = current' /\ waiting'[d] = 1
      BY <2>1, <3>1
    <3>. QED  BY <2>1, <3>1, <3>2
  <2>. QED  BY <2>1, <2>2
<1>10. ASSUME Disconnected
      PROVE  OneWaiter'
  BY <1>10 DEF Disconnected, shellVars, appVars, msgVars, serverVars, readVars
<1>11. ASSUME NEW c \in Conn, NEW k \in Frame, ChatEvent(c, k)
      PROVE  OneWaiter'
  <2>1. /\ <<c, k>> \in taken /\ taken' = taken \ {<<c, k>>} /\ strayed' = strayed
        /\ waiting' = [waiting EXCEPT ![current] = @ + 1] /\ UNCHANGED <<screen, current, gone>>
    BY <1>11 DEF ChatEvent, Strays, WaitsAgain, More
  <2>2. ASSUME ~strayed
        PROVE  /\ taken' = {} /\ gone = 0 /\ screen = "chat"
               /\ \A d \in Conn : waiting[d] = 0
    <3>1. taken # {}
      BY <2>1
    <3>2. gone = 0 /\ screen = "chat" /\ \A d \in Conn : ~ (waiting[d] > 0)
      BY <2>2, <3>1
    <3>3. taken' = {}
      BY <2>1, <2>2
    <3>. QED  BY <3>2, <3>3
  <2>3. ASSUME ~strayed
        PROVE  \A d \in Conn : waiting'[d] > 0 => d = current' /\ waiting'[d] = 1
    BY <2>1, <2>2, <2>3
  <2>. QED  BY <2>1, <2>2, <2>3
<1>12. ASSUME NEW c \in Conn, TakeEvent(c)
      PROVE  OneWaiter'
  <2>1. /\ waiting[c] > 0 /\ waiting' = [waiting EXCEPT ![c] = @ - 1]
        /\ taken' = taken \cup {<<c, Head(events[c])>>} /\ UNCHANGED <<screen, current, gone, strayed>>
    BY <1>12 DEF TakeEvent, Less, appVars
  <2>2. ASSUME ~strayed
        PROVE  /\ taken = {} /\ gone = 0 /\ screen = "chat" /\ waiting[c] = 1
               /\ \A d \in Conn : d # c => waiting[d] = 0
    BY <2>1, <2>2
  <2>3. ASSUME ~strayed
        PROVE  /\ \A d \in Conn : waiting'[d] = 0
               /\ taken' = {<<c, Head(events[c])>>}
    BY <2>1, <2>2, <2>3
  <2>4. strayed' = strayed /\ gone' = gone /\ screen' = screen
    BY <2>1
  <2>5. ASSUME ~strayed
        PROVE  /\ \A d \in Conn : ~ (waiting'[d] > 0)
               /\ \A e, f \in taken' : e = f
               /\ gone' = 0 /\ screen' = "chat"
    <3>1. \A e, f \in taken' : e = f
      BY <2>3, <2>5, Zenon
    <3>2. \A d \in Conn : ~ (waiting'[d] > 0)
      BY <2>3, <2>5
    <3>. QED  BY <2>2, <2>4, <2>5, <3>1, <3>2
  <2>. QED  BY <2>4, <2>5
<1>13. ASSUME NEW c \in Conn, TakeEnd(c)
      PROVE  OneWaiter'
  BY <1>13 DEF TakeEnd, Less, shellVars, appVars, msgVars, serverVars,
     readVars
<1>14. ASSUME NEW c \in Conn, ReadFrame(c)
      PROVE  OneWaiter'
  BY <1>14 DEF ReadFrame, shellVars, appVars, msgVars, serverVars, readVars
<1>15. ASSUME NEW c \in Conn, ReaderEnds(c)
      PROVE  OneWaiter'
  BY <1>15 DEF ReaderEnds, shellVars, appVars, msgVars, serverVars, readVars
<1>16. ASSUME NEW c \in Conn, PushEvent(c)
      PROVE  OneWaiter'
  BY <1>16 DEF PushEvent, HasRoom, shellVars, appVars, msgVars, serverVars, readVars
<1>17. ASSUME NEW c \in Conn, ServerSends(c)
      PROVE  OneWaiter'
  BY <1>17 DEF ServerSends, More, shellVars, appVars, msgVars, serverVars,
     readVars
<1>18. ASSUME NEW c \in Conn, ServerCloses(c)
      PROVE  OneWaiter'
  BY <1>18 DEF ServerCloses, shellVars, appVars, msgVars, serverVars, readVars
<1>. HIDE DEF OneWaiter
<1>. QED
  BY <1>1, <1>2, <1>3, <1>4, <1>5, <1>6, <1>7, <1>8, <1>9, <1>10, <1>11,
     <1>12, <1>13, <1>14, <1>15, <1>16, <1>17, <1>18 DEF ShellNext, Key,
     Answer, Nav, Shows, Take, Reads, Server

(* The frames of a connection stay as they are. *)
LEMMA FlowsKept ==
    ASSUME NEW c \in Conn, Flows(c), shown' = shown, taken' = taken,
           events'[c] = events[c], held'[c] = held[c], wire'[c] = wire[c],
           sent'[c] = sent[c], reader'[c] = "pushing" <=> reader[c] = "pushing",
           c \in cut => c \in cut'
    PROVE  Flows(c)'
<1>1. LastTaken' = LastTaken
  BY DEF LastTaken
<1>2. LastRead(c)' = LastRead(c)
  BY <1>1 DEF LastRead, LastPushed
<1>3. /\ \A i \in 1 .. Len(shown) : shown[i] = <<c, i>>
      /\ \A e \in taken : e = <<c, LastTaken>>
      /\ \A i \in 1 .. Len(events[c]) : events[c][i] = LastTaken + i
      /\ reader[c] = "pushing" => held[c] = LastRead(c)
      /\ \A i \in 1 .. Len(wire[c]) : wire[c][i] = LastRead(c) + i
      /\ c \notin cut => sent[c] = LastRead(c) + Len(wire[c])
  BY DEF Flows
<1>. QED  BY <1>1, <1>2, <1>3 DEF Flows

(* A step leaves the frames on their way in order. *)
LEMMA FlowsInOrderStep ==
    ASSUME ShellShape, Unused, ChatConnected, OneWaiter, FlowsInOrder,
           [ShellNext]_shellVars
    PROVE  FlowsInOrder'
<1>. SUFFICES ASSUME ~strayed', screen' = "chat", NEW c \in Conn, c = current'
              PROVE  Flows(c)'
  BY DEF FlowsInOrder
<1>1. /\ shown \in Seq(Conn \X Frame) /\ events[c] \in Seq(Frame) /\ wire[c] \in Seq(Frame)
      /\ sent[c] \in Nat /\ held[c] \in Nat
      /\ Len(shown) \in Nat /\ Len(events[c]) \in Nat /\ Len(wire[c]) \in Nat
  BY LenProperties DEF ShellShape, AppShape, ServerShape, ReadShape
<1>2. LastTaken \in Nat /\ LastPushed(c) \in Nat /\ LastRead(c) \in Nat
  <2>1. LastTaken \in Nat
    BY <1>1 DEF LastTaken
  <2>2. LastPushed(c) \in Nat
    BY <1>1, <2>1 DEF LastPushed
  <2>. QED  BY <2>1, <2>2 DEF LastRead
<1>3. ASSUME ~strayed, screen = "chat", c = current
      PROVE  /\ Flows(c) /\ c \notin done
             /\ \A i \in 1 .. Len(shown) : shown[i] = <<c, i>>
             /\ \A e \in taken : e = <<c, LastTaken>>
             /\ \A i \in 1 .. Len(events[c]) : events[c][i] = LastTaken + i
             /\ reader[c] = "pushing" => held[c] = LastRead(c)
             /\ \A i \in 1 .. Len(wire[c]) : wire[c][i] = LastRead(c) + i
             /\ c \notin cut => sent[c] = LastRead(c) + Len(wire[c])
  <2>1. Flows(c) /\ c \notin done
    BY <1>3 DEF FlowsInOrder, ChatConnected
  <2>. QED  BY <2>1 DEF Flows
<1>4. CASE UNCHANGED <<strayed, screen, current, shown, taken, events, held, wire, sent, reader, cut>>
  <2>1. Flows(c)
    BY <1>3, <1>4
  <2>. QED  BY <1>4, <2>1, FlowsKept
<1>5. ASSUME NEW s \in Screen, Navigate(s)
      PROVE  FALSE
  BY <1>5 DEF Navigate, ChatConnected
<1>6. ASSUME AdminLoggedIn
      PROVE  FALSE
  BY <1>6 DEF AdminLoggedIn
<1>7. ASSUME NEW f \in Form, ConnectFails(f)
      PROVE  FALSE
  BY <1>7 DEF ConnectFails, Form
<1>8. ASSUME Disconnected
      PROVE  FALSE
  BY <1>8 DEF Disconnected
<1>9. ASSUME NEW f \in Form, Connects(f)
      PROVE  Flows(c)'
  <2>1. /\ shown' = <<>> /\ taken' = taken /\ c = opened + 1
        /\ strayed' = (strayed \/ taken # {} \/ gone > 0 \/ \E d \in Conn : waiting[d] > 0)
        /\ reader' = [reader EXCEPT ![c] = "reading"]
        /\ UNCHANGED <<sent, wire, cut, held, events>>
    BY <1>9 DEF Connects, Strays, serverVars
  <2>2. taken = {}
    BY <2>1
  <2>3. sent[c] = 0 /\ wire[c] = <<>> /\ events[c] = <<>>
    BY <2>1, ShellAssumption DEF Unused, Conn, ShellShape, AppShape
  <2>4. reader'[c] # "pushing"
    BY <2>1 DEF ShellShape, ReadShape
  <2>5. LastTaken' = 0
    BY <2>1, <2>2 DEF LastTaken
  <2>6. LastRead(c)' = 0
    BY <2>1, <2>3, <2>4, <2>5 DEF LastRead, LastPushed
  <2>. QED  BY <2>1, <2>2, <2>3, <2>4, <2>5, <2>6 DEF Flows
<1>10. ASSUME NEW d \in Conn, NEW k \in Frame, ChatEvent(d, k)
       PROVE  Flows(c)'
  <2>1. /\ <<d, k>> \in taken /\ taken' = taken \ {<<d, k>>}
        /\ ~strayed /\ screen = "chat" /\ c = current /\ shown' = Append(shown, <<d, k>>)
        /\ UNCHANGED <<sent, wire, cut, reader, held, events>>
    BY <1>10 DEF ChatEvent, Strays, serverVars, readVars
  <2>2. <<d, k>> = <<c, LastTaken>> /\ taken' = {}
    BY <1>3, <2>1
  <2>3. LastTaken = Len(shown) + 1
    BY <2>1 DEF LastTaken
  <2>4. shown' = Append(shown, <<c, LastTaken>>)
    BY <2>1, <2>2
  <2>5. /\ Len(shown') = Len(shown) + 1
        /\ \A i \in 1 .. Len(shown) : shown'[i] = shown[i]
        /\ shown'[Len(shown) + 1] = <<c, LastTaken>>
    <3>1. <<c, LastTaken>> \in Conn \X Frame
      BY <2>2
    <3>. QED  BY <1>1, <2>4, <3>1, AppendProperties
  <2>6. LastTaken' = LastTaken
    BY <1>1, <2>2, <2>3, <2>5 DEF LastTaken
  <2>7. LastRead(c)' = LastRead(c)
    BY <2>1, <2>6 DEF LastRead, LastPushed
  <2>8. \A i \in 1 .. Len(shown') : shown'[i] = <<c, i>>
    <3>. TAKE i \in 1 .. Len(shown')
    <3>1. CASE i = Len(shown) + 1
      BY <2>3, <2>5, <3>1
    <3>2. CASE i # Len(shown) + 1
      <4>1. i \in 1 .. Len(shown)
        BY <1>1, <2>5, <3>2
      <4>. QED  BY <1>3, <2>1, <2>5, <4>1
    <3>. QED  BY <3>1, <3>2
  <2>. QED  BY <1>3, <2>1, <2>2, <2>6, <2>7, <2>8 DEF Flows
<1>11. ASSUME NEW d \in Conn, TakeEvent(d)
       PROVE  Flows(c)'
  <2>1. /\ waiting[d] > 0 /\ events[d] # <<>> /\ taken' = taken \cup {<<d, Head(events[d])>>}
        /\ events' = [events EXCEPT ![d] = Tail(@)]
        /\ ~strayed /\ screen = "chat" /\ c = current
        /\ UNCHANGED <<shown, sent, wire, cut, reader, held>>
    BY <1>11 DEF TakeEvent, appVars, serverVars
  <2>2. d = c /\ taken = {}
    BY <2>1 DEF OneWaiter
  <2>3. events[c] # <<>>
    BY <2>1, <2>2
  <2>4. /\ Head(events[c]) = events[c][1] /\ Len(Tail(events[c])) = Len(events[c]) - 1
        /\ Len(events[c]) >= 1
        /\ \A i \in 1 .. Len(Tail(events[c])) : Tail(events[c])[i] = events[c][i + 1]
    BY <1>1, <2>3, HeadTailProperties, LenProperties, EmptySeq
  <2>5. LastTaken = Len(shown) /\ LastTaken' = LastTaken + 1
    <3>1. taken' # {}
      BY <2>1
    <3>2. LastTaken = Len(shown)
      BY <1>1, <2>2 DEF LastTaken
    <3>3. LastTaken' = Len(shown) + 1
      BY <2>1, <3>1 DEF LastTaken
    <3>. QED  BY <3>2, <3>3
  <2>6. events'[c] = Tail(events[c])
    BY <2>1, <2>2 DEF ShellShape, ReadShape
  <2>7. LastRead(c)' = LastRead(c)
    <3>1. LastPushed(c)' = LastPushed(c)
      <4>1. Len(events'[c]) = Len(events[c]) - 1
        BY <2>4, <2>6
      <4>2. LastTaken' + Len(events'[c]) = LastTaken + Len(events[c])
        <5>1. LastTaken \in Int /\ Len(events[c]) \in Int
          BY <1>1, <1>2
        <5>2. \A a, b \in Int : (a + 1) + (b - 1) = a + b
          OBVIOUS
        <5>3. (LastTaken + 1) + (Len(events[c]) - 1) = LastTaken + Len(events[c])
          BY <5>1, <5>2
        <5>. QED  BY <2>5, <4>1, <5>3
      <4>. QED  BY <4>2 DEF LastPushed
    <3>. QED  BY <2>1, <3>1 DEF LastRead
  <2>8. \A e \in taken' : e = <<c, LastTaken'>>
    <3>1. Head(events[c]) = LastTaken + 1
      BY <1>1, <1>2, <1>3, <2>1, <2>4
    <3>2. taken' = {<<c, LastTaken'>>}
      BY <2>1, <2>2, <2>5, <3>1
    <3>. QED  BY <3>2
  <2>9. \A i \in 1 .. Len(events'[c]) : events'[c][i] = LastTaken' + i
    <3>. TAKE i \in 1 .. Len(events'[c])
    <3>1. i + 1 \in 1 .. Len(events[c]) /\ events'[c][i] = events[c][i + 1]
      BY <1>1, <2>4, <2>6
    <3>2. events[c][i + 1] = LastTaken + (i + 1)
      BY <1>3, <2>1, <3>1
    <3>3. LastTaken \in Int /\ i \in Int
      BY <1>2
    <3>4. LastTaken + (i + 1) = (LastTaken + 1) + i
      BY <3>3
    <3>. QED  BY <2>5, <3>1, <3>2, <3>4
  <2>. QED  BY <1>3, <2>1, <2>7, <2>8, <2>9 DEF Flows
<1>12. ASSUME NEW d \in Conn, ReadFrame(d)
       PROVE  Flows(c)'
  <2>1. /\ reader[d] = "reading" /\ wire[d] # <<>>
        /\ held' = [held EXCEPT ![d] = Head(wire[d])] /\ wire' = [wire EXCEPT ![d] = Tail(@)]
        /\ reader' = [reader EXCEPT ![d] = "pushing"]
        /\ ~strayed /\ screen = "chat" /\ c = current
        /\ UNCHANGED <<shown, taken, sent, cut, events>>
    BY <1>12 DEF ReadFrame, appVars, msgVars
  <2>2. CASE d # c
    <3>1. held'[c] = held[c] /\ wire'[c] = wire[c] /\ reader'[c] = reader[c]
      BY <2>1, <2>2 DEF ShellShape, ServerShape, ReadShape
    <3>. QED  BY <1>3, <2>1, <3>1, FlowsKept
  <2>3. CASE d = c
    <3>1. /\ held'[c] = Head(wire[c]) /\ wire'[c] = Tail(wire[c]) /\ reader'[c] = "pushing"
      BY <2>1, <2>3 DEF ShellShape, ServerShape, ReadShape
    <3>2. /\ Head(wire[c]) = wire[c][1] /\ Len(Tail(wire[c])) = Len(wire[c]) - 1
          /\ Len(wire[c]) >= 1
          /\ \A i \in 1 .. Len(Tail(wire[c])) : Tail(wire[c])[i] = wire[c][i + 1]
      BY <1>1, <2>1, <2>3, HeadTailProperties, LenProperties, EmptySeq
    <3>3. LastTaken' = LastTaken
      BY <2>1 DEF LastTaken
    <3>4. LastRead(c)' = LastRead(c) + 1
      <4>1. LastPushed(c)' = LastPushed(c)
        BY <2>1, <3>3 DEF LastPushed
      <4>2. LastRead(c) = LastPushed(c)
        BY <1>2, <2>1, <2>3 DEF LastRead
      <4>. QED  BY <3>1, <4>1, <4>2 DEF LastRead
    <3>5. held'[c] = LastRead(c)'
      BY <1>1, <1>2, <1>3, <2>1, <3>1, <3>2, <3>4
    <3>6. \A i \in 1 .. Len(wire'[c]) : wire'[c][i] = LastRead(c)' + i
      <4>. TAKE i \in 1 .. Len(wire'[c])
      <4>1. i + 1 \in 1 .. Len(wire[c]) /\ wire'[c][i] = wire[c][i + 1]
        BY <1>1, <3>1, <3>2
      <4>2. wire[c][i + 1] = LastRead(c) + (i + 1)
        BY <1>3, <2>1, <4>1
      <4>. QED  BY <1>1, <1>2, <3>4, <4>1, <4>2
    <3>7. c \notin cut => sent[c] = LastRead(c)' + Len(wire'[c])
      <4>1. c \notin cut => sent[c] = LastRead(c) + Len(wire[c])
        BY <1>3, <2>1
      <4>2. Len(wire'[c]) = Len(wire[c]) - 1
        BY <3>1, <3>2
      <4>. QED  BY <1>1, <1>2, <3>4, <4>1, <4>2
    <3>. QED  BY <1>3, <2>1, <3>3, <3>5, <3>6, <3>7 DEF Flows
  <2>. QED  BY <2>2, <2>3
<1>13. ASSUME NEW d \in Conn, ReaderEnds(d)
       PROVE  Flows(c)'
  <2>1. /\ reader[d] = "reading" /\ reader' = [reader EXCEPT ![d] = "ended"]
        /\ ~strayed /\ screen = "chat" /\ c = current
        /\ UNCHANGED <<shown, taken, sent, wire, cut, held, events>>
    BY <1>13 DEF ReaderEnds, appVars, msgVars, serverVars
  <2>2. reader'[c] = "pushing" <=> reader[c] = "pushing"
    BY <2>1 DEF ShellShape, ReadShape
  <2>. QED  BY <1>3, <2>1, <2>2, FlowsKept
<1>14. ASSUME NEW d \in Conn, PushEvent(d)
       PROVE  Flows(c)'
  <2>1. /\ reader[d] = "pushing" /\ reader' = [reader EXCEPT ![d] = "reading"]
        /\ \/ events' = [events EXCEPT ![d] = Append(@, held[d])]
           \/ d \in done /\ events' = events
        /\ held' = [held EXCEPT ![d] = 0]
        /\ ~strayed /\ screen = "chat" /\ c = current
        /\ UNCHANGED <<shown, taken, sent, wire, cut>>
    BY <1>14 DEF PushEvent, HasRoom, appVars, msgVars, serverVars
  <2>2. CASE d # c
    <3>1. held'[c] = held[c] /\ events'[c] = events[c] /\ reader'[c] = reader[c]
      BY <2>1, <2>2 DEF ShellShape, ReadShape
    <3>. QED  BY <1>3, <2>1, <3>1, FlowsKept
  <2>3. CASE d = c
    <3>1. events'[c] = Append(events[c], held[c]) /\ reader'[c] = "reading" /\ reader[c] = "pushing"
      BY <1>3, <2>1, <2>3 DEF ShellShape, ReadShape
    <3>2. held[c] \in Frame /\ held[c] = LastRead(c)
      BY <1>3, <2>1, <3>1 DEF ShellShape, ReadShape
    <3>3. /\ Len(events'[c]) = Len(events[c]) + 1
          /\ \A i \in 1 .. Len(events[c]) : events'[c][i] = events[c][i]
          /\ events'[c][Len(events[c]) + 1] = held[c]
      BY <1>1, <3>1, <3>2, AppendProperties
    <3>4. LastTaken' = LastTaken
      BY <2>1 DEF LastTaken
    <3>5. LastRead(c) = LastTaken + Len(events[c]) + 1
      BY <1>1, <1>2, <3>1 DEF LastRead, LastPushed
    <3>6. LastRead(c)' = LastRead(c)
      BY <1>1, <1>2, <3>1, <3>3, <3>4, <3>5 DEF LastRead, LastPushed
    <3>7. \A i \in 1 .. Len(events'[c]) : events'[c][i] = LastTaken + i
      <4>. TAKE i \in 1 .. Len(events'[c])
      <4>1. CASE i = Len(events[c]) + 1
        BY <1>1, <1>2, <3>2, <3>3, <3>5, <4>1
      <4>2. CASE i # Len(events[c]) + 1
        <5>1. i \in 1 .. Len(events[c])
          BY <1>1, <3>3, <4>2
        <5>. QED  BY <1>3, <2>1, <3>3, <5>1
      <4>. QED  BY <4>1, <4>2
    <3>. QED  BY <1>3, <2>1, <3>1, <3>4, <3>6, <3>7 DEF Flows
  <2>. QED  BY <2>2, <2>3
<1>15. ASSUME NEW d \in Conn, ServerSends(d)
       PROVE  Flows(c)'
  <2>1. /\ d \notin cut /\ sent[d] < MaxSent /\ sent' = [sent EXCEPT ![d] = @ + 1]
        /\ wire' = [wire EXCEPT ![d] = Append(@, sent[d] + 1)]
        /\ ~strayed /\ screen = "chat" /\ c = current
        /\ UNCHANGED <<shown, taken, cut, reader, held, events>>
    BY <1>15 DEF ServerSends, More, appVars, msgVars, readVars
  <2>2. CASE d # c
    <3>1. sent'[c] = sent[c] /\ wire'[c] = wire[c]
      BY <2>1, <2>2 DEF ShellShape, ServerShape
    <3>. QED  BY <1>3, <2>1, <3>1, FlowsKept
  <2>3. CASE d = c
    <3>1. sent'[c] = sent[c] + 1 /\ wire'[c] = Append(wire[c], sent[c] + 1) /\ sent[c] + 1 \in Frame
      BY <1>1, <2>1, <2>3, ShellAssumption DEF ShellShape, ServerShape, Frame
    <3>2. /\ Len(wire'[c]) = Len(wire[c]) + 1
          /\ \A i \in 1 .. Len(wire[c]) : wire'[c][i] = wire[c][i]
          /\ wire'[c][Len(wire[c]) + 1] = sent[c] + 1
      BY <1>1, <3>1, AppendProperties
    <3>3. LastTaken' = LastTaken
      BY <2>1 DEF LastTaken
    <3>4. LastRead(c)' = LastRead(c)
      BY <2>1, <3>3 DEF LastRead, LastPushed
    <3>5. sent[c] = LastRead(c) + Len(wire[c])
      BY <1>3, <2>1, <2>3
    <3>6. \A i \in 1 .. Len(wire'[c]) : wire'[c][i] = LastRead(c) + i
      <4>. TAKE i \in 1 .. Len(wire'[c])
      <4>1. CASE i = Len(wire[c]) + 1
        BY <1>1, <1>2, <3>2, <3>5, <4>1
      <4>2. CASE i # Len(wire[c]) + 1
        <5>1. i \in 1 .. Len(wire[c])
          BY <1>1, <3>2, <4>2
        <5>. QED  BY <1>3, <2>1, <3>2, <5>1
      <4>. QED  BY <4>1, <4>2
    <3>7. sent'[c] = LastRead(c) + Len(wire'[c])
      BY <1>1, <1>2, <3>1, <3>2, <3>5
    <3>. QED  BY <1>3, <2>1, <3>3, <3>4, <3>6, <3>7 DEF Flows
  <2>. QED  BY <2>2, <2>3
<1>16. ASSUME NEW d \in Conn, ServerCloses(d)
       PROVE  Flows(c)'
  <2>1. /\ cut' = cut \cup {d} /\ (wire' = wire \/ wire' = [wire EXCEPT ![d] = <<>>])
        /\ ~strayed /\ screen = "chat" /\ c = current
        /\ UNCHANGED <<shown, taken, sent, reader, held, events>>
    BY <1>16 DEF ServerCloses, appVars, msgVars, readVars
  <2>2. CASE wire'[c] = wire[c]
    BY <1>3, <2>1, <2>2, FlowsKept
  <2>3. CASE wire'[c] # wire[c]
    <3>1. d = c /\ wire'[c] = <<>>
      BY <2>1, <2>3 DEF ShellShape, ServerShape
    <3>2. LastTaken' = LastTaken
      BY <2>1 DEF LastTaken
    <3>3. LastRead(c)' = LastRead(c)
      BY <2>1, <3>2 DEF LastRead, LastPushed
    <3>. QED  BY <1>3, <2>1, <3>1, <3>2, <3>3 DEF Flows
  <2>. QED  BY <2>2, <2>3
<1>. QED
  BY <1>4, <1>5, <1>6, <1>7, <1>8, <1>9, <1>10, <1>11, <1>12, <1>13, <1>14, <1>15,
     <1>16 DEF ShellNext, Key, Answer, Nav, Shows, Take, Reads, Server, WelcomeKey,
     Back, Submit, AuthError, TakeEnd, shellVars, appVars, msgVars, serverVars, readVars

-----------------------------------------------------------------------------
(* ShellInv is inductive: what is to come, and what is on its way.          *)
THEOREM ShellInvariant == ShellSpec => []ShellInv
<1>1. ShellInit => ShellInv
  <2>. SUFFICES ASSUME ShellInit PROVE ShellInv
    OBVIOUS
  <2>1. ShellShape
    <3>1. <<>> \in Seq(Conn \X Frame) /\ <<>> \in Seq(Frame) /\ Len(<<>>) <= Capacity
      BY ShellAssumption
    <3>2. AppShape
      BY <3>1, ShellAssumption, 0 \in 0 .. MaxConn DEF ShellInit, AppShape, Screen
    <3>3. MsgShape
      BY DEF ShellInit, MsgShape
    <3>4. ServerShape
      BY <3>1, ShellAssumption DEF ShellInit, ServerShape
    <3>5. ReadShape
      BY <3>1, ShellAssumption DEF ShellInit, ReadShape
    <3>. QED  BY <3>2, <3>3, <3>4, <3>5 DEF ShellShape
  <2>2. Unused /\ ChatConnected /\ LoadingAnswered /\ OneWaiter /\ FlowsInOrder
    BY DEF ShellInit, Unused, ChatConnected, LoadingAnswered, OneWaiter,
         FlowsInOrder, Screen
  <2>. QED  BY <2>1, <2>2 DEF ShellInv
<1>2. ShellInv /\ [ShellNext]_shellVars => ShellInv'
  BY AppShapeStep, MsgShapeStep, ServerShapeStep, ReadShapeStep, UnusedStep,
       ChatConnectedStep, LoadingAnsweredStep, OneWaiterStep,
     FlowsInOrderStep
     DEF ShellInv, ShellShape
<1>. QED  BY <1>1, <1>2, PTL DEF ShellSpec

(* The types of the program's state. *)
THEOREM ShellTypeCorrect == ShellSpec => []ShellTypeOK
<1>1. ShellInv => ShellTypeOK
  BY ShellAssumption DEF ShellInv, ShellShape, AppShape, MsgShape, ReadShape, ShellTypeOK
<1>. QED  BY <1>1, ShellInvariant, PTL

(* A form that takes no keys has an answer to come (login.go, app.go).      *)
THEOREM LoadingHasAnswer == ShellSpec => []LoadingAnswered
BY ShellInvariant, PTL DEF ShellInv

(* The chat view shows a connection's frames in their order, each once, as  *)
(* long as no message came after its time, whatever the capacity of the     *)
(* channel and however many frames and connections there are (app.go).      *)
THEOREM FramesShownInOrder == ShellSpec => []ShownInOrder
<1>1. ShellInv => ShownInOrder
  <2>. SUFFICES ASSUME ShellInv, ~strayed, screen = "chat"
                PROVE  shown = [i \in 1 .. Len(shown) |-> <<current, i>>]
    BY DEF ShownInOrder
  <2>1. \A i \in 1 .. Len(shown) : shown[i] = <<current, i>>
    BY DEF ShellInv, ChatConnected, FlowsInOrder, Flows
  <2>2. shown \in Seq(Conn \X Frame)
    BY DEF ShellInv, ShellShape, AppShape
  <2>3. shown = [i \in 1 .. Len(shown) |-> shown[i]]
    BY <2>2
  <2>. QED  BY <2>1, <2>3
<1>. QED  BY <1>1, ShellInvariant, PTL

=============================================================================
