---------------------------- MODULE ChatViewProofs ----------------------------
(***************************************************************************)
(* Proofs about the chat view, for any users, any bodies and any limits.   *)
(*                                                                         *)
(* A thread is truthful because everything on its way to it is: the        *)
(* messages table, the history that was read and not yet written, and the  *)
(* events.  The user's own message is there once because it is in one of   *)
(* two places: in a frame not yet handled, or in the table.                *)
(***************************************************************************)
EXTENDS ChatView, SequenceTheorems, FiniteSetTheorems, TLAPS

(* What a frame or an event is. *)
FrameType == [kind : {"say", "ask", "accept", "history"}, name : Name,
              body : Body \cup {NoBody}]
EventType == [kind : {"contacts"}, friends : Seq(Name), pending : Seq(Name),
              outgoing : Seq(Name)]
             \cup [kind : {"request", "message"}, name : Name, body : Body \cup {NoBody}]
             \cup [kind : {"history"}, peer : Name, messages : Seq(Message)]

(* The user's own messages in s are each there once. *)
OwnOnce(s) == \A i, j \in 1 .. Len(s) : s[i].self /\ s[i] = s[j] => i = j

(* A conversation with n, of what has been said so far. *)
Conversation(n, s, S) ==
    /\ s \in Seq(Message)
    /\ \A m \in Elements(s) : <<n, m.body, m.self>> \in S
    /\ OwnOnce(s)

(* One with every name. *)
Conversations(T, S) ==
    T \in [Name -> Seq(Message)] /\ \A n \in Name : Conversation(n, T[n], S)

(* An event tells what has been said. *)
EventTrue(e, S) ==
    /\ e.kind = "message" => <<e.name, e.body, FALSE>> \in S
    /\ e.kind = "history" => Conversation(e.peer, e.messages, S)

ListsInv ==
    /\ tab \in Tab /\ active \in Nat
    /\ friends \in Seq(Name) /\ incoming \in Seq(Name) /\ outgoing \in Seq(Name)
    /\ FriendSelected

(* What is being typed is new: every body is said once. *)
ViewInv ==
    /\ historyLoaded \subseteq Name
    /\ input \in Body \cup {NoBody}
    /\ modal \in {"closed", "open", "loading"}
    /\ typed \in Name \cup {NoName, Blank}
    /\ cmds \subseteq {"history", "ask"} \X Name
    /\ results \subseteq Name
    /\ said \subseteq Name \X Body \X BOOLEAN
    /\ \A s \in said : s[2] # input

TablesInv ==
    /\ isFriend \subseteq Name /\ IsFiniteSet(isFriend)
    /\ hasAsked \subseteq Name /\ IsFiniteSet(hasAsked)
    /\ askedFor \subseteq Name /\ IsFiniteSet(askedFor)

ThreadsInv == Conversations(threads, said)

LogInv == Conversations(log, said)

AnswerInv ==
    \/ answer = NoAnswer
    \/ answer.peer \in Name /\ Conversation(answer.peer, answer.messages, said)

UnpushedInv ==
    /\ unpushed \subseteq Name \X Body
    /\ \A u \in unpushed : <<u[1], u[2], FALSE>> \in said

InboxInv ==
    /\ inbox \in Seq(EventType)
    /\ \A e \in Elements(inbox) : EventTrue(e, said)

(* No table tells b as this user's own; a body is sent once.                *)
NotTold(b, L) == \A n \in Name : \A m \in Elements(L[n]) : m.self => m.body # b

SaysOnce(s) ==
    \A i, j \in 1 .. Len(s) :
        s[i].kind = "say" /\ s[j].kind = "say" /\ s[i].body = s[j].body => i = j

(* What the client has sent was said, is sent once, and is not yet in the   *)
(* server's tables.                                                         *)
Sent(s, L, S) ==
    /\ s \in Seq(FrameType)
    /\ \A f \in Elements(s) :
         f.kind = "say" => <<f.name, f.body, TRUE>> \in S /\ NotTold(f.body, L)
    /\ SaysOnce(s)

OutboxInv == Sent(outbox, log, said)

ChatInv ==
    /\ ListsInv /\ ViewInv /\ TablesInv /\ ThreadsInv /\ LogInv
    /\ AnswerInv /\ UnpushedInv /\ InboxInv /\ OutboxInv

-----------------------------------------------------------------------------
(* What an added frame does to a sequence, and what is left without its head. *)
LEMMA AppendElements ==
    ASSUME NEW T, NEW s \in Seq(T), NEW x \in T
    PROVE  /\ Append(s, x) \in Seq(T) /\ Len(Append(s, x)) = Len(s) + 1
           /\ \A i \in 1 .. Len(s) : Append(s, x)[i] = s[i]
           /\ Append(s, x)[Len(s) + 1] = x
           /\ Elements(Append(s, x)) = Elements(s) \cup {x}
<1>1. /\ Append(s, x) \in Seq(T) /\ Len(Append(s, x)) = Len(s) + 1 /\ Len(s) \in Nat
      /\ \A i \in 1 .. Len(s) : Append(s, x)[i] = s[i]
      /\ Append(s, x)[Len(s) + 1] = x
  BY AppendProperties, LenProperties
<1>2. \A i \in 1 .. Len(s) + 1 : i \in 1 .. Len(s) \/ i = Len(s) + 1
  BY <1>1
<1>3. Len(s) + 1 \in 1 .. Len(s) + 1 /\ 1 .. Len(s) \subseteq 1 .. Len(s) + 1
  BY <1>1
<1>4. Elements(Append(s, x)) \subseteq Elements(s) \cup {x}
  BY <1>1, <1>2 DEF Elements
<1>5. Elements(s) \cup {x} \subseteq Elements(Append(s, x))
  BY <1>1, <1>3 DEF Elements
<1>. QED  BY <1>1, <1>4, <1>5

LEMMA TailElements ==
    ASSUME NEW T, NEW s \in Seq(T), s # <<>>
    PROVE  /\ Tail(s) \in Seq(T) /\ Len(Tail(s)) = Len(s) - 1 /\ Len(s) \in Nat
           /\ Len(s) >= 1 /\ Head(s) = s[1]
           /\ \A i \in 1 .. Len(Tail(s)) : Tail(s)[i] = s[i + 1] /\ i + 1 \in 1 .. Len(s)
           /\ Elements(Tail(s)) \subseteq Elements(s)
           /\ Head(s) \in Elements(s) /\ Head(s) \in T
<1>1. /\ Tail(s) \in Seq(T) /\ Len(Tail(s)) = Len(s) - 1 /\ Len(s) \in Nat
      /\ Head(s) \in T /\ Head(s) = s[1]
      /\ \A i \in 1 .. Len(Tail(s)) : Tail(s)[i] = s[i + 1]
  BY HeadTailProperties, LenProperties
<1>2. Len(s) >= 1
  BY <1>1, EmptySeq
<1>3. \A i \in 1 .. Len(Tail(s)) : i + 1 \in 1 .. Len(s)
  BY <1>1
<1>4. Elements(Tail(s)) \subseteq Elements(s)
  BY <1>1, <1>3 DEF Elements
<1>5. Head(s) \in Elements(s)
  <2>1. 1 \in 1 .. Len(s)
    BY <1>1, <1>2
  <2>. QED  BY <1>1, <2>1 DEF Elements
<1>. QED  BY <1>1, <1>2, <1>3, <1>4, <1>5

LEMMA ElementsTyped ==
    ASSUME NEW T, NEW s \in Seq(T)
    PROVE  Elements(s) \subseteq T
BY ElementOfSeq DEF Elements

(* An index below the length of a list selects from it. *)
LEMMA SelectedName ==
    ASSUME NEW s \in Seq(Name), NEW a \in Nat, a < Len(s)
    PROVE  s[a + 1] \in Name
<1>1. Len(s) \in Nat
  BY LenProperties
<1>2. a + 1 \in 1 .. Len(s)
  BY <1>1
<1>. QED  BY <1>2, ElementOfSeq

LEMMA NoElements == Elements(<<>>) = {}
BY DEF Elements

(* The rows of a finite set of names are a sequence of names. *)
LEMMA OrdersAreSequences ==
    ASSUME NEW S \in SUBSET Name, IsFiniteSet(S)
    PROVE  Orders(S) \subseteq Seq(Name)
<1>1. Cardinality(S) \in Nat
  BY FS_CardinalityType
<1>. SUFFICES ASSUME NEW s \in [1 .. Cardinality(S) -> S]
              PROVE  s \in Seq(Name)
  BY DEF Orders
<1>2. s \in [1 .. Cardinality(S) -> Name]
  OBVIOUS
<1>. QED  BY <1>1, <1>2, IsASeq

(* The contacts that a handler writes are an event that tells nothing of    *)
(* what was said.                                                           *)
LEMMA ContactsAreEvents ==
    ASSUME NEW F \in SUBSET Name, NEW A \in SUBSET Name, NEW O \in SUBSET Name,
           IsFiniteSet(F), IsFiniteSet(A), IsFiniteSet(O),
           NEW e \in [kind : {"contacts"}, friends : {s \in Orders(F) : IsSorted(s)},
                      pending : Orders(A), outgoing : Orders(O)]
    PROVE  e \in EventType /\ \A S : EventTrue(e, S)
<1>1. /\ e \in [kind : {"contacts"}, friends : Orders(F), pending : Orders(A), outgoing : Orders(O)]
      /\ e.kind = "contacts"
  OBVIOUS
<1>2. Orders(F) \subseteq Seq(Name) /\ Orders(A) \subseteq Seq(Name) /\ Orders(O) \subseteq Seq(Name)
  BY OrdersAreSequences
<1>3. e \in [kind : {"contacts"}, friends : Seq(Name), pending : Seq(Name), outgoing : Seq(Name)]
  BY <1>1, <1>2
<1>. QED  BY <1>1, <1>3 DEF EventType, EventTrue

(* An event of each kind has the fields of that kind. *)
LEMMA EventFields ==
    ASSUME NEW e \in EventType
    PROVE  /\ e.kind = "contacts" =>
                e.friends \in Seq(Name) /\ e.pending \in Seq(Name) /\ e.outgoing \in Seq(Name)
           /\ e.kind \in {"request", "message"} => e.name \in Name /\ e.body \in Body \cup {NoBody}
           /\ e.kind = "history" => e.peer \in Name /\ e.messages \in Seq(Message)
BY DEF EventType

(* A conversation that was true is true when more has been said. *)
LEMMA ConversationGrows ==
    ASSUME NEW n, NEW s, NEW S, NEW U, S \subseteq U, Conversation(n, s, S)
    PROVE  Conversation(n, s, U)
BY DEF Conversation

LEMMA NoConversation ==
    ASSUME NEW n, NEW S
    PROVE  Conversation(n, <<>>, S)
BY NoElements DEF Conversation, OwnOnce

(* One more message in it, if it is said, and not yet there if it is the    *)
(* user's own.                                                              *)
LEMMA ConversationGoesOn ==
    ASSUME NEW n, NEW s, NEW S, NEW U, S \subseteq U, Conversation(n, s, S),
           NEW m \in Message, <<n, m.body, m.self>> \in U,
           m.self => m \notin Elements(s)
    PROVE  Conversation(n, Append(s, m), U)
<1>1. s \in Seq(Message) /\ OwnOnce(s) /\ \A x \in Elements(s) : <<n, x.body, x.self>> \in U
  BY DEF Conversation
<1>2. /\ Append(s, m) \in Seq(Message) /\ Len(Append(s, m)) = Len(s) + 1 /\ Len(s) \in Nat
      /\ \A i \in 1 .. Len(s) : Append(s, m)[i] = s[i]
      /\ Append(s, m)[Len(s) + 1] = m
      /\ Elements(Append(s, m)) = Elements(s) \cup {m}
  BY <1>1, AppendElements, LenProperties
<1>3. \A x \in Elements(Append(s, m)) : <<n, x.body, x.self>> \in U
  BY <1>1, <1>2
<1>4. OwnOnce(Append(s, m))
  <2>. SUFFICES ASSUME NEW i \in 1 .. Len(s) + 1, NEW j \in 1 .. Len(s) + 1,
                       Append(s, m)[i].self, Append(s, m)[i] = Append(s, m)[j]
                PROVE  i = j
    BY <1>2 DEF OwnOnce
  <2>1. CASE i \in 1 .. Len(s) /\ j \in 1 .. Len(s)
    BY <1>1, <1>2, <2>1 DEF OwnOnce
  <2>2. CASE i \in 1 .. Len(s) /\ j = Len(s) + 1
    <3>1. s[i] = m /\ s[i] \in Elements(s) /\ m.self
      BY <1>2, <2>2 DEF Elements
    <3>. QED  BY <3>1
  <2>3. CASE i = Len(s) + 1 /\ j \in 1 .. Len(s)
    <3>1. s[j] = m /\ s[j] \in Elements(s) /\ m.self
      BY <1>2, <2>3 DEF Elements
    <3>. QED  BY <3>1
  <2>. QED  BY <1>2, <2>1, <2>2, <2>3
<1>. QED  BY <1>2, <1>3, <1>4 DEF Conversation

(* The oldest rows of a conversation are one. *)
LEMMA OldestConversation ==
    ASSUME NEW n, NEW s, NEW S, Conversation(n, s, S)
    PROVE  Conversation(n, Oldest(s), S)
<1>1. CASE Len(s) <= Limit
  BY <1>1 DEF Oldest
<1>2. CASE ~ (Len(s) <= Limit)
  <2>1. s \in Seq(Message) /\ Len(s) \in Nat /\ Limit \in Nat /\ Limit <= Len(s)
    BY <1>2, LimitAssumption, LenProperties DEF Conversation
  <2>2. Oldest(s) = SubSeq(s, 1, Limit)
    BY <1>2 DEF Oldest
  <2>3. \A i \in 1 .. Limit : i \in 1 .. Len(s) /\ s[i] \in Message
    BY <2>1, ElementOfSeq
  <2>4. /\ SubSeq(s, 1, Limit) \in Seq(Message) /\ Len(SubSeq(s, 1, Limit)) = Limit
        /\ \A i \in 1 .. Limit : SubSeq(s, 1, Limit)[i] = s[i]
    <3>1. SubSeq(s, 1, Limit) = [i \in 1 .. Limit |-> s[i]]
      BY <2>1
    <3>2. [i \in 1 .. Limit |-> s[i]] \in [1 .. Limit -> Message]
      BY <2>3
    <3>3. SubSeq(s, 1, Limit) \in [1 .. Limit -> Message]
      BY <3>1, <3>2
    <3>4. SubSeq(s, 1, Limit) \in Seq(Message)
      BY <2>1, <3>3, IsASeq
    <3>5. Len(SubSeq(s, 1, Limit)) = Limit
      BY <2>1, <3>1
    <3>. QED  BY <3>1, <3>4, <3>5
  <2>5. Elements(SubSeq(s, 1, Limit)) \subseteq Elements(s)
    BY <2>3, <2>4 DEF Elements
  <2>6. OwnOnce(SubSeq(s, 1, Limit))
    BY <2>3, <2>4 DEF Conversation, OwnOnce
  <2>. QED  BY <2>2, <2>4, <2>5, <2>6 DEF Conversation
<1>. QED  BY <1>1, <1>2

LEMMA ConversationsGrow ==
    ASSUME NEW T, NEW S, NEW U, S \subseteq U, Conversations(T, S)
    PROVE  Conversations(T, U)
BY ConversationGrows DEF Conversations

LEMMA NoConversations ==
    ASSUME NEW S
    PROVE  Conversations([n \in Name |-> <<>>], S)
<1>1. <<>> \in Seq(Message)
  OBVIOUS
<1>. QED  BY <1>1, NoConversation DEF Conversations

(* Another conversation with p in the place of the one there is. *)
LEMMA ConversationReplaced ==
    ASSUME NEW T, NEW S, NEW U, S \subseteq U, Conversations(T, S),
           NEW p \in Name, NEW s, Conversation(p, s, U)
    PROVE  Conversations([T EXCEPT ![p] = s], U)
<1>1. T \in [Name -> Seq(Message)] /\ s \in Seq(Message)
  BY DEF Conversations, Conversation
<1>2. [T EXCEPT ![p] = s] \in [Name -> Seq(Message)]
  BY <1>1
<1>3. ASSUME NEW n \in Name
      PROVE  Conversation(n, [T EXCEPT ![p] = s][n], U)
  <2>1. CASE n = p
    BY <1>1, <2>1
  <2>2. CASE n # p
    <3>1. [T EXCEPT ![p] = s][n] = T[n] /\ Conversation(n, T[n], S)
      BY <1>1, <2>2 DEF Conversations
    <3>. QED  BY <3>1, ConversationGrows
  <2>. QED  BY <2>1, <2>2
<1>. QED  BY <1>2, <1>3 DEF Conversations

LEMMA ConversationsGoOn ==
    ASSUME NEW T, NEW S, NEW U, S \subseteq U, Conversations(T, S),
           NEW p \in Name, NEW m \in Message, <<p, m.body, m.self>> \in U,
           m.self => m \notin Elements(T[p])
    PROVE  Conversations([T EXCEPT ![p] = Append(@, m)], U)
<1>1. Conversation(p, T[p], S)
  BY DEF Conversations
<1>2. Conversation(p, Append(T[p], m), U)
  BY <1>1, ConversationGoesOn
<1>3. [T EXCEPT ![p] = Append(@, m)] = [T EXCEPT ![p] = Append(T[p], m)]
  OBVIOUS
<1>. QED  BY <1>2, <1>3, ConversationReplaced

LEMMA ElementsGoOn ==
    ASSUME NEW T \in [Name -> Seq(Message)], NEW p \in Name, NEW m \in Message
    PROVE  LET U == [T EXCEPT ![p] = Append(@, m)] IN
           /\ \A q \in Name : q # p => Elements(U[q]) = Elements(T[q])
           /\ Elements(U[p]) = Elements(T[p]) \cup {m}
<1>. DEFINE U == [T EXCEPT ![p] = Append(@, m)]
<1>1. U[p] = Append(T[p], m) /\ \A q \in Name : q # p => U[q] = T[q]
  OBVIOUS
<1>2. Elements(Append(T[p], m)) = Elements(T[p]) \cup {m}
  BY AppendElements
<1>. HIDE DEF U
<1>3. /\ \A q \in Name : q # p => Elements(U[q]) = Elements(T[q])
      /\ Elements(U[p]) = Elements(T[p]) \cup {m}
  BY <1>1, <1>2
<1>. QED  BY <1>3 DEF U

(* What the client has sent, when more was said that is not in the tables.  *)
LEMMA SentGrows ==
    ASSUME NEW s, NEW L, NEW M, NEW S, NEW U, S \subseteq U, Sent(s, L, S),
           \A f \in Elements(s) : f.kind = "say" /\ NotTold(f.body, L) => NotTold(f.body, M)
    PROVE  Sent(s, M, U)
BY DEF Sent

LEMMA SentNothing ==
    ASSUME NEW L, NEW S
    PROVE  Sent(<<>>, L, S)
<1>1. <<>> \in Seq(FrameType) /\ Elements(<<>>) = {}
  BY NoElements
<1>2. SaysOnce(<<>>)
  BY DEF SaysOnce
<1>. QED  BY <1>1, <1>2 DEF Sent

LEMMA SentTail ==
    ASSUME NEW s, NEW L, NEW S, Sent(s, L, S), s # <<>>
    PROVE  Sent(Tail(s), L, S)
<1>1. s \in Seq(FrameType)
  BY DEF Sent
<1>2. /\ Tail(s) \in Seq(FrameType) /\ Elements(Tail(s)) \subseteq Elements(s)
      /\ \A i \in 1 .. Len(Tail(s)) : Tail(s)[i] = s[i + 1] /\ i + 1 \in 1 .. Len(s)
      /\ Len(s) \in Nat /\ Len(Tail(s)) = Len(s) - 1
  BY <1>1, TailElements
<1>3. ASSUME NEW i \in 1 .. Len(Tail(s)), NEW j \in 1 .. Len(Tail(s)),
             Tail(s)[i].kind = "say", Tail(s)[j].kind = "say", Tail(s)[i].body = Tail(s)[j].body
      PROVE  i = j
  <2>1. i + 1 = j + 1
    BY <1>2, <1>3 DEF Sent, SaysOnce
  <2>. QED  BY <1>2, <2>1
<1>. QED  BY <1>2, <1>3 DEF Sent, SaysOnce

(* The frame at the head is the only one that says what it says. *)
LEMMA HeadSaysOnce ==
    ASSUME NEW s, NEW L, NEW S, Sent(s, L, S), s # <<>>, Head(s).kind = "say"
    PROVE  \A f \in Elements(Tail(s)) : f.kind = "say" => f.body # Head(s).body
<1>1. s \in Seq(FrameType)
  BY DEF Sent
<1>2. /\ Head(s) = s[1] /\ Len(s) \in Nat /\ Len(s) >= 1 /\ Len(Tail(s)) = Len(s) - 1
      /\ \A i \in 1 .. Len(Tail(s)) : Tail(s)[i] = s[i + 1] /\ i + 1 \in 1 .. Len(s)
  BY <1>1, TailElements
<1>3. ASSUME NEW i \in 1 .. Len(Tail(s)), Tail(s)[i].kind = "say", Tail(s)[i].body = Head(s).body
      PROVE  FALSE
  <2>1. 1 \in 1 .. Len(s)
    BY <1>2
  <2>2. i + 1 = 1
    BY <1>2, <1>3, <2>1 DEF Sent, SaysOnce
  <2>. QED  BY <1>2, <2>2
<1>. QED  BY <1>3 DEF Elements

(* One more frame: one that says nothing, or what no frame and no table has. *)
LEMMA SentMore ==
    ASSUME NEW s, NEW L, NEW S, NEW U, S \subseteq U, Sent(s, L, S),
           NEW f \in FrameType,
           f.kind = "say" => /\ <<f.name, f.body, TRUE>> \in U /\ NotTold(f.body, L)
                             /\ \A g \in Elements(s) : g.kind = "say" => g.body # f.body
    PROVE  Sent(Append(s, f), L, U)
<1>1. s \in Seq(FrameType)
  BY DEF Sent
<1>2. /\ Append(s, f) \in Seq(FrameType) /\ Len(Append(s, f)) = Len(s) + 1 /\ Len(s) \in Nat
      /\ \A i \in 1 .. Len(s) : Append(s, f)[i] = s[i]
      /\ Append(s, f)[Len(s) + 1] = f
      /\ Elements(Append(s, f)) = Elements(s) \cup {f}
  BY <1>1, AppendElements, LenProperties
<1>3. \A g \in Elements(Append(s, f)) :
        g.kind = "say" => <<g.name, g.body, TRUE>> \in U /\ NotTold(g.body, L)
  BY <1>2 DEF Sent
<1>4. SaysOnce(Append(s, f))
  <2>. SUFFICES ASSUME NEW i \in 1 .. Len(s) + 1, NEW j \in 1 .. Len(s) + 1,
                       Append(s, f)[i].kind = "say", Append(s, f)[j].kind = "say",
                       Append(s, f)[i].body = Append(s, f)[j].body
                PROVE  i = j
    BY <1>2 DEF SaysOnce
  <2>1. CASE i \in 1 .. Len(s) /\ j \in 1 .. Len(s)
    BY <1>2, <2>1 DEF Sent, SaysOnce
  <2>2. CASE i \in 1 .. Len(s) /\ j = Len(s) + 1
    <3>1. s[i] \in Elements(s) /\ s[i].kind = "say" /\ f.kind = "say" /\ s[i].body = f.body
      BY <1>2, <2>2 DEF Elements
    <3>. QED  BY <3>1
  <2>3. CASE i = Len(s) + 1 /\ j \in 1 .. Len(s)
    <3>1. s[j] \in Elements(s) /\ s[j].kind = "say" /\ f.kind = "say" /\ s[j].body = f.body
      BY <1>2, <2>3 DEF Elements
    <3>. QED  BY <3>1
  <2>. QED  BY <1>2, <2>1, <2>2, <2>3
<1>. QED  BY <1>2, <1>3, <1>4 DEF Sent

(* Events to come, one more of them, and the first of them. *)
LEMMA EventsGrow ==
    ASSUME NEW e, NEW S, NEW U, S \subseteq U, EventTrue(e, S)
    PROVE  EventTrue(e, U)
BY ConversationGrows DEF EventTrue

LEMMA OneMoreEvent ==
    ASSUME NEW s \in Seq(EventType), NEW e \in EventType, NEW S,
           \A x \in Elements(s) : EventTrue(x, S), EventTrue(e, S)
    PROVE  /\ Append(s, e) \in Seq(EventType)
           /\ \A x \in Elements(Append(s, e)) : EventTrue(x, S)
BY AppendElements

LEMMA FirstEvent ==
    ASSUME NEW s \in Seq(EventType), NEW S, \A x \in Elements(s) : EventTrue(x, S), s # <<>>
    PROVE  /\ Head(s) \in EventType /\ EventTrue(Head(s), S)
           /\ Tail(s) \in Seq(EventType) /\ \A x \in Elements(Tail(s)) : EventTrue(x, S)
BY TailElements

(* A message that is not yet told is not there. *)
LEMMA NotToldYet ==
    ASSUME NEW b, NEW L, NotTold(b, L), NEW n \in Name, NEW m, m.self, m.body = b
    PROVE  m \notin Elements(L[n])
BY DEF NotTold

(* What was not said is not told. *)
LEMMA NotSaidNotTold ==
    ASSUME NEW T, NEW S, Conversations(T, S), NEW b, \A x \in S : x[2] # b
    PROVE  NotTold(b, T)
<1>. SUFFICES ASSUME NEW n \in Name, NEW m \in Elements(T[n]), m.body = b
              PROVE  FALSE
  BY DEF NotTold
<1>1. <<n, m.body, m.self>> \in S
  BY DEF Conversations, Conversation
<1>2. <<n, m.body, m.self>>[2] = b
  OBVIOUS
<1>. QED  BY <1>1, <1>2

-----------------------------------------------------------------------------
(* What was said stays said, and only a message adds to it. *)
LEMMA SaidGrows ==
    ASSUME [Next]_vars
    PROVE  said \subseteq said'
<1>1. ASSUME NEW n \in Name, NEW b \in Body, PeerSays(n, b)
      PROVE  said \subseteq said'
  BY <1>1 DEF PeerSays
<1>2. ASSUME NEW n \in Name, EnterSends(n)
      PROVE  said \subseteq said'
  BY <1>2 DEF EnterSends
<1>. QED
  BY <1>1, <1>2 DEF Next, ServerStep, EventStep, KeyStep, Quit, EnterPanics,
     PeerAsks, PeerAccepts, PeerDeleted, Push, HandlerRefuses, HandleSend,
     HandleRequest, HandleAccept, HandleHistory, WriteHistory,
     ContactsUpdated, FriendRequest, IncomingMessage, HistoryLoaded,
     RunHistory, RunRequest, RequestFails, ModalResult, SwitchTab, Move, Type, EnterAccepts,
     StartAgain, OpenModal, Submit, CloseModal, TypeName, vars, serverVars,
     tableVars, listVars, threadVars, modalVars, viewVars, cmdVars

(* A step keeps a friend selected. *)
LEMMA ListsStep ==
    ASSUME ListsInv, InboxInv, [Next]_vars
    PROVE  ListsInv'
<1>0. CASE UNCHANGED <<tab, active, friends, incoming, outgoing>>
  BY <1>0 DEF ListsInv, FriendSelected
<1>1. ASSUME ContactsUpdated
      PROVE  ListsInv'
  <2>1. /\ inbox # <<>> /\ Head(inbox).kind = "contacts" /\ tab' = tab
        /\ friends' = Head(inbox).friends /\ incoming' = Head(inbox).pending
        /\ outgoing' = Head(inbox).outgoing
        /\ active' = Clamped(CASE tab = "incoming" -> Head(inbox).pending
                               [] tab = "outgoing" -> Head(inbox).outgoing
                               [] OTHER -> Head(inbox).friends)
    BY <1>1 DEF ContactsUpdated, Event
  <2>2. friends' \in Seq(Name) /\ incoming' \in Seq(Name) /\ outgoing' \in Seq(Name)
    <3>1. Head(inbox) \in EventType
      BY <2>1, HeadTailProperties DEF InboxInv
    <3>. QED  BY <2>1, <3>1, EventFields
  <2>3. active' \in {0, active}
    BY <2>1 DEF Clamped
  <2>4. tab = "friends" => active' = IF active >= Len(friends') THEN 0 ELSE active
    BY <2>1 DEF Clamped
  <2>5. tab = "friends" /\ friends' # <<>> => active' < Len(friends')
    <3>1. Len(friends') \in Nat /\ (friends' # <<>> => Len(friends') # 0)
      BY <2>2, LenProperties, EmptySeq
    <3>2. active \in Nat
      BY DEF ListsInv
    <3>. QED  BY <2>4, <3>1, <3>2
  <2>. QED  BY <2>1, <2>2, <2>3, <2>5 DEF ListsInv, FriendSelected
<1>2. ASSUME FriendRequest
      PROVE  ListsInv'
  <2>1. /\ inbox # <<>> /\ Head(inbox).kind = "request" /\ tab' = "incoming"
        /\ incoming' = Added(incoming, Head(inbox).name)
        /\ UNCHANGED <<friends, outgoing, active>>
    BY <1>2 DEF FriendRequest, Event
  <2>2. Head(inbox).name \in Name
    <3>1. Head(inbox) \in EventType
      BY <2>1, HeadTailProperties DEF InboxInv
    <3>. QED  BY <2>1, <3>1, EventFields
  <2>3. incoming' \in Seq(Name)
    <3>1. incoming \in Seq(Name)
      BY DEF ListsInv
    <3>2. Append(incoming, Head(inbox).name) \in Seq(Name)
      BY <2>2, <3>1, AppendProperties
    <3>. QED  BY <2>1, <3>1, <3>2 DEF Added
  <2>. QED  BY <2>1, <2>3 DEF ListsInv, FriendSelected, Tab
<1>3. ASSUME NEW n \in Name, ModalResult(n)
      PROVE  ListsInv'
  <2>1. tab' = "outgoing" /\ outgoing' = Added(outgoing, n) /\ UNCHANGED <<friends, incoming, active>>
    BY <1>3 DEF ModalResult
  <2>2. outgoing' \in Seq(Name)
    <3>1. outgoing \in Seq(Name)
      BY DEF ListsInv
    <3>2. Append(outgoing, n) \in Seq(Name)
      BY <3>1, AppendProperties
    <3>. QED  BY <2>1, <3>1, <3>2 DEF Added
  <2>. QED  BY <2>1, <2>2 DEF ListsInv, FriendSelected, Tab
<1>4. ASSUME NEW t \in Tab, SwitchTab(t)
      PROVE  ListsInv'
  <2>1. tab' = t /\ active' = 0 /\ UNCHANGED <<friends, incoming, outgoing>>
    BY <1>4 DEF SwitchTab
  <2>2. friends # <<>> => 0 < Len(friends)
    <3>1. Len(friends) \in Nat /\ (friends # <<>> => Len(friends) # 0)
      BY LenProperties, EmptySeq DEF ListsInv
    <3>. QED  BY <3>1
  <2>. QED  BY <2>1, <2>2 DEF ListsInv, FriendSelected
<1>5. ASSUME NEW d \in {-1, 1}, Move(d)
      PROVE  ListsInv'
  <2>1. /\ IF d < 0 THEN active > 0 ELSE active < Len(CurrentList) - 1
        /\ active' = active + d /\ UNCHANGED <<tab, friends, incoming, outgoing>>
    BY <1>5 DEF Move
  <2>2. active \in Nat /\ Len(friends) \in Nat /\ friends \in Seq(Name)
    BY LenProperties DEF ListsInv
  <2>3. active' \in Nat
    BY <2>1, <2>2
  <2>4. ASSUME tab = "friends", friends # <<>>
        PROVE  active' < Len(friends)
    <3>1. CurrentList = friends /\ active < Len(friends)
      BY <2>4 DEF CurrentList, List, ListsInv, FriendSelected
    <3>. QED  BY <2>1, <2>2, <3>1
  <2>. QED  BY <2>1, <2>3, <2>4 DEF ListsInv, FriendSelected
<1>6. ASSUME StartAgain
      PROVE  ListsInv'
  <2>1. tab' = "friends" /\ friends' = <<>> /\ incoming' = <<>> /\ outgoing' = <<>> /\ active' = 0
    BY <1>6 DEF StartAgain
  <2>. QED  BY <2>1 DEF ListsInv, FriendSelected, Tab
<1>. QED
  BY <1>0, <1>1, <1>2, <1>3, <1>4, <1>5, <1>6 DEF Next, ServerStep, EventStep,
     KeyStep, Quit, EnterPanics, PeerAsks, PeerAccepts, PeerDeleted, PeerSays,
     Push, HandlerRefuses, HandleSend, HandleRequest, HandleAccept,
     HandleHistory, WriteHistory, IncomingMessage, HistoryLoaded, RunHistory,
     RunRequest, RequestFails, Type, EnterSends, EnterAccepts, OpenModal,
     Submit, CloseModal, TypeName, vars, serverVars, tableVars, listVars, threadVars,
     modalVars, viewVars, cmdVars

(* A step keeps the types of the rest of the view, and what is typed new. *)
LEMMA ViewStep ==
    ASSUME ListsInv', ViewInv, InboxInv, [Next]_vars
    PROVE  ViewInv'
<1>0. CASE UNCHANGED <<historyLoaded, input, modal, typed, cmds, results, said>>
  BY <1>0 DEF ViewInv
<1>1. ASSUME NEW n \in Name, NEW b \in Body, PeerSays(n, b)
      PROVE  ViewInv'
  <2>1. b # input /\ said' = said \cup {<<n, b, FALSE>>} /\ UNCHANGED <<historyLoaded, input, modal, typed, cmds, results>>
    BY <1>1 DEF PeerSays, viewVars, modalVars, threadVars, cmdVars
  <2>2. <<n, b, FALSE>> \in Name \X Body \X BOOLEAN
    OBVIOUS
  <2>3. \A s \in said' : s[2] # input
    <3>1. <<n, b, FALSE>>[2] # input
      BY <2>1
    <3>2. \A s \in said : s[2] # input
      BY DEF ViewInv
    <3>. QED  BY <2>1, <3>1, <3>2
  <2>. QED  BY <2>1, <2>2, <2>3 DEF ViewInv
<1>2. ASSUME HistoryLoaded
      PROVE  ViewInv'
  <2>1. /\ inbox # <<>> /\ Head(inbox).kind = "history"
        /\ historyLoaded' = historyLoaded \cup {Head(inbox).peer}
        /\ UNCHANGED <<input, modal, typed, cmds, results, said>>
    BY <1>2 DEF HistoryLoaded, Event, modalVars, cmdVars
  <2>2. Head(inbox).peer \in Name
    <3>1. Head(inbox) \in EventType
      BY <2>1, HeadTailProperties DEF InboxInv
    <3>. QED  BY <2>1, <3>1, EventFields
  <2>. QED  BY <2>1, <2>2 DEF ViewInv
<1>3. ASSUME NEW n \in Name, RunHistory(n)
      PROVE  ViewInv'
  <2>1. cmds' \subseteq cmds /\ UNCHANGED <<historyLoaded, input, modal, typed, results, said>>
    BY <1>3 DEF RunHistory, viewVars, modalVars, threadVars
  <2>. QED  BY <2>1 DEF ViewInv
<1>4. ASSUME NEW n \in Name, RunRequest(n)
      PROVE  ViewInv'
  <2>1. cmds' \subseteq cmds /\ results' = results \cup {n} /\ UNCHANGED <<historyLoaded, input, modal, typed, said>>
    BY <1>4 DEF RunRequest, viewVars, modalVars, threadVars
  <2>. QED  BY <2>1 DEF ViewInv
<1>5. ASSUME NEW n \in Name, ModalResult(n)
      PROVE  ViewInv'
  <2>1. results' \subseteq results /\ modal' = "closed" /\ typed' = NoName
        /\ UNCHANGED <<historyLoaded, input, cmds, said>>
    BY <1>5 DEF ModalResult, threadVars
  <2>. QED  BY <2>1 DEF ViewInv
<1>6. ASSUME NEW t \in Tab, SwitchTab(t)
      PROVE  ViewInv'
  <2>1. LoadsHistory /\ UNCHANGED <<historyLoaded, input, modal, typed, results, said>>
    BY <1>6 DEF SwitchTab, threadVars, modalVars
  <2>2. ActiveFriend' \in Name \cup {NoName}
    <3>1. ASSUME active' < Len(friends')
          PROVE  friends'[active' + 1] \in Name
      <4>1. friends' \in Seq(Name) /\ active' \in Nat
        BY DEF ListsInv
      <4>. QED  BY <3>1, <4>1, SelectedName
    <3>. QED  BY <3>1 DEF ActiveFriend
  <2>3. cmds' \subseteq {"history", "ask"} \X Name
    BY <2>1, <2>2 DEF LoadsHistory, ViewInv
  <2>. QED  BY <2>1, <2>3 DEF ViewInv
<1>7. ASSUME NEW d \in {-1, 1}, Move(d)
      PROVE  ViewInv'
  <2>1. LoadsHistory /\ UNCHANGED <<historyLoaded, input, modal, typed, results, said>>
    BY <1>7 DEF Move, threadVars, modalVars
  <2>2. ActiveFriend' \in Name \cup {NoName}
    <3>1. ASSUME active' < Len(friends')
          PROVE  friends'[active' + 1] \in Name
      <4>1. friends' \in Seq(Name) /\ active' \in Nat
        BY DEF ListsInv
      <4>. QED  BY <3>1, <4>1, SelectedName
    <3>. QED  BY <3>1 DEF ActiveFriend
  <2>3. cmds' \subseteq {"history", "ask"} \X Name
    BY <2>1, <2>2 DEF LoadsHistory, ViewInv
  <2>. QED  BY <2>1, <2>3 DEF ViewInv
<1>8. ASSUME NEW b \in Body, Type(b)
      PROVE  ViewInv'
  <2>1. (\A s \in said : s[2] # b) /\ input' = b /\ UNCHANGED <<historyLoaded, modal, typed, cmds, results, said>>
    BY <1>8 DEF Type, threadVars, modalVars, cmdVars
  <2>. QED  BY <2>1 DEF ViewInv
<1>9. ASSUME NEW n \in Name, EnterSends(n)
      PROVE  ViewInv'
  <2>1. /\ input # NoBody /\ input' = NoBody /\ said' = said \cup {<<n, input, TRUE>>}
        /\ UNCHANGED <<historyLoaded, modal, typed, cmds, results>>
    BY <1>9 DEF EnterSends, modalVars, cmdVars
  <2>2. <<n, input, TRUE>> \in Name \X Body \X BOOLEAN
    BY <2>1 DEF ViewInv
  <2>3. said' \subseteq Name \X Body \X BOOLEAN
    BY <2>1, <2>2 DEF ViewInv
  <2>4. \A s \in said' : s[2] # NoBody
    BY <2>3, BodyAssumption
  <2>. QED  BY <2>1, <2>3, <2>4 DEF ViewInv
<1>10. ASSUME StartAgain
      PROVE  ViewInv'
  <2>1. /\ historyLoaded' = {} /\ input' = NoBody /\ modal' = "closed" /\ typed' = NoName
        /\ cmds' = {} /\ results' = {} /\ said' = said
    BY <1>10 DEF StartAgain
  <2>2. \A s \in said : s[2] # NoBody
    BY BodyAssumption DEF ViewInv
  <2>. QED  BY <2>1, <2>2 DEF ViewInv
<1>11. ASSUME OpenModal
      PROVE  ViewInv'
  <2>1. modal' = "open" /\ typed' = NoName /\ UNCHANGED <<historyLoaded, input, cmds, results, said>>
    BY <1>11 DEF OpenModal, threadVars, cmdVars
  <2>. QED  BY <2>1 DEF ViewInv
<1>12. ASSUME Submit
      PROVE  ViewInv'
  <2>1. /\ typed # NoName /\ modal' = "loading" /\ UNCHANGED <<historyLoaded, input, typed, results, said>>
        /\ cmds' = cmds \cup IF typed = Blank THEN {} ELSE {<<"ask", typed>>}
    BY <1>12 DEF Submit, threadVars
  <2>2. typed # Blank => typed \in Name
    BY <2>1 DEF ViewInv
  <2>3. cmds' \subseteq {"history", "ask"} \X Name
    BY <2>1, <2>2 DEF ViewInv
  <2>. QED  BY <2>1, <2>3 DEF ViewInv
<1>13. ASSUME CloseModal
      PROVE  ViewInv'
  <2>1. modal' = "closed" /\ typed' = NoName /\ UNCHANGED <<historyLoaded, input, cmds, results, said>>
    BY <1>13 DEF CloseModal, threadVars, cmdVars
  <2>. QED  BY <2>1 DEF ViewInv
<1>14. ASSUME NEW n \in Name \cup {Blank}, TypeName(n)
      PROVE  ViewInv'
  <2>1. typed' = n /\ UNCHANGED <<historyLoaded, input, modal, cmds, results, said>>
    BY <1>14 DEF TypeName, threadVars, cmdVars
  <2>. QED  BY <2>1 DEF ViewInv
<1>15. ASSUME NEW n \in Name, RequestFails(n)
      PROVE  ViewInv'
  <2>1. cmds' \subseteq cmds /\ modal' = (IF modal = "closed" THEN "closed" ELSE "open")
        /\ UNCHANGED <<historyLoaded, input, typed, results, said>>
    BY <1>15 DEF RequestFails, threadVars
  <2>. QED  BY <2>1 DEF ViewInv
<1>. QED
  BY <1>0, <1>1, <1>2, <1>3, <1>4, <1>5, <1>6, <1>7, <1>8, <1>9, <1>10, <1>11,
     <1>12, <1>13, <1>14, <1>15 DEF Next, ServerStep, EventStep, KeyStep, Quit,
     EnterPanics, PeerAsks, PeerAccepts, PeerDeleted, Push, HandlerRefuses,
     HandleSend, HandleRequest, HandleAccept, HandleHistory, WriteHistory,
     ContactsUpdated, FriendRequest, IncomingMessage, EnterAccepts, vars,
     serverVars, tableVars, listVars, threadVars, modalVars, viewVars, cmdVars

(* The tables of friends and requests stay finite. *)
LEMMA TablesStep ==
    ASSUME TablesInv, OutboxInv, [Next]_vars
    PROVE  TablesInv'
<1>0. CASE UNCHANGED <<isFriend, hasAsked, askedFor>>
  BY <1>0 DEF TablesInv
<1>1. ASSUME NEW n \in Name, PeerAsks(n)
      PROVE  TablesInv'
  <2>1. /\ hasAsked' = hasAsked \cup {n} /\ n \in Name
        /\ UNCHANGED <<isFriend, askedFor>>
    BY <1>1 DEF PeerAsks
  <2>. QED  BY <2>1, FS_AddElement DEF TablesInv
<1>2. ASSUME NEW n \in Name, PeerAccepts(n)
      PROVE  TablesInv'
  <2>1. /\ isFriend' = isFriend \cup {n} /\ n \in Name
        /\ askedFor' = askedFor \ {n}
        /\ UNCHANGED <<hasAsked>>
    BY <1>2 DEF PeerAccepts
  <2>. QED  BY <2>1, FS_AddElement, FS_RemoveElement DEF TablesInv
<1>3. ASSUME NEW n \in Name, PeerDeleted(n)
      PROVE  TablesInv'
  <2>1. /\ isFriend' = isFriend \ {n}
        /\ hasAsked' = hasAsked \ {n}
        /\ askedFor' = askedFor \ {n}
    BY <1>3 DEF PeerDeleted
  <2>. QED  BY <2>1, FS_RemoveElement DEF TablesInv
<1>4. ASSUME HandleRequest
      PROVE  TablesInv'
  <2>1. outbox # <<>> /\ askedFor' = askedFor \cup {Head(outbox).name} /\ UNCHANGED <<isFriend, hasAsked>>
    BY <1>4 DEF HandleRequest, Handles
  <2>2. Head(outbox).name \in Name
    <3>1. Head(outbox) \in FrameType
      BY <2>1, HeadTailProperties DEF OutboxInv, Sent
    <3>. QED  BY <3>1 DEF FrameType
  <2>. QED  BY <2>1, <2>2, FS_AddElement DEF TablesInv
<1>5. ASSUME HandleAccept
      PROVE  TablesInv'
  <2>1. /\ outbox # <<>> /\ isFriend' = isFriend \cup {Head(outbox).name}
        /\ hasAsked' = hasAsked \ {Head(outbox).name} /\ askedFor' = askedFor
    BY <1>5 DEF HandleAccept, Handles
  <2>2. Head(outbox).name \in Name
    <3>1. Head(outbox) \in FrameType
      BY <2>1, HeadTailProperties DEF OutboxInv, Sent
    <3>. QED  BY <3>1 DEF FrameType
  <2>. QED  BY <2>1, <2>2, FS_AddElement, FS_RemoveElement DEF TablesInv
<1>. QED
  BY <1>0, <1>1, <1>2, <1>3, <1>4, <1>5 DEF Next, ServerStep, EventStep,
     KeyStep, Quit, EnterPanics, PeerSays, Push, HandlerRefuses, HandleSend,
     HandleHistory, WriteHistory, ContactsUpdated, FriendRequest,
     IncomingMessage, HistoryLoaded, RunHistory, RunRequest, RequestFails,
     ModalResult, SwitchTab, Move, Type, EnterSends, EnterAccepts, StartAgain, OpenModal,
     Submit, CloseModal, TypeName, vars, serverVars, tableVars, listVars,
     threadVars, modalVars, viewVars, cmdVars

(* A step keeps the threads truthful, and the own messages once. *)
LEMMA ThreadsStep ==
    ASSUME ViewInv, ThreadsInv, InboxInv, [Next]_vars
    PROVE  ThreadsInv'
<1>0. CASE UNCHANGED <<threads>>
  BY <1>0, SaidGrows, ConversationsGrow DEF ThreadsInv
<1>1. ASSUME IncomingMessage
      PROVE  ThreadsInv'
  <2>1. /\ inbox # <<>> /\ Head(inbox).kind = "message" /\ said' = said
        /\ threads' = [threads EXCEPT ![Head(inbox).name] =
                         Append(@, [body |-> Head(inbox).body, self |-> FALSE])]
    BY <1>1 DEF IncomingMessage, Event, Say, ThreadOf
  <2>2. Head(inbox).name \in Name /\ <<Head(inbox).name, Head(inbox).body, FALSE>> \in said
    <3>1. Head(inbox) \in EventType /\ EventTrue(Head(inbox), said)
      BY <2>1, FirstEvent DEF InboxInv
    <3>. QED  BY <2>1, <3>1, EventFields DEF EventTrue
  <2>3. [body |-> Head(inbox).body, self |-> FALSE] \in Message
    BY <2>2 DEF ViewInv, Message
  <2>4. Conversations(threads', said)
    BY <2>1, <2>2, <2>3, ConversationsGoOn DEF ThreadsInv
  <2>. QED  BY <2>1, <2>4 DEF ThreadsInv
<1>2. ASSUME HistoryLoaded
      PROVE  ThreadsInv'
  <2>1. /\ inbox # <<>> /\ Head(inbox).kind = "history" /\ said' = said
        /\ threads' = [threads EXCEPT ![Head(inbox).peer] = Head(inbox).messages]
    BY <1>2 DEF HistoryLoaded, Event, WithHistory
  <2>2. Head(inbox).peer \in Name /\ Conversation(Head(inbox).peer, Head(inbox).messages, said)
    <3>1. Head(inbox) \in EventType /\ EventTrue(Head(inbox), said)
      BY <2>1, FirstEvent DEF InboxInv
    <3>. QED  BY <2>1, <3>1, EventFields DEF EventTrue
  <2>3. Conversations(threads', said)
    BY <2>1, <2>2, ConversationReplaced DEF ThreadsInv
  <2>. QED  BY <2>1, <2>3 DEF ThreadsInv
<1>3. ASSUME NEW n \in Name, EnterSends(n)
      PROVE  ThreadsInv'
  <2>1. /\ input # NoBody /\ said' = said \cup {<<n, input, TRUE>>}
        /\ threads' = [threads EXCEPT ![n] = Append(@, [body |-> input, self |-> TRUE])]
    BY <1>3 DEF EnterSends, Say
  <2>2. [body |-> input, self |-> TRUE] \in Message
    BY <2>1 DEF ViewInv, Message
  <2>3. NotTold(input, threads)
    BY NotSaidNotTold DEF ThreadsInv, ViewInv
  <2>4. [body |-> input, self |-> TRUE] \notin Elements(threads[n])
    BY <2>3, NotToldYet
  <2>5. Conversations(threads', said')
    BY <2>1, <2>2, <2>4, ConversationsGoOn DEF ThreadsInv
  <2>. QED  BY <2>5 DEF ThreadsInv
<1>4. ASSUME StartAgain
      PROVE  ThreadsInv'
  <2>1. threads' = [n \in Name |-> <<>>]
    BY <1>4 DEF StartAgain
  <2>2. Conversations(threads, said)'
    BY <2>1, NoConversations
  <2>. QED  BY <2>2 DEF ThreadsInv
<1>. QED
  BY <1>0, <1>1, <1>2, <1>3, <1>4 DEF Next, ServerStep, EventStep, KeyStep,
     Quit, EnterPanics, PeerAsks, PeerAccepts, PeerDeleted, PeerSays, Push,
     HandlerRefuses, HandleSend, HandleRequest, HandleAccept, HandleHistory,
     WriteHistory, ContactsUpdated, FriendRequest, RunHistory, RunRequest,
     RequestFails, ModalResult, SwitchTab, Move, Type, EnterAccepts, OpenModal, Submit,
     CloseModal, TypeName, vars, serverVars, tableVars, listVars, threadVars,
     modalVars, viewVars, cmdVars

(* A step keeps what the messages table tells. *)
LEMMA LogStep ==
    ASSUME ViewInv, LogInv, OutboxInv, [Next]_vars
    PROVE  LogInv'
<1>0. CASE UNCHANGED <<log>>
  BY <1>0, SaidGrows, ConversationsGrow DEF LogInv
<1>1. ASSUME NEW n \in Name, PeerDeleted(n)
      PROVE  LogInv'
  <2>1. said' = said /\ log' = [log EXCEPT ![n] = <<>>]
    BY <1>1 DEF PeerDeleted
  <2>2. Conversations(log', said)
    BY <2>1, NoConversation, ConversationReplaced DEF LogInv
  <2>. QED  BY <2>1, <2>2 DEF LogInv
<1>2. ASSUME NEW n \in Name, NEW b \in Body, PeerSays(n, b)
      PROVE  LogInv'
  <2>1. /\ said' = said \cup {<<n, b, FALSE>>}
        /\ log' = [log EXCEPT ![n] = Append(@, [body |-> b, self |-> FALSE])]
    BY <1>2 DEF PeerSays
  <2>2. [body |-> b, self |-> FALSE] \in Message
    BY DEF Message
  <2>3. Conversations(log', said')
    BY <2>1, <2>2, ConversationsGoOn DEF LogInv
  <2>. QED  BY <2>3 DEF LogInv
<1>3. ASSUME HandleSend
      PROVE  LogInv'
  <2>1. /\ outbox # <<>> /\ Head(outbox).kind = "say" /\ said' = said
        /\ log' = [log EXCEPT ![Head(outbox).name] =
                     Append(@, [body |-> Head(outbox).body, self |-> TRUE])]
    BY <1>3 DEF HandleSend, Handles
  <2>2. /\ Head(outbox) \in FrameType
        /\ <<Head(outbox).name, Head(outbox).body, TRUE>> \in said /\ NotTold(Head(outbox).body, log)
    <3>1. Head(outbox) \in FrameType /\ Head(outbox) \in Elements(outbox)
      BY <2>1, TailElements DEF OutboxInv, Sent
    <3>. QED  BY <2>1, <3>1 DEF OutboxInv, Sent
  <2>3. Head(outbox).name \in Name /\ [body |-> Head(outbox).body, self |-> TRUE] \in Message
    BY <2>2 DEF ViewInv, Message
  <2>4. [body |-> Head(outbox).body, self |-> TRUE] \notin Elements(log[Head(outbox).name])
    BY <2>2, <2>3, NotToldYet
  <2>5. Conversations(log', said)
    BY <2>1, <2>2, <2>3, <2>4, ConversationsGoOn DEF LogInv
  <2>. QED  BY <2>1, <2>5 DEF LogInv
<1>. QED
  BY <1>0, <1>1, <1>2, <1>3 DEF Next, ServerStep, EventStep, KeyStep, Quit,
     EnterPanics, PeerAsks, PeerAccepts, Push, HandlerRefuses, HandleRequest,
     HandleAccept, HandleHistory, WriteHistory, ContactsUpdated,
     FriendRequest, IncomingMessage, HistoryLoaded, RunHistory, RunRequest,
     RequestFails, ModalResult, SwitchTab, Move, Type, EnterSends, EnterAccepts, StartAgain,
     OpenModal, Submit, CloseModal, TypeName, vars, serverVars, tableVars,
     listVars, threadVars, modalVars, viewVars, cmdVars

(* A step keeps what the handler has read. *)
LEMMA AnswerStep ==
    ASSUME LogInv, AnswerInv, OutboxInv, [Next]_vars
    PROVE  AnswerInv'
<1>0. CASE UNCHANGED <<answer>>
  BY <1>0, SaidGrows, ConversationGrows DEF AnswerInv, NoAnswer
<1>1. ASSUME HandleHistory
      PROVE  AnswerInv'
  <2>1. /\ outbox # <<>> /\ Head(outbox).kind = "history" /\ said' = said
        /\ answer' = [peer |-> Head(outbox).name, messages |-> Oldest(log[Head(outbox).name])]
    BY <1>1 DEF HandleHistory, Handles
  <2>2. Head(outbox).name \in Name
    <3>1. Head(outbox) \in FrameType
      BY <2>1, HeadTailProperties DEF OutboxInv, Sent
    <3>. QED  BY <3>1 DEF FrameType
  <2>3. Conversation(Head(outbox).name, Oldest(log[Head(outbox).name]), said)
    BY <2>2, OldestConversation DEF LogInv, Conversations
  <2>4. answer'.peer = Head(outbox).name /\ answer'.messages = Oldest(log[Head(outbox).name])
    BY <2>1
  <2>. QED  BY <2>1, <2>2, <2>3, <2>4 DEF AnswerInv
<1>2. ASSUME WriteHistory
      PROVE  AnswerInv'
  <2>1. answer' = NoAnswer
    BY <1>2 DEF WriteHistory
  <2>. QED  BY <2>1 DEF AnswerInv, NoAnswer
<1>3. ASSUME StartAgain
      PROVE  AnswerInv'
  <2>1. answer' = NoAnswer
    BY <1>3 DEF StartAgain
  <2>. QED  BY <2>1 DEF AnswerInv, NoAnswer
<1>. QED
  BY <1>0, <1>1, <1>2, <1>3 DEF Next, ServerStep, EventStep, KeyStep, Quit,
     EnterPanics, PeerAsks, PeerAccepts, PeerDeleted, PeerSays, Push,
     HandlerRefuses, HandleSend, HandleRequest, HandleAccept, ContactsUpdated,
     FriendRequest, IncomingMessage, HistoryLoaded, RunHistory, RunRequest,
     RequestFails, ModalResult, SwitchTab, Move, Type, EnterSends, EnterAccepts, OpenModal,
     Submit, CloseModal, TypeName, vars, serverVars, tableVars, listVars,
     threadVars, modalVars, viewVars, cmdVars

(* A step keeps what is saved and not yet pushed. *)
LEMMA UnpushedStep ==
    ASSUME UnpushedInv, [Next]_vars
    PROVE  UnpushedInv'
<1>0. CASE UNCHANGED <<unpushed>>
  BY <1>0, SaidGrows DEF UnpushedInv
<1>1. ASSUME NEW n \in Name, NEW b \in Body, PeerSays(n, b)
      PROVE  UnpushedInv'
  <2>1. unpushed' = unpushed \cup {<<n, b>>} /\ said' = said \cup {<<n, b, FALSE>>}
    BY <1>1 DEF PeerSays
  <2>2. \A u \in unpushed' : <<u[1], u[2], FALSE>> \in said'
    <3>1. <<n, b>>[1] = n /\ <<n, b>>[2] = b
      OBVIOUS
    <3>. QED  BY <2>1, <3>1 DEF UnpushedInv
  <2>3. unpushed' \subseteq Name \X Body
    BY <2>1 DEF UnpushedInv
  <2>. QED  BY <2>2, <2>3 DEF UnpushedInv
<1>2. ASSUME NEW n \in Name, NEW b \in Body, Push(n, b)
      PROVE  UnpushedInv'
  <2>1. unpushed' \subseteq unpushed /\ said' = said
    BY <1>2 DEF Push
  <2>. QED  BY <2>1 DEF UnpushedInv
<1>. QED
  BY <1>0, <1>1, <1>2 DEF Next, ServerStep, EventStep, KeyStep, Quit,
     EnterPanics, PeerAsks, PeerAccepts, PeerDeleted, HandlerRefuses,
     HandleSend, HandleRequest, HandleAccept, HandleHistory, WriteHistory,
     ContactsUpdated, FriendRequest, IncomingMessage, HistoryLoaded,
     RunHistory, RunRequest, RequestFails, ModalResult, SwitchTab, Move, Type, EnterSends,
     EnterAccepts, StartAgain, OpenModal, Submit, CloseModal, TypeName, vars,
     serverVars, tableVars, listVars, threadVars, modalVars, viewVars, cmdVars

(* A step keeps the events to come true. *)
LEMMA InboxStep ==
    ASSUME TablesInv', TablesInv, AnswerInv, UnpushedInv, InboxInv, [Next]_vars
    PROVE  InboxInv'
<1>0. CASE UNCHANGED <<inbox>>
  BY <1>0, SaidGrows, EventsGrow DEF InboxInv
<1>1. ASSUME NEW n \in Name, PeerAsks(n)
      PROVE  InboxInv'
  <2>1. said' = said /\ inbox' = Append(inbox, Frame("request", n, NoBody))
    BY <1>1 DEF PeerAsks, Deliver
  <2>2. Frame("request", n, NoBody) \in EventType /\ EventTrue(Frame("request", n, NoBody), said)
    BY DEF Frame, EventType, EventTrue
  <2>. QED  BY <2>1, <2>2, OneMoreEvent DEF InboxInv
<1>2. ASSUME NEW n \in Name, PeerAccepts(n)
      PROVE  InboxInv'
  <2>1. said' = said /\ \E e \in Contacts' : inbox' = Append(inbox, e)
    BY <1>2 DEF PeerAccepts, Deliver
  <2>2. PICK e \in Contacts' : inbox' = Append(inbox, e)
    BY <2>1
  <2>3. e \in EventType /\ EventTrue(e, said)
    <3>1. /\ isFriend' \in SUBSET Name /\ hasAsked' \in SUBSET Name /\ askedFor' \in SUBSET Name
          /\ IsFiniteSet(isFriend') /\ IsFiniteSet(hasAsked') /\ IsFiniteSet(askedFor')
      BY DEF TablesInv
    <3>2. e \in [kind : {"contacts"}, friends : {s \in Orders(isFriend') : IsSorted(s)},
                pending : Orders(hasAsked'), outgoing : Orders(askedFor')]
      BY <2>2 DEF Contacts
    <3>. QED  BY <3>1, <3>2, ContactsAreEvents
  <2>. QED  BY <2>1, <2>2, <2>3, OneMoreEvent DEF InboxInv
<1>3. ASSUME NEW n \in Name, NEW b \in Body, Push(n, b)
      PROVE  InboxInv'
  <2>1. <<n, b>> \in unpushed /\ said' = said /\ inbox' = Append(inbox, Frame("message", n, b))
    BY <1>3 DEF Push, Deliver
  <2>2. <<n, b, FALSE>> \in said
    <3>1. <<n, b>>[1] = n /\ <<n, b>>[2] = b
      OBVIOUS
    <3>. QED  BY <2>1, <3>1 DEF UnpushedInv
  <2>3. Frame("message", n, b) \in EventType /\ EventTrue(Frame("message", n, b), said)
    BY <2>2 DEF Frame, EventType, EventTrue
  <2>. QED  BY <2>1, <2>3, OneMoreEvent DEF InboxInv
<1>4. ASSUME HandleRequest
      PROVE  InboxInv'
  <2>1. said' = said /\ \E e \in Contacts' : inbox' = Append(inbox, e)
    BY <1>4 DEF HandleRequest, Deliver
  <2>2. PICK e \in Contacts' : inbox' = Append(inbox, e)
    BY <2>1
  <2>3. e \in EventType /\ EventTrue(e, said)
    <3>1. /\ isFriend' \in SUBSET Name /\ hasAsked' \in SUBSET Name /\ askedFor' \in SUBSET Name
          /\ IsFiniteSet(isFriend') /\ IsFiniteSet(hasAsked') /\ IsFiniteSet(askedFor')
      BY DEF TablesInv
    <3>2. e \in [kind : {"contacts"}, friends : {s \in Orders(isFriend') : IsSorted(s)},
                pending : Orders(hasAsked'), outgoing : Orders(askedFor')]
      BY <2>2 DEF Contacts
    <3>. QED  BY <3>1, <3>2, ContactsAreEvents
  <2>. QED  BY <2>1, <2>2, <2>3, OneMoreEvent DEF InboxInv
<1>5. ASSUME HandleAccept
      PROVE  InboxInv'
  <2>1. said' = said /\ \E e \in Contacts' : inbox' = Append(inbox, e)
    BY <1>5 DEF HandleAccept, Deliver
  <2>2. PICK e \in Contacts' : inbox' = Append(inbox, e)
    BY <2>1
  <2>3. e \in EventType /\ EventTrue(e, said)
    <3>1. /\ isFriend' \in SUBSET Name /\ hasAsked' \in SUBSET Name /\ askedFor' \in SUBSET Name
          /\ IsFiniteSet(isFriend') /\ IsFiniteSet(hasAsked') /\ IsFiniteSet(askedFor')
      BY DEF TablesInv
    <3>2. e \in [kind : {"contacts"}, friends : {s \in Orders(isFriend') : IsSorted(s)},
                pending : Orders(hasAsked'), outgoing : Orders(askedFor')]
      BY <2>2 DEF Contacts
    <3>. QED  BY <3>1, <3>2, ContactsAreEvents
  <2>. QED  BY <2>1, <2>2, <2>3, OneMoreEvent DEF InboxInv
<1>6. ASSUME WriteHistory
      PROVE  InboxInv'
  <2>. DEFINE e == [kind |-> "history", peer |-> answer.peer, messages |-> answer.messages]
  <2>1. answer # NoAnswer /\ said' = said /\ inbox' = Append(inbox, e)
    BY <1>6 DEF WriteHistory, Deliver
  <2>2. answer.peer \in Name /\ Conversation(answer.peer, answer.messages, said)
    BY <2>1 DEF AnswerInv
  <2>3. e \in EventType /\ EventTrue(e, said)
    BY <2>2 DEF EventType, EventTrue, Conversation
  <2>. HIDE DEF e
  <2>. QED  BY <2>1, <2>3, OneMoreEvent DEF InboxInv
<1>7. ASSUME ContactsUpdated
      PROVE  InboxInv'
  <2>1. inbox # <<>> /\ inbox' = Tail(inbox) /\ said' = said
    BY <1>7 DEF ContactsUpdated, Event
  <2>. QED  BY <2>1, FirstEvent DEF InboxInv
<1>8. ASSUME FriendRequest
      PROVE  InboxInv'
  <2>1. inbox # <<>> /\ inbox' = Tail(inbox) /\ said' = said
    BY <1>8 DEF FriendRequest, Event
  <2>. QED  BY <2>1, FirstEvent DEF InboxInv
<1>9. ASSUME IncomingMessage
      PROVE  InboxInv'
  <2>1. inbox # <<>> /\ inbox' = Tail(inbox) /\ said' = said
    BY <1>9 DEF IncomingMessage, Event
  <2>. QED  BY <2>1, FirstEvent DEF InboxInv
<1>10. ASSUME HistoryLoaded
      PROVE  InboxInv'
  <2>1. inbox # <<>> /\ inbox' = Tail(inbox) /\ said' = said
    BY <1>10 DEF HistoryLoaded, Event
  <2>. QED  BY <2>1, FirstEvent DEF InboxInv
<1>11. ASSUME StartAgain
      PROVE  InboxInv'
  <2>1. PICK e \in Contacts : inbox' = <<e>> /\ said' = said
    BY <1>11 DEF StartAgain
  <2>2. e \in EventType /\ EventTrue(e, said)
    <3>1. /\ isFriend \in SUBSET Name /\ hasAsked \in SUBSET Name /\ askedFor \in SUBSET Name
          /\ IsFiniteSet(isFriend) /\ IsFiniteSet(hasAsked) /\ IsFiniteSet(askedFor)
      BY DEF TablesInv
    <3>2. e \in [kind : {"contacts"}, friends : {s \in Orders(isFriend) : IsSorted(s)},
                pending : Orders(hasAsked), outgoing : Orders(askedFor)]
      BY DEF Contacts
    <3>. QED  BY <3>1, <3>2, ContactsAreEvents
  <2>3. <<e>> \in Seq(EventType) /\ Elements(<<e>>) = {e}
    BY <2>2 DEF Elements
  <2>. QED  BY <2>1, <2>2, <2>3 DEF InboxInv
<1>. QED
  BY <1>0, <1>1, <1>2, <1>3, <1>4, <1>5, <1>6, <1>7, <1>8, <1>9, <1>10, <1>11
     DEF Next, ServerStep, EventStep, KeyStep, Quit, EnterPanics, PeerDeleted,
     PeerSays, HandlerRefuses, HandleSend, HandleHistory, RunHistory,
     RunRequest, RequestFails, ModalResult, SwitchTab, Move, Type, EnterSends, EnterAccepts,
     OpenModal, Submit, CloseModal, TypeName, vars, serverVars, tableVars,
     listVars, threadVars, modalVars, viewVars, cmdVars

(* A step keeps what the client has sent apart from what the tables have. *)
LEMMA OutboxStep ==
    ASSUME ViewInv, LogInv, OutboxInv, [Next]_vars
    PROVE  OutboxInv'
<1>0. CASE UNCHANGED <<outbox, log>>
  BY <1>0, SaidGrows, SentGrows DEF OutboxInv
<1>1. ASSUME NEW n \in Name, PeerDeleted(n)
      PROVE  OutboxInv'
  <2>1. outbox' = outbox /\ said' = said /\ log' = [log EXCEPT ![n] = <<>>]
    BY <1>1 DEF PeerDeleted
  <2>2. ASSUME NEW x, NotTold(x, log)
        PROVE  NotTold(x, log')
    <3>1. /\ \A p \in Name : p # n => log'[p] = log[p]
          /\ Elements(log'[n]) = {}
      BY <2>1, NoElements DEF LogInv, Conversations
    <3>. QED  BY <2>2, <3>1 DEF NotTold
  <2>3. Sent(outbox, log', said)
    BY <2>1, <2>2, SentGrows DEF OutboxInv
  <2>. QED  BY <2>1, <2>3 DEF OutboxInv
<1>2. ASSUME NEW n \in Name, NEW b \in Body, PeerSays(n, b)
      PROVE  OutboxInv'
  <2>1. /\ outbox' = outbox /\ said' = said \cup {<<n, b, FALSE>>}
        /\ log' = [log EXCEPT ![n] = Append(@, [body |-> b, self |-> FALSE])]
    BY <1>2 DEF PeerSays
  <2>2. ASSUME NEW x, NotTold(x, log)
        PROVE  NotTold(x, log')
    <3>1. log \in [Name -> Seq(Message)] /\ [body |-> b, self |-> FALSE] \in Message
      BY DEF LogInv, Conversations, Message
    <3>2. /\ \A p \in Name : p # n => Elements(log'[p]) = Elements(log[p])
          /\ Elements(log'[n]) = Elements(log[n]) \cup {[body |-> b, self |-> FALSE]}
      BY <2>1, <3>1, ElementsGoOn
    <3>. QED  BY <2>2, <3>2 DEF NotTold
  <2>3. Sent(outbox, log', said')
    BY <2>1, <2>2, SentGrows DEF OutboxInv
  <2>. QED  BY <2>1, <2>3 DEF OutboxInv
<1>3. ASSUME HandlerRefuses
      PROVE  OutboxInv'
  <2>1. outbox # <<>> /\ outbox' = Tail(outbox) /\ UNCHANGED <<log, said>>
    BY <1>3 DEF HandlerRefuses, serverVars, tableVars
  <2>. QED  BY <2>1, SentTail DEF OutboxInv
<1>4. ASSUME HandleSend
      PROVE  OutboxInv'
  <2>. DEFINE f == Head(outbox)
  <2>1. /\ outbox # <<>> /\ outbox' = Tail(outbox) /\ f.kind = "say" /\ said' = said
        /\ log' = [log EXCEPT ![f.name] = Append(@, [body |-> f.body, self |-> TRUE])]
    BY <1>4 DEF HandleSend, Handles
  <2>2. <<f.name, f.body, TRUE>> \in said
    <3>1. f \in Elements(outbox)
      BY <2>1, TailElements DEF OutboxInv, Sent
    <3>. QED  BY <2>1, <3>1 DEF OutboxInv, Sent
  <2>3. f.name \in Name /\ [body |-> f.body, self |-> TRUE] \in Message
    BY <2>2 DEF ViewInv, Message
  <2>4. Sent(Tail(outbox), log, said) /\ \A g \in Elements(Tail(outbox)) : g.kind = "say" => g.body # f.body
    BY <2>1, SentTail, HeadSaysOnce DEF OutboxInv
  <2>. HIDE DEF f
  <2>5. ASSUME NEW x, NotTold(x, log), x # f.body
        PROVE  NotTold(x, log')
    <3>1. /\ \A p \in Name : p # f.name => Elements(log'[p]) = Elements(log[p])
          /\ Elements(log'[f.name]) = Elements(log[f.name]) \cup {[body |-> f.body, self |-> TRUE]}
      BY <2>1, <2>3, ElementsGoOn DEF LogInv, Conversations
    <3>. QED  BY <2>5, <3>1 DEF NotTold
  <2>6. Sent(Tail(outbox), log', said)
    BY <2>4, <2>5, SentGrows
  <2>. QED  BY <2>1, <2>6 DEF OutboxInv
<1>5. ASSUME HandleRequest
      PROVE  OutboxInv'
  <2>1. outbox # <<>> /\ outbox' = Tail(outbox) /\ UNCHANGED <<log, said>>
    BY <1>5 DEF HandleRequest, Handles
  <2>. QED  BY <2>1, SentTail DEF OutboxInv
<1>6. ASSUME HandleAccept
      PROVE  OutboxInv'
  <2>1. outbox # <<>> /\ outbox' = Tail(outbox) /\ UNCHANGED <<log, said>>
    BY <1>6 DEF HandleAccept, Handles
  <2>. QED  BY <2>1, SentTail DEF OutboxInv
<1>7. ASSUME HandleHistory
      PROVE  OutboxInv'
  <2>1. outbox # <<>> /\ outbox' = Tail(outbox) /\ UNCHANGED <<log, said>>
    BY <1>7 DEF HandleHistory, Handles, tableVars
  <2>. QED  BY <2>1, SentTail DEF OutboxInv
<1>8. ASSUME NEW n \in Name, RunHistory(n)
      PROVE  OutboxInv'
  <2>1. outbox' = Append(outbox, Frame("history", n, NoBody)) /\ UNCHANGED <<log, said>>
    BY <1>8 DEF RunHistory, Transmit, serverVars, tableVars
  <2>2. Frame("history", n, NoBody) \in FrameType /\ Frame("history", n, NoBody).kind # "say"
    BY DEF Frame, FrameType
  <2>. QED  BY <2>1, <2>2, SentMore DEF OutboxInv
<1>9. ASSUME NEW n \in Name, RunRequest(n)
      PROVE  OutboxInv'
  <2>1. outbox' = Append(outbox, Frame("ask", n, NoBody)) /\ UNCHANGED <<log, said>>
    BY <1>9 DEF RunRequest, Transmit, serverVars, tableVars
  <2>2. Frame("ask", n, NoBody) \in FrameType /\ Frame("ask", n, NoBody).kind # "say"
    BY DEF Frame, FrameType
  <2>. QED  BY <2>1, <2>2, SentMore DEF OutboxInv
<1>10. ASSUME NEW n \in Name, EnterSends(n)
      PROVE  OutboxInv'
  <2>. DEFINE f == Frame("say", n, input)
  <2>1. /\ input # NoBody /\ outbox' = Append(outbox, f) /\ log' = log
        /\ said' = said \cup {<<n, input, TRUE>>}
    BY <1>10 DEF EnterSends, Transmit, serverVars, tableVars
  <2>2. f \in FrameType /\ f.name = n /\ f.body = input
    BY DEF Frame, FrameType, ViewInv
  <2>3. NotTold(input, log)
    BY NotSaidNotTold DEF LogInv, ViewInv
  <2>4. ASSUME NEW g \in Elements(outbox), g.kind = "say"
        PROVE  g.body # input
    <3>1. <<g.name, g.body, TRUE>> \in said
      BY <2>4 DEF OutboxInv, Sent
    <3>2. <<g.name, g.body, TRUE>>[2] = g.body
      OBVIOUS
    <3>. QED  BY <3>1, <3>2 DEF ViewInv
  <2>. HIDE DEF f
  <2>5. Sent(Append(outbox, f), log, said')
    BY <2>1, <2>2, <2>3, <2>4, SentMore DEF OutboxInv
  <2>. QED  BY <2>1, <2>5 DEF OutboxInv
<1>11. ASSUME NEW n \in Name, EnterAccepts(n)
      PROVE  OutboxInv'
  <2>1. outbox' = Append(outbox, Frame("accept", n, NoBody)) /\ UNCHANGED <<log, said>>
    BY <1>11 DEF EnterAccepts, Transmit, serverVars, tableVars
  <2>2. Frame("accept", n, NoBody) \in FrameType /\ Frame("accept", n, NoBody).kind # "say"
    BY DEF Frame, FrameType
  <2>. QED  BY <2>1, <2>2, SentMore DEF OutboxInv
<1>12. ASSUME StartAgain
      PROVE  OutboxInv'
  <2>1. outbox' = <<>>
    BY <1>12 DEF StartAgain
  <2>. QED  BY <2>1, SentNothing DEF OutboxInv
<1>. QED
  BY <1>0, <1>1, <1>2, <1>3, <1>4, <1>5, <1>6, <1>7, <1>8, <1>9, <1>10, <1>11,
     <1>12 DEF Next, ServerStep, EventStep, KeyStep, Quit, EnterPanics,
     PeerAsks, PeerAccepts, Push, WriteHistory, ContactsUpdated,
     FriendRequest, IncomingMessage, HistoryLoaded, RequestFails, ModalResult, SwitchTab,
     Move, Type, OpenModal, Submit, CloseModal, TypeName, vars, serverVars,
     tableVars, listVars, threadVars, modalVars, viewVars, cmdVars

-----------------------------------------------------------------------------
(* ChatInv is inductive: all that is on its way to a thread was said.       *)
THEOREM ChatInvariant == Spec => []ChatInv
<1>1. Init => ChatInv
  <2>. SUFFICES ASSUME Init PROVE ChatInv
    OBVIOUS
  <2>1. ListsInv
    BY DEF Init, ListsInv, FriendSelected, Tab
  <2>2. ViewInv /\ TablesInv /\ UnpushedInv
    BY FS_EmptySet DEF Init, ViewInv, TablesInv, UnpushedInv
  <2>3. ThreadsInv /\ LogInv /\ OutboxInv
    BY NoConversations, SentNothing DEF Init, ThreadsInv, LogInv, OutboxInv
  <2>4. AnswerInv /\ InboxInv
    BY NoElements DEF Init, AnswerInv, InboxInv
  <2>. QED  BY <2>1, <2>2, <2>3, <2>4 DEF ChatInv
<1>2. ChatInv /\ [Next]_vars => ChatInv'
  BY ListsStep, ViewStep, TablesStep, ThreadsStep, LogStep, AnswerStep, UnpushedStep,
     InboxStep, OutboxStep DEF ChatInv
<1>. QED  BY <1>1, <1>2, PTL DEF Spec

(* The types of the view. *)
THEOREM ViewTypeCorrect == Spec => []TypeOK
<1>1. ChatInv => TypeOK
  BY DEF ChatInv, ListsInv, ViewInv, ThreadsInv, Conversations, TypeOK
<1>. QED  BY <1>1, ChatInvariant, PTL

(* Enter on the friends tab has somebody to send to, whatever lists, tabs   *)
(* and selections came before (chat.go, clampActive).                       *)
THEOREM SelectionIsFriend == Spec => []FriendSelected
<1>1. ChatInv => FriendSelected
  BY DEF ChatInv, ListsInv
<1>. QED  BY <1>1, ChatInvariant, PTL

(* A thread shows only what was said in that conversation and by whom, with *)
(* any number of friends and whatever is on its way (chat.go).              *)
THEOREM ThreadsTellTheTruth == Spec => []ThreadsTruthful
<1>1. ChatInv => ThreadsTruthful
  BY DEF ChatInv, ThreadsInv, Conversations, Conversation, ThreadsTruthful
<1>. QED  BY <1>1, ChatInvariant, PTL

(* A history that arrives late does not double what the user has said.      *)
THEOREM OwnMessagesOnce == Spec => []OwnShownOnce
<1>1. ChatInv => OwnShownOnce
  BY DEF ChatInv, ThreadsInv, Conversations, Conversation, OwnOnce, OwnShownOnce
<1>. QED  BY <1>1, ChatInvariant, PTL

==============================================================================
