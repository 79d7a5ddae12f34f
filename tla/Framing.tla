------------------------------ MODULE Framing ------------------------------
(***************************************************************************)
(* Frames on the connection from a chat client to the server               *)
(* (protocol/frame.go, writePacket of client/chat.go).  A frame is written *)
(* in two calls, header and payload, of which only each is indivisible; no *)
(* lock spans them, and packets are written by Update and by the commands  *)
(* that it has started, in goroutines of their own.                        *)
(*                                                                         *)
(* The stream is a sequence of words: a header, which says how many words  *)
(* the payload has, or a word of a payload.  Words arrive one by one.      *)
(***************************************************************************)
EXTENDS Integers, Sequences

CONSTANTS
    Sending,    \* packets to be written, each by a goroutine of its own
    sizeOf,     \* of each packet's payload, in words
    MaxFrame    \* MaxFrameSize, in words

ASSUME FramingAssumption == sizeOf \in [Sending -> Nat \ {0}] /\ MaxFrame \in Nat

VARIABLES
    written,    \* of each packet: nothing, header, frame, or an error
    wire,       \* words that have not arrived
    arrived,    \* words that have, and that Read has not taken
    needed,     \* words of the payload that Read waits for, or 0
    handled,    \* packets that Read has returned
    link,       \* up, cut by the network, or closed by a server that failed to read
    overlapped  \* history: a write began between the header and the payload of another

framingVars == <<written, wire, arrived, needed, handled, link, overlapped>>
readerVars  == <<arrived, needed, handled>>

Header(p)   == <<p, 0>>
Payload(p)  == [i \in 1 .. sizeOf[p] |-> <<p, i>>]
IsHeader(w) == w[2] = 0

FramingInit ==
    /\ written = [p \in Sending |-> "nothing"]
    /\ wire = <<>> /\ arrived = <<>> /\ needed = 0 /\ handled = <<>>
    /\ link = "up" /\ overlapped = FALSE

-----------------------------------------------------------------------------
(* Write, by the client *)

WriteHeader(p) ==
    /\ written[p] = "nothing" /\ sizeOf[p] <= MaxFrame /\ link = "up"
    /\ written' = [written EXCEPT ![p] = "header"]
    /\ wire' = Append(wire, Header(p))
    /\ overlapped' = (overlapped \/ \E q \in Sending : written[q] = "header")
    /\ UNCHANGED <<readerVars, link>>

WritePayload(p) ==
    /\ written[p] = "header" /\ link = "up"
    /\ written' = [written EXCEPT ![p] = "frame"]
    /\ wire' = wire \o Payload(p)
    /\ UNCHANGED <<readerVars, link, overlapped>>

\* ErrFrameTooLarge, before anything is written, or an error of the connection.
WriteRefused(p) ==
    /\ \/ written[p] = "nothing" /\ (sizeOf[p] > MaxFrame \/ link # "up")
       \/ written[p] = "header" /\ link # "up"
    /\ written' = [written EXCEPT ![p] = "error"]
    /\ UNCHANGED <<wire, readerVars, link, overlapped>>

Arrives ==
    /\ wire # <<>> /\ link = "up"
    /\ arrived' = Append(arrived, Head(wire)) /\ wire' = Tail(wire)
    /\ UNCHANGED <<written, needed, handled, link, overlapped>>

Cut ==
    /\ link = "up" /\ link' = "cut"
    /\ UNCHANGED <<written, wire, readerVars, overlapped>>

-----------------------------------------------------------------------------
(* Read, by the server *)

ReadHeader ==
    /\ needed = 0 /\ arrived # <<>> /\ link # "closed"
    /\ IsHeader(Head(arrived)) /\ sizeOf[Head(arrived)[1]] <= MaxFrame
    /\ needed' = sizeOf[Head(arrived)[1]]
    /\ arrived' = Tail(arrived)
    /\ UNCHANGED <<written, wire, handled, link, overlapped>>

(* ReadFull.  Mutant: whatever has arrived is taken.                        *)
SomeArrived == arrived # <<>>
AllArrived == Len(arrived) >= needed

\* What ReadFull returns.
Taken == SubSeq(arrived, 1, IF Len(arrived) < needed THEN Len(arrived) ELSE needed)

ReadPayload ==
    /\ needed > 0 /\ AllArrived /\ link # "closed"
    /\ \E p \in Sending : Taken = Payload(p) /\ handled' = Append(handled, p)
    /\ arrived' = SubSeq(arrived, Len(Taken) + 1, Len(arrived)) /\ needed' = 0
    /\ UNCHANGED <<written, wire, link, overlapped>>

(* Four characters of JSON are a size beyond MaxFrameSize, and the zero     *)
(* bytes of a header are not JSON: Read fails, and handleConn ends.         *)
ReadRefused ==
    /\ link # "closed"
    /\ \/ needed = 0 /\ arrived # <<>> /\ ~IsHeader(Head(arrived))
       \/ needed > 0 /\ AllArrived /\ \A p \in Sending : Taken # Payload(p)
    /\ link' = "closed"
    /\ UNCHANGED <<written, wire, readerVars, overlapped>>

-----------------------------------------------------------------------------
FramingNext ==
    \/ \E p \in Sending : WriteHeader(p) \/ WritePayload(p) \/ WriteRefused(p)
    \/ Arrives \/ Cut \/ ReadHeader \/ ReadPayload \/ ReadRefused

FramingSpec == FramingInit /\ [][FramingNext]_framingVars

-----------------------------------------------------------------------------
(* Properties *)

(* The types of the stream's two ends. *)
FramingTypeOK ==
    /\ written \in [Sending -> {"nothing", "header", "frame", "error"}]
    /\ needed \in 0 .. MaxFrame /\ handled \in Seq(Sending)
    /\ \A w \in {wire[i] : i \in DOMAIN wire} \cup {arrived[i] : i \in DOMAIN arrived} :
          w[1] \in Sending /\ w[2] \in 0 .. MaxFrame
    /\ link \in {"up", "cut", "closed"} /\ overlapped \in BOOLEAN

(* The server reads packets as they were written, however their words       *)
(* arrive, and gives up a connection only if two writes have overlapped on  *)
(* it (frame.go, writePacket).                                              *)
ClosedByOverlap ==
    /\ link = "closed" => overlapped
    /\ \A i, j \in DOMAIN handled :
          written[handled[i]] = "frame" /\ (handled[i] = handled[j] => i = j)

=============================================================================
