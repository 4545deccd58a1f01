-------------------------- MODULE ServerConnection --------------------------
(***************************************************************************)
(* One connection of watcherd and the client at its other end              *)
(* (serverConnection.cpp, dataMarshaller.cpp, messageStreamFilter.cpp).    *)
(*                                                                         *)
(* The connection reads requests in its strand.  Threads of relays and of  *)
(* the playback engine write to it meanwhile.  A frame is written in parts,*)
(* its header and then each message, and a socket that is full takes some  *)
(* of them: asio writes the rest later, and does not keep the parts of two *)
(* writes apart.  What requests do to the stream is in SharedStream.       *)
(***************************************************************************)
EXTENDS Naturals, Sequences, SequencesExt

CONSTANTS
  Types,        \* the types of messages
  Layers,       \* the layers of feeder messages
  Filters,      \* the filters a client asks for
  Relays,       \* the messages relayed, one at a time
  Batches,      \* the messages played, several at a time
  Width,        \* the bits of the number of messages in a header (the code: 16)
  SocketSize,   \* the parts a socket takes before it is full
  MaxFrames     \* a bound on the frames sent

NoLayer == "none"
Message == [type : Types, layer : Layers \union {NoLayer}]
Filter  == [types : SUBSET Types, layers : SUBSET Layers, opAND : BOOLEAN]

ASSUME ServerConnectionAssumption ==
  /\ NoLayer \notin Layers
  /\ Filters \subseteq Filter /\ Relays \subseteq Message /\ Batches \subseteq Seq(Message) \ {<<>>}
  /\ Width \in Nat /\ 2 ^ Width \in Nat \ {0}  \* the provers know nothing of powers
  /\ SocketSize \in Nat \ {0} /\ MaxFrames \in Nat

VARIABLES
  connType,        \* conn_type: "unknown", "gui" or "feeder"
  reading,         \* an async_read is under way
  subscribed,      \* the connection is a client of a stream
  messageStreamFilterEnabled, messageStreamFilters,
  writes,          \* the parts each write under way has left
  clientOpen,      \* the client has not closed its end
  socket,          \* the parts on their way
  need, got,       \* the client: the parts of the payload it reads, and has read
  deaf,            \* it has met a frame it cannot parse, and reads no more
  received,        \* the messages it got
  frames,          \* the messages of each frame sent
  terminated,      \* watcherd has ended by an exception
  mixed            \* a write has started while another was under way; only the property reads it

readVars   == <<connType, reading, subscribed, messageStreamFilterEnabled, messageStreamFilters, terminated>>
writeVars  == <<writes, socket, frames, mixed>>
clientVars == <<clientOpen, need, got, deaf, received>>
vars       == <<readVars, writeVars, clientVars>>

Init ==
  /\ connType = "unknown" /\ reading = TRUE /\ subscribed = FALSE /\ terminated = FALSE
  /\ messageStreamFilterEnabled = FALSE /\ messageStreamFilters = {}
  /\ writes = <<>> /\ socket = <<>> /\ frames = <<>> /\ mixed = FALSE
  /\ clientOpen = TRUE /\ need = <<>> /\ got = <<>> /\ deaf = FALSE /\ received = <<>>

-----------------------------------------------------------------------------
(* Reading: handle_read_header and handle_read_payload.  A header is only  *)
(* looked at when it is complete, and always makes sense.                  *)

read_error == subscribed' = (subscribed /\ connType # "gui")

EndsReading ==
  /\ reading' = FALSE
  /\ UNCHANGED <<messageStreamFilterEnabled, messageStreamFilters, terminated>>

\* The client has gone: the read fails, or remote_endpoint() does.
ReadFails ==
  /\ reading /\ ~ clientOpen
  /\ read_error
  /\ EndsReading
  /\ UNCHANGED <<connType, writeVars, clientVars>>

\* A message that is none: nothing is done about the stream.
UnparsablePayload ==
  /\ reading /\ clientOpen
  /\ EndsReading
  /\ UNCHANGED <<connType, subscribed, writeVars, clientVars>>

(* A payload that is no YAML: GetNextDocument throws, and nothing between  *)
(* it and the thread of the pool catches that.                             *)
ParserThrows ==
  /\ reading /\ clientOpen
  /\ terminated' = TRUE /\ reading' = FALSE /\ subscribed' = FALSE
  /\ UNCHANGED <<connType, messageStreamFilterEnabled, messageStreamFilters, writeVars, clientVars>>

\* A feeder event.  Of a GUI it ends the connection, which stays subscribed.
FeederEvent ==
  /\ reading /\ clientOpen
  /\ IF connType = "gui"
       THEN EndsReading /\ UNCHANGED connType
       ELSE /\ connType' = "feeder"
            /\ UNCHANGED <<reading, terminated, messageStreamFilterEnabled, messageStreamFilters>>
  /\ UNCHANGED <<subscribed, writeVars, clientVars>>

\* Any control message: of a feeder it ends the connection; the first of a GUI
\* creates its stream.  filter() takes the switch and one filter at a time.
ControlMessage ==
  /\ reading /\ clientOpen
  /\ \/ /\ connType = "feeder"
        /\ EndsReading
        /\ UNCHANGED <<connType, subscribed>>
     \/ /\ connType # "feeder" /\ connType' = "gui"
        /\ subscribed' = (subscribed \/ connType = "unknown")
        /\ \/ UNCHANGED <<messageStreamFilterEnabled, messageStreamFilters>>
           \/ \E f \in Filters, enable \in BOOLEAN :
                /\ messageStreamFilterEnabled' = enable
                /\ \/ messageStreamFilters' = messageStreamFilters \union {f}
                   \/ messageStreamFilters' = messageStreamFilters \ {f}
        /\ UNCHANGED <<reading, terminated>>
  /\ UNCHANGED <<writeVars, clientVars>>

-----------------------------------------------------------------------------
(* Writing.                                                                *)

(* With AND every type of the filter must be the message's, and so must    *)
(* every layer, if the message has one; with OR one type or one layer is.  *)
passFilter(f, m) ==
  LET layers == IF m.layer = NoLayer THEN {} ELSE f.layers IN
  IF f.opAND THEN f.types \subseteq {m.type} /\ layers \subseteq {m.layer}
             ELSE m.type \in f.types \/ m.layer \in layers

\* The parts of frame k, part 0 is its header.
Parts(k, msgs) == [i \in 1 .. Len(msgs) + 1 |-> [frame |-> k, part |-> i - 1]]

\* The parts of a write that the socket takes at once.
Least(a, b) == IF a < b THEN a ELSE b
Taken(parts) == Least(Len(parts), SocketSize - Len(socket))

\* async_write of a frame: what does not fit is left to be written later.
async_write(msgs) ==
  LET parts == Parts(Len(frames) + 1, msgs)
      k     == Taken(parts) IN
  /\ subscribed /\ clientOpen /\ Len(frames) < MaxFrames
  /\ frames' = Append(frames, msgs)
  /\ socket' = socket \o SubSeq(parts, 1, k)
  /\ writes' = IF k = Len(parts) THEN writes ELSE Append(writes, SubSeq(parts, k + 1, Len(parts)))
  /\ mixed' = (mixed \/ writes # <<>>)
  /\ UNCHANGED <<readVars, clientVars>>

(* sendMessage of one message, relayed or an answer: it must pass every    *)
(* filter, but only if filtering is not enabled.                           *)
sendMessage ==
  \E m \in Relays :
    /\ messageStreamFilterEnabled \/ \A f \in messageStreamFilters : passFilter(f, m)
    /\ async_write(<<m>>)

PassesSome(m) == \E f \in messageStreamFilters : passFilter(f, m)

\* Those of a batch that pass some filter, kept one after the other.
Passing(b) ==
  LET kept[i \in 0 .. Len(b)] ==
        IF i = 0 THEN <<>>
        ELSE IF PassesSome(b[i]) THEN Append(kept[i - 1], b[i]) ELSE kept[i - 1]
  IN  kept[Len(b)]

(* sendMessage of several, played: if filtering is enabled, those that     *)
(* pass some filter are sent.                                              *)
sendMessages ==
  \E b \in Batches :
    LET passed == IF messageStreamFilterEnabled THEN Passing(b) ELSE b IN
    /\ passed # <<>>
    /\ async_write(passed)

\* A write goes on where the socket has room again: whichever comes first.
WriteOn(i) ==
  LET k == Taken(writes[i]) IN
  /\ k > 0 /\ ~ terminated
  /\ socket' = socket \o SubSeq(writes[i], 1, k)
  /\ writes' = IF k = Len(writes[i])
                 THEN RemoveAt(writes, i)
                 ELSE [writes EXCEPT ![i] = SubSeq(@, k + 1, Len(@))]
  /\ UNCHANGED <<readVars, clientVars, frames, mixed>>

\* handle_write with an error, when the client has gone.
WriteFails ==
  /\ writes # <<>> /\ ~ clientOpen /\ ~ terminated
  /\ writes' = Tail(writes)
  /\ subscribed' = (subscribed /\ connType # "gui")
  /\ UNCHANGED <<connType, reading, messageStreamFilterEnabled, messageStreamFilters, terminated>>
  /\ UNCHANGED <<socket, frames, mixed, clientVars>>

-----------------------------------------------------------------------------
(* The client: it reads a header, then as many bytes as that names.        *)

\* Mutant of unmarshalPayload: messages are put before those unmarshalled.
unmarshalPayload_pushesFront(msgs) == Reverse(SubSeq(msgs, 1, Len(msgs) % 2 ^ Width))

\* The number of messages was cut to the width of the header's field.
unmarshalPayload(msgs) == SubSeq(msgs, 1, Len(msgs) % 2 ^ Width)

ReadHeader ==
  /\ clientOpen /\ ~ deaf /\ socket # <<>> /\ need = <<>>
  /\ LET p == Head(socket) IN
     IF p.part = 0 THEN need' = Tail(Parts(p.frame, frames[p.frame])) /\ UNCHANGED deaf
                   ELSE deaf' = TRUE /\ UNCHANGED need
  /\ socket' = Tail(socket)
  /\ UNCHANGED <<clientOpen, got, received, readVars, writes, frames, mixed>>

\* Parts of another frame make the payload senseless.
ReadPart ==
  LET all == Append(got, Head(socket)) IN
  /\ clientOpen /\ ~ deaf /\ socket # <<>> /\ need # <<>>
  /\ socket' = Tail(socket)
  /\ IF Len(all) < Len(need)
       THEN got' = all /\ UNCHANGED <<need, received, deaf>>
       ELSE /\ got' = <<>> /\ need' = <<>>
            /\ deaf' = (all # need)
            /\ received' = IF all = need THEN received \o unmarshalPayload(frames[need[1].frame]) ELSE received
  /\ UNCHANGED <<clientOpen, readVars, writes, frames, mixed>>

ClientCloses ==
  /\ clientOpen /\ clientOpen' = FALSE
  /\ UNCHANGED <<need, got, deaf, received, readVars, writeVars>>

Next ==
  \/ ReadFails \/ UnparsablePayload \/ ParserThrows \/ FeederEvent \/ ControlMessage
  \/ sendMessage \/ sendMessages \/ (\E i \in 1 .. Len(writes) : WriteOn(i)) \/ WriteFails
  \/ ReadHeader \/ ReadPart \/ ClientCloses

Spec == Init /\ [][Next]_vars

-----------------------------------------------------------------------------
\* The messages of each frame that its header counts.
Counted(fs) == [k \in 1 .. Len(fs) |-> SubSeq(fs[k], 1, Len(fs[k]) % 2 ^ Width)]

(* As long as no write starts while another is under way, the client gets  *)
(* the messages sent, each once and in order, and all of them in the end.  *)
(* A frame of more messages than its header can count loses the last of    *)
(* them, and only them: what is sent after it arrives.                     *)
StreamIsIntact ==
  ~ mixed =>
    /\ ~ deaf
    /\ IsPrefix(received, FlattenSeq(Counted(frames)))
    /\ clientOpen /\ writes = <<>> /\ socket = <<>> /\ need = <<>> => received = FlattenSeq(Counted(frames))
=============================================================================
