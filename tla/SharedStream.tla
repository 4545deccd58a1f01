---------------------------- MODULE SharedStream ----------------------------
(***************************************************************************)
(* The shared streams of watcherd and the connections that use them        *)
(* (sharedStream.cpp, watcherd.cpp and the dispatch of control messages in *)
(* serverConnection.cpp).                                                  *)
(*                                                                         *)
(* The handlers of a connection's reads run one after the other in its     *)
(* strand; its write handler, the handlers of other connections and the    *)
(* timers run at the same time.  A scope of SharedStream's lock_ is one    *)
(* action, except for the relay of a message, which shares the lock with   *)
(* other relays and goes from client to client, in any order.  That the    *)
(* locks can deadlock is the subject of StreamLocks, and not repeated      *)
(* here.                                                                   *)
(*                                                                         *)
(* A connection creates at most one stream, on its first control message:  *)
(* the stream is named after the connection.                               *)
(***************************************************************************)
EXTENDS Integers

CONSTANTS
  Conns,     \* the connections
  Speeds,    \* the playback speeds clients ask for
  Types,     \* the types of messages clients send
  MaxMsgs    \* a bound on the messages all clients send

ASSUME SharedStreamAssumption ==
  /\ "none" \notin Conns
  /\ Speeds \subseteq Int
  /\ Types \subseteq {"start", "stop", "speed", "subscribe", "feederEvent"}
  /\ MaxMsgs \in Nat

Streams == Conns

\* feederEvent stands for any feeder event.  The control messages that change
\* nothing here (seek, list, range, filter, description) are left out.
AllRequests ==
  [type : {"start", "stop", "feederEvent"}]
    \union [type : {"speed"}, speed : Speeds]
    \union [type : {"subscribe"}, uid : Streams]
Requests == {m \in AllRequests : m.type \in Types}

StartMessage    == [type |-> "start"]
StopMessage     == [type |-> "stop"]
SpeedMessage(f) == [type |-> "speed", speed |-> f]

VARIABLES
  connType,   \* conn_type: "unknown", "gui" or "feeder"
  stream,     \* the stream a connection uses, or "none"
  pc,         \* where the read handler of a connection is
  request,    \* the message it works on
  relay,      \* the message it relays, and the clients still to be sent it
  msgs,       \* the number of messages read so far
  peerOpen,   \* the client has not closed the connection
  failed,     \* a write has failed and its handler has not run
  told,       \* what a client was told last of its stream (only properties read it)
  clients,    \* the clients of a stream
  allStreams,
  isPlaying,
  replay      \* the engine of a stream: its state, "none" before it exists, and speed

connVars   == <<connType, stream, pc, request, relay, msgs, peerOpen, failed, told>>
streamVars == <<clients, allStreams, isPlaying, replay>>
vars       == <<connVars, streamVars>>

NoRelay == [msg |-> StopMessage, to |-> {}]

Init ==
  /\ connType = [c \in Conns |-> "unknown"]
  /\ stream = [c \in Conns |-> "none"]
  /\ pc = [c \in Conns |-> "read"]
  /\ request = [c \in Conns |-> StopMessage]
  /\ relay = [c \in Conns |-> NoRelay]
  /\ msgs = 0
  /\ peerOpen = [c \in Conns |-> TRUE]
  /\ failed = [c \in Conns |-> FALSE]
  /\ told = [c \in Conns |-> [playing |-> "untold", speed |-> 1]]
  /\ clients = [s \in Streams |-> {}]
  /\ allStreams = {}
  /\ isPlaying = [s \in Streams |-> FALSE]
  /\ replay = [s \in Streams |-> [state |-> "none", speed |-> 1]]

-----------------------------------------------------------------------------
\* lock_ can be taken for writing: no relay is under way.
Exclusive(s) == \A c \in Conns : pc[c] = "relaying" => stream[c] # s

\* The request is forgotten when the handler returns.
Goto(c, place) ==
  /\ pc' = [pc EXCEPT ![c] = place]
  /\ request' = IF place \in {"read", "refused", "done"} THEN [request EXCEPT ![c] = StopMessage] ELSE request

(* Connection c is sent m.  The write may fail when the client is gone.    *)
sendMessage(c, m) ==
  /\ told' = [told EXCEPT ![c] = CASE m.type = "start" -> [@ EXCEPT !.playing = "yes"]
                                   [] m.type = "stop"  -> [@ EXCEPT !.playing = "no"]
                                   [] m.type = "speed" -> [@ EXCEPT !.speed = m.speed]]
  /\ \E f \in {failed[c], failed[c] \/ ~ peerOpen[c]} : failed' = [failed EXCEPT ![c] = f]

\* Mutant of unsubscribe: the engine is left running.
unsubscribe_leavesRunning(s, c) ==
  LET rest == clients[s] \ {c} IN
  /\ Exclusive(s)
  /\ clients' = [clients EXCEPT ![s] = rest]
  /\ IF rest = {}
       THEN /\ allStreams' = allStreams \ {s}
            /\ isPlaying' = [isPlaying EXCEPT ![s] = FALSE]
       ELSE UNCHANGED <<allStreams, isPlaying>>
  /\ UNCHANGED replay

\* Mutant of unsubscribe: the list of streams is not updated.
unsubscribe_leavesListed(s, c) ==
  LET rest == clients[s] \ {c} IN
  /\ Exclusive(s)
  /\ clients' = [clients EXCEPT ![s] = rest]
  /\ IF rest = {}
       THEN /\ isPlaying' = [isPlaying EXCEPT ![s] = FALSE]
            /\ replay' = [replay EXCEPT ![s].state = "paused"]
       ELSE UNCHANGED <<isPlaying, replay>>
  /\ UNCHANGED allStreams

(* unsubscribe(): with its last client a stream leaves the list and stops. *)
unsubscribe(s, c) ==
  LET rest == clients[s] \ {c} IN
  /\ Exclusive(s)
  /\ clients' = [clients EXCEPT ![s] = rest]
  /\ IF rest = {}
       THEN /\ allStreams' = allStreams \ {s}
            /\ isPlaying' = [isPlaying EXCEPT ![s] = FALSE]
            /\ replay' = [replay EXCEPT ![s].state = "paused"]
       ELSE UNCHANGED <<allStreams, isPlaying, replay>>

-----------------------------------------------------------------------------
Dispatch(c, m, place) ==
  /\ pc' = [pc EXCEPT ![c] = place]
  /\ request' = [request EXCEPT ![c] = m]

\* Mutant of handle_read_payload: the stream is listed before it is created.
handle_read_payload_lateStream(c, m) ==
  /\ pc[c] = "read"
  /\ msgs < MaxMsgs
  /\ msgs' = msgs + 1
  /\ LET feederEvent == m.type = "feederEvent" IN
     \/ /\ connType[c] = IF feederEvent THEN "gui" ELSE "feeder"
        /\ Goto(c, "refused")
        /\ UNCHANGED <<connType, stream>>
     \/ /\ feederEvent /\ connType[c] # "gui"
        /\ connType' = [connType EXCEPT ![c] = "feeder"]
        /\ UNCHANGED <<pc, request, stream>>
     \/ /\ ~ feederEvent /\ connType[c] = "unknown"
        /\ connType' = [connType EXCEPT ![c] = "gui"]
        /\ Dispatch(c, m, "addStream")
        /\ UNCHANGED stream
     \/ /\ ~ feederEvent /\ connType[c] = "gui"
        /\ Dispatch(c, m, "dispatch")
        /\ UNCHANGED <<connType, stream>>
  /\ UNCHANGED <<relay, peerOpen, failed, told, streamVars>>

(* handle_read_payload: a message has arrived.  A feeder event of a client *)
(* that has sent control messages, or the reverse, ends the reading and    *)
(* nothing else; the first message decides which kind of client it is.     *)
handle_read_payload(c, m) ==
  /\ pc[c] = "read"
  /\ msgs < MaxMsgs
  /\ msgs' = msgs + 1
  /\ LET feederEvent == m.type = "feederEvent" IN
     \/ /\ connType[c] = IF feederEvent THEN "gui" ELSE "feeder"
        /\ Goto(c, "refused")
        /\ UNCHANGED <<connType, stream>>
     \/ /\ feederEvent /\ connType[c] # "gui"
        /\ connType' = [connType EXCEPT ![c] = "feeder"]
        /\ UNCHANGED <<pc, request, stream>>
     \/ /\ ~ feederEvent /\ connType[c] = "unknown"
        /\ connType' = [connType EXCEPT ![c] = "gui"]
        /\ stream' = [stream EXCEPT ![c] = c]
        /\ Dispatch(c, m, "subscribe")
     \/ /\ ~ feederEvent /\ connType[c] = "gui"
        /\ Dispatch(c, m, "dispatch")
        /\ UNCHANGED <<connType, stream>>
  /\ UNCHANGED <<relay, peerOpen, failed, told, streamVars>>

(* subscribe(), of the stream just created or of the one to join.  The     *)
(* speed to be told is read after lock_ is released.                       *)
subscribe(c) ==
  /\ pc[c] \in {"subscribe", "join"}
  /\ Exclusive(stream[c])
  /\ clients' = [clients EXCEPT ![stream[c]] = @ \union {c}]
  /\ replay' = [replay EXCEPT ![stream[c]].state = IF @ = "none" THEN "paused" ELSE @]
  /\ told' = [told EXCEPT ![c].playing = "untold"]
  /\ Goto(c, IF pc[c] = "join" THEN "greetJoined" ELSE "greetNew")
  /\ UNCHANGED <<connType, stream, relay, msgs, peerOpen, failed, allStreams, isPlaying>>

readSpeed(c) ==
  /\ pc[c] \in {"greetNew", "greetJoined"}
  /\ relay' = [relay EXCEPT ![c] = [msg |-> SpeedMessage(replay[stream[c]].speed), to |-> {c}]]
  /\ Goto(c, IF pc[c] = "greetNew" THEN "tellNew" ELSE "tellJoined")
  /\ UNCHANGED <<connType, stream, msgs, peerOpen, failed, told, streamVars>>

tellSpeed(c) ==
  /\ pc[c] \in {"tellNew", "tellJoined"}
  /\ sendMessage(c, relay[c].msg)
  /\ relay' = [relay EXCEPT ![c] = NoRelay]
  /\ Goto(c, IF pc[c] = "tellNew" THEN "addStream" ELSE "read")
  /\ UNCHANGED <<connType, stream, msgs, peerOpen, streamVars>>

addStream(c) ==
  /\ pc[c] = "addStream"
  /\ allStreams' = allStreams \union {stream[c]}
  /\ Goto(c, "dispatch")
  /\ UNCHANGED <<connType, stream, relay, msgs, peerOpen, failed, told,
                 clients, isPlaying, replay>>

(* After the scope of lock_ the message is relayed to the subscribers. *)
ThenRelay(c, m) ==
  /\ relay' = [relay EXCEPT ![c] = [msg |-> m, to |-> {}]]
  /\ Goto(c, "relay")
  /\ UNCHANGED <<connType, stream, msgs, peerOpen, failed, told, clients, allStreams>>

SetPlaying(s, on) ==
  /\ isPlaying' = [isPlaying EXCEPT ![s] = on]
  /\ replay' = [replay EXCEPT ![s].state =
                  IF isPlaying[s] = on THEN @ ELSE IF on THEN "running" ELSE "paused"]

start(c) ==
  /\ pc[c] = "dispatch" /\ request[c].type = "start"
  /\ Exclusive(stream[c])
  /\ SetPlaying(stream[c], TRUE)
  /\ ThenRelay(c, StartMessage)

\* A speed of 0 is a stop.
stop(c) ==
  /\ pc[c] = "dispatch" /\ request[c] \in {StopMessage, SpeedMessage(0)}
  /\ Exclusive(stream[c])
  /\ SetPlaying(stream[c], FALSE)
  /\ ThenRelay(c, StopMessage)

speed(c) ==
  /\ pc[c] = "dispatch" /\ request[c].type = "speed" /\ request[c] # SpeedMessage(0)
  /\ Exclusive(stream[c])
  /\ replay' = [replay EXCEPT ![stream[c]].speed = request[c].speed]
  /\ ThenRelay(c, request[c])
  /\ UNCHANGED isPlaying

(* subscribeToStream: the stream is looked up, then left, then joined.  *)
getStream(c) ==
  /\ pc[c] = "dispatch" /\ request[c].type = "subscribe"
  /\ Goto(c, IF request[c].uid \in allStreams \ {stream[c]} THEN "leave" ELSE "read")
  /\ UNCHANGED <<connType, stream, relay, msgs, peerOpen, failed, told, streamVars>>

\* Mutant of leaveStream: the old stream is not left.
leaveStream_stays(c) ==
  /\ pc[c] = "leave"
  /\ Goto(c, "switch")
  /\ UNCHANGED <<connType, stream, relay, msgs, peerOpen, failed, told, streamVars>>

leaveStream(c) ==
  /\ pc[c] = "leave"
  /\ unsubscribe(stream[c], c)
  /\ Goto(c, "switch")
  /\ UNCHANGED <<connType, stream, relay, msgs, peerOpen, failed, told>>

switchStream(c) ==
  /\ pc[c] = "switch"
  /\ stream' = [stream EXCEPT ![c] = request[c].uid]
  /\ Goto(c, "join")
  /\ UNCHANGED <<connType, relay, msgs, peerOpen, failed, told, streamVars>>

(* The relay, under the shared lock_: one client after the other. *)
relayBegins(c) ==
  /\ pc[c] = "relay"
  /\ relay' = [relay EXCEPT ![c].to = clients[stream[c]]]
  /\ Goto(c, "relaying")
  /\ UNCHANGED <<connType, stream, msgs, peerOpen, failed, told, streamVars>>

relayNext(c) ==
  /\ pc[c] = "relaying"
  /\ \/ /\ \E d \in relay[c].to :
             /\ sendMessage(d, relay[c].msg)
             /\ relay' = [relay EXCEPT ![c].to = @ \ {d}]
        /\ UNCHANGED <<pc, request>>
     \/ /\ relay[c].to = {}
        /\ relay' = [relay EXCEPT ![c] = NoRelay]
        /\ Goto(c, "read")
        /\ UNCHANGED <<told, failed>>
  /\ UNCHANGED <<connType, stream, msgs, peerOpen, streamVars>>

Strand(c) ==
  \/ subscribe(c) \/ readSpeed(c) \/ tellSpeed(c) \/ addStream(c)
  \/ start(c) \/ stop(c) \/ speed(c)
  \/ getStream(c) \/ leaveStream(c) \/ switchStream(c)
  \/ relayBegins(c) \/ relayNext(c)

\* Mutant of read_error: the connection stays subscribed.
read_error_staysSubscribed(c) ==
  /\ pc[c] = "read" /\ ~ peerOpen[c]
  /\ Goto(c, "done")
  /\ UNCHANGED <<connType, stream, relay, msgs, peerOpen, failed, told, streamVars>>

(* The end of the connection is seen by a read ... *)
read_error(c) ==
  /\ pc[c] = "read" /\ ~ peerOpen[c]
  /\ IF connType[c] = "gui" THEN unsubscribe(stream[c], c) ELSE UNCHANGED streamVars
  /\ Goto(c, "done")
  /\ UNCHANGED <<connType, stream, relay, msgs, peerOpen, failed, told>>

(* ... or by a write, whose handler is in another strand. *)
handle_write(c) ==
  /\ failed[c]
  /\ failed' = [failed EXCEPT ![c] = FALSE]
  /\ IF connType[c] = "gui" THEN unsubscribe(stream[c], c) ELSE UNCHANGED streamVars
  /\ UNCHANGED <<connType, stream, pc, request, relay, msgs, peerOpen, told>>

(* The engine sends messages to the clients, and falls back to speed 1 at  *)
(* the end of the recording (ReplayState).                                 *)
timer_handler(s) ==
  /\ replay[s].state = "running"
  /\ \E F \in SUBSET {c \in clients[s] : ~ peerOpen[c]} :
       failed' = [c \in Conns |-> failed[c] \/ c \in F]
  /\ \E f \in {replay[s].speed, 1} :
       /\ f # replay[s].speed => replay[s].speed > 0
       /\ replay' = [replay EXCEPT ![s].speed = f]
  /\ UNCHANGED <<connType, stream, pc, request, relay, msgs, peerOpen, told,
                 clients, allStreams, isPlaying>>

PeerCloses(c) ==
  /\ peerOpen[c]
  /\ peerOpen' = [peerOpen EXCEPT ![c] = FALSE]
  /\ UNCHANGED <<connType, stream, pc, request, relay, msgs, failed, told, streamVars>>

Next ==
  \/ \E c \in Conns :
       \/ \E m \in Requests : handle_read_payload(c, m)
       \/ Strand(c)
       \/ read_error(c)
       \/ handle_write(c)
       \/ PeerCloses(c)
  \/ \E s \in Streams : timer_handler(s)

Spec == Init /\ [][Next]_vars

(***************************************************************************)
(* The io_service runs a handler that is ready, and a read of a closed     *)
(* connection fails.                                                       *)
(***************************************************************************)
FairSpec ==
  /\ Spec
  /\ \A c \in Conns :
       /\ WF_vars(Strand(c))
       /\ WF_vars(read_error(c))
       /\ WF_vars(handle_write(c))

-----------------------------------------------------------------------------
TypeOK ==
  /\ connType \in [Conns -> {"unknown", "gui", "feeder"}]
  /\ stream \in [Conns -> Streams \union {"none"}]
  /\ pc \in [Conns -> {"read", "subscribe", "join", "greetNew", "greetJoined", "tellNew",
                       "tellJoined", "addStream", "dispatch", "leave", "switch", "relay",
                       "relaying", "refused", "done"}]
  /\ request \in [Conns -> AllRequests]
  /\ relay \in [Conns -> [msg : AllRequests \union {SpeedMessage(1)}, to : SUBSET Conns]]
  /\ msgs \in 0 .. MaxMsgs
  /\ peerOpen \in [Conns -> BOOLEAN]
  /\ failed \in [Conns -> BOOLEAN]
  /\ told \in [Conns -> [playing : {"untold", "yes", "no"}, speed : Int]]
  /\ clients \in [Streams -> SUBSET Conns]
  /\ allStreams \subseteq Streams
  /\ isPlaying \in [Streams -> BOOLEAN]
  /\ replay \in [Streams -> [state : {"none", "paused", "running"}, speed : Int]]

(***************************************************************************)
(* A connection is a client of one stream at most, the one its own         *)
(* requests go to; and it is in no list of clients when it is about to be  *)
(* put into one, so that it is never in a list twice.                      *)
(***************************************************************************)
ClientOfOwnStream ==
  \A s \in Streams : \A c \in clients[s] :
    stream[c] = s /\ pc[c] \notin {"subscribe", "switch", "join"}

(***************************************************************************)
(* A stream is marked as playing exactly when its engine runs.             *)
(***************************************************************************)
PlayingAgrees == \A s \in Streams : isPlaying[s] <=> replay[s].state = "running"

(***************************************************************************)
(* A stream that all its connections have left is not in the list, does    *)
(* not play and has no clients, whichever of read and write sees the end   *)
(* of a connection first, and whoever joins or leaves at the same time.    *)
(***************************************************************************)
InUse(s) == \E c \in Conns : stream[c] = s /\ pc[c] # "done"
NothingLeftBehind ==
  \A s \in Streams :
    ~ InUse(s) => s \notin allStreams /\ replay[s].state # "running" /\ clients[s] = {}

(***************************************************************************)
(* A connection that the client has closed leaves its stream in the end,   *)
(* unless it was refused before: nobody reads from it then.                *)
(***************************************************************************)
ClosedLeaves ==
  \A c \in Conns : ~ peerOpen[c] ~> pc[c] = "refused" \/ \A s \in Streams : c \notin clients[s]
=============================================================================
