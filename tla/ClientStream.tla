---------------------------- MODULE ClientStream ----------------------------
(***************************************************************************)
(* A client's stream of messages, from the socket to the callbacks of a    *)
(* GUI (clientConnection.cpp, messageStream.cpp, messageStreamReactor.cpp, *)
(* and connectStream() of the two main windows).  Three threads work on    *)
(* it: the application connects and sends, the io thread of the Client     *)
(* reads the socket into the cache of messages, and the reactor's thread   *)
(* takes them out and calls back.  watcherd is external: it may stop, in   *)
(* the middle of a frame or between two, and be started again.             *)
(*                                                                         *)
(* A frame holds one message here, and messages carry a number of their    *)
(* own.  reconnect(), which replaces the Client, is left out.              *)
(***************************************************************************)
EXTENDS Naturals, Sequences

CONSTANTS
  Nodes,        \* the nodes feeder messages are from
  MaxMsgs,      \* a bound on the frames watcherd sends
  MaxStops,     \* a bound on how often it stops
  MaxErrors,    \* a bound on the writes that fail without the io thread knowing
  MaxHasty      \* a bound on the attempts to connect made before the io thread
                \* has run what waits for it: an attempt takes a round trip

ASSUME ClientStreamAssumption ==
  /\ MaxMsgs \in Nat
  /\ MaxStops \in Nat
  /\ MaxErrors \in Nat \ {0}
  /\ MaxHasty \in Nat

VARIABLES
  up, peerOpen,     \* watcherd runs; it holds its end of the socket open
  wire,             \* the frames on their way
  sent, stops,
  sock,             \* theSocket is open
  connected,        \* the flag of the connection, read by other threads
  reading,          \* an async_read is under way
  errors,           \* completions with an error the io thread has yet to run
  closing,          \* the io thread is between the two statements of doClose()
  aborted,          \* the process has ended on an exception nobody catches
  early,            \* the client sets up its reactor before it connects
  at,               \* where connectStream() is
  opening,          \* it is in tryConnect(), before run()
  hasty,            \* the attempts of MaxHasty it has made
  handlers,         \* the entries for the stream among the messageHandlers
  messageCache, readReady,
  running,          \* the reactor's thread runs
  held,             \* the message it works on, if any
  registered,       \* the callbacks are registered
  seenNodes,        \* seenNodeMap
  \* Only properties read these.
  heard,            \* the messages given to callbacks
  announced,        \* the nodes given to new-node callbacks, by this reactor
  deaf              \* the socket has been read for the last time, but is still open

peerVars   == <<up, peerOpen, wire, sent, stops>>
socketVars == <<sock, connected, reading, errors, closing>>
appVars    == <<early, at, opening, hasty, handlers>>
cacheVars  == <<messageCache, readReady>>
readerVars == <<running, held, registered, seenNodes, heard, announced>>
vars       == <<peerVars, socketVars, deaf, aborted, appVars, cacheVars, readerVars>>

Message(n, node) == [kind |-> "message", n |-> n, node |-> node]
Garbled == [kind |-> "garbled"]   \* the payload cannot be parsed
Partial == [kind |-> "partial"]   \* a header, and less than its payload

\* ogreWatcher has its callbacks registered at the start (initMessageStream);
\* messageStreamControl does it each time it has connected.
Init ==
  /\ up = TRUE /\ peerOpen = FALSE /\ wire = <<>> /\ sent = 0 /\ stops = 0
  /\ sock = FALSE /\ connected = FALSE /\ reading = FALSE /\ errors = 0 /\ closing = FALSE
  /\ aborted = FALSE
  /\ early \in BOOLEAN
  /\ at = "connect" /\ opening = FALSE /\ hasty = 0 /\ handlers = 0
  /\ messageCache = <<>> /\ readReady = FALSE
  /\ running = early /\ registered = early
  /\ held = <<>> /\ seenNodes = {}
  /\ heard = <<>> /\ announced = <<>> /\ deaf = FALSE

-----------------------------------------------------------------------------
\* watcherd: external.
PeerSends ==
  /\ peerOpen /\ sock /\ sent < MaxMsgs
  /\ \E f \in {Message(sent + 1, n) : n \in Nodes} \union {Garbled} : wire' = Append(wire, f)
  /\ sent' = sent + 1
  /\ UNCHANGED <<up, peerOpen, stops, socketVars, deaf, aborted, appVars, cacheVars, readerVars>>

\* What was on its way is lost from some point on, perhaps within a frame.
PeerStops ==
  /\ up /\ stops < MaxStops
  /\ up' = FALSE /\ peerOpen' = FALSE
  /\ stops' = stops + 1
  /\ \E k \in 0 .. Len(wire), part \in {<<>>, <<Partial>>} :
       /\ k = Len(wire) => part = <<>>
       /\ wire' = SubSeq(wire, 1, k) \o part
  /\ UNCHANGED <<sent, socketVars, deaf, aborted, appVars, cacheVars, readerVars>>

PeerStarts ==
  /\ ~ up /\ up' = TRUE
  /\ UNCHANGED <<peerOpen, wire, sent, stops, socketVars, deaf, aborted, appVars, cacheVars, readerVars>>

-----------------------------------------------------------------------------
\* Closing the socket makes the read under way fail.
Close ==
  /\ sock' = FALSE /\ reading' = FALSE /\ deaf' = FALSE
  /\ wire' = <<>> /\ peerOpen' = FALSE

\* Mutant of removeMessageHandler: nothing is removed.
removeMessageHandler_none(h) == h

\* The range it looks in runs from the end: the first entry is removed, if any.
removeMessageHandler(h) == IF h = 0 THEN 0 ELSE h - 1

(* tryConnect(), up to connected=true, called by connect() and, when the    *)
(* connection is lost before a message is sent, by sendMessages().          *)
tryConnect ==
  /\ at \in {"connect", "send", "describe"}
  /\ ~ opening /\ ~ connected
  /\ LET waiting == errors > 0 \/ closing IN
     /\ waiting => hasty < MaxHasty
     /\ hasty' = IF waiting THEN hasty + 1 ELSE hasty
  /\ handlers' = IF at = "connect" THEN removeMessageHandler(handlers) + 1 ELSE handlers
  /\ errors' = IF reading THEN errors + 1 ELSE errors
  /\ reading' = FALSE /\ deaf' = FALSE /\ wire' = <<>>
  /\ sock' = up /\ peerOpen' = up /\ connected' = up /\ opening' = up
  /\ UNCHANGED <<up, sent, stops, closing, aborted, early, at, cacheVars, readerVars>>

\* The rest of tryConnect(): the io thread may have reset the flag, or closed
\* the socket, meanwhile.
run ==
  /\ opening /\ opening' = FALSE
  /\ reading' = (connected /\ sock)
  /\ errors' = IF connected /\ ~ sock THEN errors + 1 ELSE errors
  /\ UNCHANGED <<peerVars, sock, connected, closing, deaf, aborted, early, at, hasty, handlers, cacheVars, readerVars>>

Goto(place) == at' = place /\ UNCHANGED <<early, opening, hasty, handlers>>

Connected ==
  /\ at = "connect" /\ ~ opening /\ connected
  /\ Goto("send")
  /\ UNCHANGED <<peerVars, socketVars, deaf, aborted, cacheVars, readerVars>>

\* The messages a client sends at the start, whose writes may fail.
sendMessages ==
  /\ at \in {"send", "describe"} /\ ~ opening /\ connected
  /\ \E failed \in {sock /\ peerOpen, FALSE} :
       errors' = IF failed \/ errors = MaxErrors THEN errors ELSE errors + 1
  /\ Goto(IF at = "send" /\ ~ early THEN "reactor" ELSE "watch")
  /\ UNCHANGED <<peerVars, sock, connected, reading, closing, deaf, aborted, cacheVars, readerVars>>

\* The old reactor is deleted.  Its thread can only be interrupted where it
\* waits for a message; the new one calls back nobody before they register.
newReactor ==
  /\ at = "reactor" /\ (running => held = <<>> /\ ~ readReady)
  /\ running' = TRUE /\ registered' = FALSE /\ seenNodes' = {} /\ announced' = <<>>
  /\ Goto("register")
  /\ UNCHANGED <<peerVars, socketVars, deaf, aborted, cacheVars, held, heard>>

Register ==
  /\ at = "register" /\ registered' = TRUE
  /\ Goto("describe")
  /\ UNCHANGED <<peerVars, socketVars, deaf, aborted, cacheVars, running, held, seenNodes, heard, announced>>

\* Once a second the flag is looked at.
Watch ==
  /\ at = "watch" /\ ~ connected
  /\ Goto("connect")
  /\ UNCHANGED <<peerVars, socketVars, deaf, aborted, cacheVars, readerVars>>

App == tryConnect \/ run \/ Connected \/ sendMessages \/ newReactor \/ Register \/ Watch

-----------------------------------------------------------------------------
\* Mutant of handleMessageArrive: the readers are not told.
handleMessageArrive_untold(copies) ==
  /\ messageCache' = messageCache \o copies
  /\ UNCHANGED readReady

\* Every handler of the connection is given the message.
handleMessageArrive(copies) ==
  /\ messageCache' = messageCache \o copies
  /\ readReady' = (readReady \/ copies # <<>>)

\* With no handler, and when a frame makes no sense, nothing is read any more.
handle_read_header ==
  /\ reading /\ ~ closing /\ wire # <<>>
  /\ wire' = Tail(wire)
  /\ LET f == Head(wire) IN
     \/ /\ f.kind = "message"
        /\ handleMessageArrive([i \in 1 .. handlers |-> f])
        /\ reading' = (handlers # 0)
        /\ UNCHANGED <<aborted, deaf>>
     \/ /\ f.kind = "garbled"
        /\ reading' = FALSE /\ deaf' = TRUE
        /\ UNCHANGED <<cacheVars, aborted>>
     \/ /\ f.kind = "partial"
        /\ aborted' = TRUE
        /\ UNCHANGED <<cacheVars, reading, deaf>>
  /\ UNCHANGED <<up, peerOpen, sent, stops, sock, connected, errors, closing, appVars, readerVars>>

\* The first statement of doClose(), by a failed read or write, whose count is n.
DoClose(n) ==
  /\ Close
  /\ errors' = n
  /\ closing' = TRUE
  /\ UNCHANGED <<up, sent, stops, connected, aborted, appVars, cacheVars, readerVars>>

\* Mutant of EndOfStream: the end of the stream is not acted on.
EndOfStream_ignored ==
  /\ reading /\ ~ closing /\ wire = <<>> /\ ~ peerOpen
  /\ reading' = FALSE
  /\ UNCHANGED <<peerVars, sock, connected, errors, closing, deaf, aborted, appVars, cacheVars, readerVars>>

\* handle_read_header with an error: watcherd has closed its end.
EndOfStream ==
  /\ reading /\ ~ closing /\ wire = <<>> /\ ~ peerOpen
  /\ DoClose(errors)

\* handle_read_header or handle_write_message, with the error of an operation
\* that failed earlier, perhaps on an earlier socket.
Failure ==
  /\ errors > 0 /\ ~ closing
  /\ DoClose(IF reading THEN errors ELSE errors - 1)

\* The second statement of doClose().
Disconnected ==
  /\ closing /\ closing' = FALSE
  /\ connected' = FALSE
  /\ UNCHANGED <<peerVars, sock, reading, errors, deaf, aborted, appVars, cacheVars, readerVars>>

IO == handle_read_header \/ EndOfStream \/ Failure \/ Disconnected

-----------------------------------------------------------------------------
\* Mutant of getNextMessage: the flag is left set.
getNextMessage_staysReady ==
  /\ running /\ held = <<>> /\ readReady
  /\ held' = <<Head(messageCache)>>
  /\ messageCache' = Tail(messageCache)
  /\ UNCHANGED <<peerVars, socketVars, deaf, aborted, appVars, readReady, running, registered, seenNodes, heard, announced>>

getNextMessage ==
  /\ running /\ held = <<>> /\ readReady
  /\ held' = <<Head(messageCache)>>
  /\ messageCache' = Tail(messageCache)
  /\ readReady' = (messageCache' # <<>>)
  /\ UNCHANGED <<peerVars, socketVars, deaf, aborted, appVars, running, registered, seenNodes, heard, announced>>

\* Mutant of Dispatch: a node is noted after a message of any other.
Dispatch_forgetsNodes ==
  LET m == held[1] IN
  /\ held # <<>> /\ held' = <<>>
  /\ seenNodes' = {m.node}
  /\ heard' = IF registered THEN Append(heard, m) ELSE heard
  /\ announced' = IF registered /\ m.node \notin seenNodes THEN Append(announced, m.node) ELSE announced
  /\ UNCHANGED <<peerVars, socketVars, deaf, aborted, appVars, cacheVars, running, registered>>

\* The callbacks of a feeder message: of its kind, then of its node if that is new.
Dispatch ==
  LET m == held[1] IN
  /\ held # <<>> /\ held' = <<>>
  /\ seenNodes' = seenNodes \union {m.node}
  /\ heard' = IF registered THEN Append(heard, m) ELSE heard
  /\ announced' = IF registered /\ m.node \notin seenNodes THEN Append(announced, m.node) ELSE announced
  /\ UNCHANGED <<peerVars, socketVars, deaf, aborted, appVars, cacheVars, running, registered>>

\* The slider of the controls drops what has not been taken (clearMessageCache).
clearMessageCache ==
  /\ at = "watch" /\ messageCache # <<>>
  /\ messageCache' = <<>> /\ readReady' = FALSE
  /\ UNCHANGED <<peerVars, socketVars, deaf, aborted, appVars, readerVars>>

Reader == getNextMessage \/ Dispatch

Next == ~ aborted /\ (PeerSends \/ PeerStops \/ PeerStarts \/ App \/ IO \/ Reader \/ clearMessageCache)

Spec == Init /\ [][Next]_vars

\* No thread of the client stops, and watcherd is started again.
FairSpec ==
  /\ Spec
  /\ WF_vars(~ aborted /\ App)
  /\ WF_vars(~ aborted /\ IO)
  /\ WF_vars(~ aborted /\ Reader)
  /\ WF_vars(~ aborted /\ PeerStarts)

-----------------------------------------------------------------------------
Messages == {Message(n, node) : n \in 1 .. MaxMsgs, node \in Nodes}

(* The reader waits exactly when there is nothing to take: it neither takes *)
(* the front of an empty cache nor sleeps on a message.                     *)
ReadyMeansNotEmpty == readReady = (messageCache # <<>>)

(* A connection that says it is connected is being read, or about to be, or *)
(* about to be closed; unless it went deaf on a frame it could not parse.   *)
ConnectedIsRead ==
  connected => reading \/ opening \/ closing \/ errors > 0 \/ deaf

(* What the callbacks are given comes in the order it was sent, and once.   *)
HeardInOrder ==
  LET all == heard \o held \o messageCache IN
  \A i, j \in 1 .. Len(all) : i < j => all[i].n < all[j].n

(* A client whose callbacks are registered before it connects is told of    *)
(* each node it hears from, once.                                           *)
NodesAnnouncedOnce ==
  /\ \A i, j \in 1 .. Len(announced) : announced[i] = announced[j] => i = j
  /\ early => {announced[i] : i \in 1 .. Len(announced)} = {heard[i].node : i \in 1 .. Len(heard)}

(* While a frame neither makes no sense nor is cut, a client finds its way  *)
(* back to a socket that is open and read.                                  *)
ComesBack == []<>(aborted \/ deaf \/ (connected /\ sock /\ reading))

(* A message in the cache is taken out, in time.                            *)
CacheIsDrained == messageCache # <<>> ~> messageCache = <<>> \/ aborted
=============================================================================
