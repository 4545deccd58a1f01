------------------------- MODULE SharedStreamProofs -------------------------
(***************************************************************************)
(* For every number of connections and of messages: a connection is a      *)
(* client of its own stream only, a stream is marked as playing when its   *)
(* engine runs, and nothing is left behind of a stream nobody uses.        *)
(***************************************************************************)
EXTENDS SharedStream, TLAPS

\* What streams relay and tell.
Relayed == {StartMessage, StopMessage} \union [type : {"speed"}, speed : Speeds \union {1}]

\* TypeOK with speeds of the clients' choice, or the engine's own, only.
Typed ==
  /\ TypeOK
  /\ relay \in [Conns -> [msg : Relayed, to : SUBSET Conns]]
  /\ replay \in [Streams -> [state : {"none", "paused", "running"}, speed : Speeds \union {1}]]

\* GUI connections have a stream, and only they; a handler that is under way
\* is that of a GUI connection.
GuiHasStream ==
  \A c \in Conns :
    /\ connType[c] = "gui" => stream[c] \in Streams
    /\ connType[c] # "gui" => stream[c] = "none" /\ pc[c] \in {"read", "refused", "done"}

\* The stream to change to is that of a request to subscribe.
Switching == \A c \in Conns : pc[c] \in {"leave", "switch"} => request[c].type = "subscribe"

\* A connection that has come to its end is a client of no stream.
DoneLeft == \A s \in Streams : \A c \in clients[s] : pc[c] # "done"

\* A connection that is about to take another stream uses the old one no more.
Uses(c, s) == stream[c] = s /\ pc[c] \notin {"switch", "done"}
Left(s) == s \notin allStreams /\ replay[s].state # "running" /\ clients[s] = {}
UnusedIsLeft == \A s \in Streams : (\A c \in Conns : ~ Uses(c, s)) => Left(s)

IInv ==
  /\ Typed /\ GuiHasStream /\ Switching
  /\ PlayingAgrees
  /\ ClientOfOwnStream /\ DoneLeft
  /\ UnusedIsLeft

-----------------------------------------------------------------------------
(* What the operators that several actions share do.                       *)

\* A handler that is under way works for the stream of its connection.
LEMMA AtWork ==
  ASSUME IInv, NEW c \in Conns, pc[c] \notin {"read", "refused", "done"}
  PROVE  connType[c] = "gui" /\ stream[c] \in Streams
  BY DEF IInv, GuiHasStream

\* The speeds an engine may have are integers.
LEMMA SpeedsAreIntegers == Speeds \union {1} \subseteq Int
  BY SharedStreamAssumption DEF SharedStreamAssumption

\* What requests hold.
LEMMA RequestsHold ==
  ASSUME NEW m \in AllRequests
  PROVE  /\ m.type \in {"start", "stop", "speed", "subscribe", "feederEvent"}
         /\ m.type = "speed" => m \in Relayed
         /\ m.type = "subscribe" => m.uid \in Streams
  BY DEF AllRequests, Relayed

\* A relay passes on requests, and the greeting the speed 1.
LEMMA RelayedAreRequests == Relayed \subseteq AllRequests \union {SpeedMessage(1)}
  BY DEF Relayed, AllRequests, StartMessage, StopMessage, SpeedMessage

\* Goto leads the handler to a place; until it returns it has its request.
LEMMA GotoMoves ==
  ASSUME IInv, NEW c \in Conns, NEW p, Goto(c, p),
         p = "leave" => request[c].type = "subscribe",
         p = "switch" => pc[c] = "leave"
  PROVE  /\ pc' = [pc EXCEPT ![c] = p]
         /\ request' \in [Conns -> AllRequests]
         /\ Switching'
<1>1. /\ pc' = [pc EXCEPT ![c] = p]
      /\ request' \in [Conns -> AllRequests]
  BY DEF IInv, Typed, TypeOK, Goto, AllRequests, StopMessage
<1>2. /\ p \in {"leave", "switch"} => request' = request
      /\ \A d \in Conns \ {c} : request'[d] = request[d]
  BY DEF IInv, Typed, TypeOK, Goto
<1>3. Switching'
  BY <1>1, <1>2 DEF IInv, Typed, TypeOK, Switching
<1> QED BY <1>1, <1>3

\* A message that is sent changes nothing but what its receiver was told.
LEMMA SendTyped ==
  ASSUME Typed, NEW c \in Conns, NEW m \in Relayed, sendMessage(c, m)
  PROVE  /\ told' \in [Conns -> [playing : {"untold", "yes", "no"}, speed : Int]]
         /\ failed' \in [Conns -> BOOLEAN]
<1>1. m.type \in {"start", "stop", "speed"}
  BY DEF Relayed, StartMessage, StopMessage
<1>2. m.type = "speed" => m.speed \in Int
  <2>1. m \in [type : {"speed"}, speed : Speeds \union {1}] => m.speed \in Speeds \union {1}
    OBVIOUS
  <2> QED BY <2>1, SpeedsAreIntegers DEF Relayed, StartMessage, StopMessage
<1>3. told[c] \in [playing : {"untold", "yes", "no"}, speed : Int]
  BY DEF Typed, TypeOK
<1> DEFINE now == CASE m.type = "start" -> [told[c] EXCEPT !.playing = "yes"]
                    [] m.type = "stop"  -> [told[c] EXCEPT !.playing = "no"]
                    [] m.type = "speed" -> [told[c] EXCEPT !.speed = m.speed]
<1>4. now \in [playing : {"untold", "yes", "no"}, speed : Int]
  <2>1. CASE m.type = "start"
    BY <1>3, <2>1
  <2>2. CASE m.type = "stop"
    BY <1>3, <2>2
  <2>3. CASE m.type = "speed"
    BY <1>2, <1>3, <2>3
  <2> QED BY <1>1, <2>1, <2>2, <2>3
<1>5. told' = [told EXCEPT ![c] = now]
  BY DEF sendMessage
<1>6. failed' \in [Conns -> BOOLEAN]
  BY DEF sendMessage, Typed, TypeOK
<1> HIDE DEF now
<1> QED BY <1>4, <1>5, <1>6 DEF Typed, TypeOK

\* unsubscribe takes one connection from one list.  It brings no stream back,
\* and a stream that has lost its last client is left.
LEMMA UnsubscribeLeaves ==
  ASSUME IInv, NEW s \in Streams, NEW c \in Conns, unsubscribe(s, c)
  PROVE  /\ clients' = [clients EXCEPT ![s] = @ \ {c}]
         /\ clients' \in [Streams -> SUBSET Conns]
         /\ allStreams' \subseteq Streams
         /\ isPlaying' \in [Streams -> BOOLEAN]
         /\ replay' \in [Streams -> [state : {"none", "paused", "running"},
                                     speed : Speeds \union {1}]]
         /\ PlayingAgrees'
         /\ \A n \in Streams : Left(n) => Left(n)'
         /\ clients[s] \ {c} = {} => Left(s)'
<1> DEFINE rest == clients[s] \ {c}
<1>1. /\ clients \in [Streams -> SUBSET Conns]
      /\ allStreams \subseteq Streams
      /\ isPlaying \in [Streams -> BOOLEAN]
      /\ replay \in [Streams -> [state : {"none", "paused", "running"}, speed : Speeds \union {1}]]
      /\ PlayingAgrees
  BY DEF IInv, Typed, TypeOK
<1>2. CASE rest = {}
  <2>1. /\ clients' = [clients EXCEPT ![s] = {}]
        /\ allStreams' = allStreams \ {s}
        /\ isPlaying' = [isPlaying EXCEPT ![s] = FALSE]
        /\ replay' = [replay EXCEPT ![s].state = "paused"]
    BY <1>2 DEF unsubscribe
  <2>2. PlayingAgrees'
    BY <1>1, <2>1 DEF PlayingAgrees
  <2> QED BY <1>1, <1>2, <2>1, <2>2 DEF Left
<1>3. CASE rest # {}
  <2>1. /\ clients' = [clients EXCEPT ![s] = rest]
        /\ UNCHANGED <<allStreams, isPlaying, replay>>
    BY <1>3 DEF unsubscribe
  <2> QED BY <1>1, <1>3, <2>1 DEF PlayingAgrees, Left
<1> QED BY <1>2, <1>3

\* A step of a handler that stays with its stream leaves the others alone.
LEMMA StaysInUse ==
  ASSUME IInv, NEW c \in Conns, NEW p, p \notin {"switch", "done"},
         pc' = [pc EXCEPT ![c] = p],
         stream' = stream,
         \A s \in Streams \ {stream[c]} : Left(s) => Left(s)'
  PROVE  UnusedIsLeft'
<1> SUFFICES ASSUME NEW s \in Streams, \A d \in Conns : ~ Uses(d, s)'
             PROVE  Left(s)'
  BY DEF UnusedIsLeft
<1>1. pc'[c] = p /\ \A d \in Conns \ {c} : pc'[d] = pc[d]
  BY DEF IInv, Typed, TypeOK
<1>2. s # stream[c]
  BY <1>1 DEF Uses
<1>3. \A d \in Conns : ~ Uses(d, s)
  BY <1>1, <1>2 DEF Uses
<1> QED BY <1>2, <1>3 DEF IInv, UnusedIsLeft

\* A connection that unsubscribes on its way out leaves nothing behind: the
\* clients that remain use the stream.
LEMMA LeavesNothing ==
  ASSUME IInv, NEW c \in Conns, NEW p, p \in {"switch", "done"}, stream[c] \in Streams,
         unsubscribe(stream[c], c),
         pc' = [pc EXCEPT ![c] = p],
         stream' = stream
  PROVE  UnusedIsLeft' /\ ClientOfOwnStream' /\ DoneLeft'
<1>1. pc'[c] = p /\ \A d \in Conns \ {c} : pc'[d] = pc[d]
  BY DEF IInv, Typed, TypeOK
<1>2. clients \in [Streams -> SUBSET Conns] /\ clients' = [clients EXCEPT ![stream[c]] = @ \ {c}]
  BY UnsubscribeLeaves DEF IInv, Typed, TypeOK
<1>3. \A s \in Streams : c \notin clients'[s] /\ clients'[s] \subseteq clients[s]
  BY <1>2 DEF IInv, ClientOfOwnStream
<1>4. ClientOfOwnStream' /\ DoneLeft'
  BY <1>1, <1>2, <1>3 DEF IInv, ClientOfOwnStream, DoneLeft
<1>5. ASSUME NEW s \in Streams, \A d \in Conns : ~ Uses(d, s)'
      PROVE  Left(s)'
  <2>1. CASE s # stream[c]
    <3>1. \A d \in Conns : ~ Uses(d, s)
      BY <1>1, <1>5, <2>1 DEF Uses
    <3> QED BY <3>1, UnsubscribeLeaves DEF IInv, UnusedIsLeft
  <2>2. CASE s = stream[c]
    <3>1. \A d \in clients[s] \ {c} : Uses(d, s)'
      BY <1>1, <1>2 DEF IInv, ClientOfOwnStream, DoneLeft, Uses
    <3>2. clients[s] \ {c} = {}
      BY <1>2, <1>5, <3>1
    <3> QED BY <2>2, <3>2, UnsubscribeLeaves
  <2> QED BY <2>1, <2>2
<1> QED BY <1>4, <1>5 DEF UnusedIsLeft

\* A handler that goes on, with the clients as they are.
LEMMA GoesOn ==
  ASSUME IInv, Typed', Switching', NEW c \in Conns, NEW p,
         p \notin {"subscribe", "switch", "join", "done"},
         connType[c] = "gui" \/ p = pc[c] \/ p = "refused",
         pc' = [pc EXCEPT ![c] = p],
         UNCHANGED <<connType, stream, clients>>,
         allStreams' \ {stream[c]} = allStreams \ {stream[c]},
         \A s \in Streams \ {stream[c]} : replay'[s].state = replay[s].state,
         PlayingAgrees'
  PROVE  IInv'
<1>1. pc'[c] = p /\ \A d \in Conns \ {c} : pc'[d] = pc[d]
  BY DEF IInv, Typed, TypeOK
<1>2. GuiHasStream'
  BY <1>1 DEF IInv, GuiHasStream
<1>3. clients \in [Streams -> SUBSET Conns]
  BY DEF IInv, Typed, TypeOK
<1>4. ClientOfOwnStream' /\ DoneLeft'
  BY <1>1, <1>3 DEF IInv, ClientOfOwnStream, DoneLeft
<1>5. \A s \in Streams \ {stream[c]} : Left(s) => Left(s)'
  BY DEF Left
<1>6. UnusedIsLeft'
  BY <1>5, StaysInUse
<1> QED BY <1>2, <1>4, <1>6 DEF IInv

-----------------------------------------------------------------------------
(* The initial states, and one lemma for each action.                      *)

\* Initially there are no streams, and no clients.
LEMMA Initially == Init => IInv
<1> SUFFICES ASSUME Init PROVE IInv
  OBVIOUS
<1>1. Typed
  BY SharedStreamAssumption DEF SharedStreamAssumption, Init, Typed, TypeOK, AllRequests, Relayed,
     NoRelay, StopMessage
<1>2. GuiHasStream /\ Switching /\ PlayingAgrees /\ ClientOfOwnStream /\ DoneLeft
  BY DEF Init, GuiHasStream, Switching, PlayingAgrees, ClientOfOwnStream, DoneLeft
<1>3. UnusedIsLeft
  BY DEF Init, UnusedIsLeft, Left
<1> QED BY <1>1, <1>2, <1>3 DEF IInv

\* A new stream is that of the connection that creates it, which is in no list.
LEMMA ReadPayload ==
  ASSUME IInv, NEW c \in Conns, NEW m \in Requests, handle_read_payload(c, m)
  PROVE  IInv'
<1>1. m \in AllRequests /\ pc[c] = "read" /\ msgs' \in 0 .. MaxMsgs
  <2>1. msgs \in 0 .. MaxMsgs /\ msgs < MaxMsgs /\ msgs' = msgs + 1 /\ pc[c] = "read"
    BY DEF handle_read_payload, IInv, Typed, TypeOK
  <2>2. m \in AllRequests
    BY DEF Requests
  <2> QED BY <2>1, <2>2, SharedStreamAssumption DEF SharedStreamAssumption
<1>2. /\ UNCHANGED <<relay, peerOpen, failed, told, clients, allStreams, isPlaying, replay>>
      /\ PlayingAgrees'
  BY DEF handle_read_payload, streamVars, IInv, PlayingAgrees
<1>3. CASE Goto(c, "refused") /\ UNCHANGED <<connType, stream>>
  <2>1. pc' = [pc EXCEPT ![c] = "refused"] /\ request' \in [Conns -> AllRequests] /\ Switching'
    BY <1>3, GotoMoves DEF IInv, Typed
  <2>2. Typed'
    BY <1>1, <1>2, <1>3, <2>1 DEF IInv, Typed, TypeOK
  <2> QED BY <1>2, <1>3, <2>1, <2>2, GoesOn
<1>4. CASE /\ connType[c] # "gui"
           /\ connType' = [connType EXCEPT ![c] = "feeder"]
           /\ UNCHANGED <<pc, request, stream>>
  <2>1. Typed'
    BY <1>1, <1>2, <1>4 DEF IInv, Typed, TypeOK
  <2>2. GuiHasStream'
    BY <1>4 DEF IInv, Typed, TypeOK, GuiHasStream
  <2>3. Switching' /\ ClientOfOwnStream' /\ DoneLeft' /\ UnusedIsLeft'
    BY <1>2, <1>4 DEF IInv, Switching, ClientOfOwnStream, DoneLeft, UnusedIsLeft, Uses, Left
  <2> QED BY <1>2, <2>1, <2>2, <2>3 DEF IInv
<1>5. CASE /\ connType[c] = "unknown"
           /\ connType' = [connType EXCEPT ![c] = "gui"]
           /\ stream' = [stream EXCEPT ![c] = c]
           /\ Dispatch(c, m, "subscribe")
  <2>1. pc' = [pc EXCEPT ![c] = "subscribe"] /\ request' = [request EXCEPT ![c] = m]
    BY <1>5 DEF Dispatch
  <2>2. Typed'
    BY <1>1, <1>2, <1>5, <2>1 DEF IInv, Typed, TypeOK, Streams
  <2>3. GuiHasStream' /\ Switching'
    BY <1>5, <2>1 DEF IInv, Typed, TypeOK, GuiHasStream, Switching, Streams
  <2>4. stream[c] = "none" /\ "none" \notin Streams
    BY <1>5, SharedStreamAssumption DEF IInv, GuiHasStream, Streams, SharedStreamAssumption
  <2>5. \A s \in Streams : c \notin clients[s]
    BY <2>4 DEF IInv, ClientOfOwnStream
  <2>6. ClientOfOwnStream' /\ DoneLeft'
    BY <1>2, <1>5, <2>1, <2>5 DEF IInv, Typed, TypeOK, ClientOfOwnStream, DoneLeft
  <2>7. ASSUME NEW s \in Streams, \A d \in Conns : ~ Uses(d, s)'
        PROVE  Left(s)'
    <3>1. \A d \in Conns : ~ Uses(d, s)
      BY <1>5, <2>1, <2>4, <2>7 DEF IInv, Typed, TypeOK, Uses
    <3> QED BY <1>2, <3>1 DEF IInv, UnusedIsLeft, Left
  <2> QED BY <1>2, <2>2, <2>3, <2>6, <2>7 DEF IInv, UnusedIsLeft
<1>6. CASE connType[c] = "gui" /\ Dispatch(c, m, "dispatch") /\ UNCHANGED <<connType, stream>>
  <2>1. pc' = [pc EXCEPT ![c] = "dispatch"] /\ request' = [request EXCEPT ![c] = m]
    BY <1>6 DEF Dispatch
  <2>2. Typed'
    BY <1>1, <1>2, <1>6, <2>1 DEF IInv, Typed, TypeOK
  <2>3. Switching'
    BY <2>1 DEF IInv, Typed, TypeOK, Switching
  <2> QED BY <1>2, <1>6, <2>1, <2>2, <2>3, GoesOn
<1> QED BY <1>3, <1>4, <1>5, <1>6 DEF handle_read_payload

\* subscribe puts a connection into the list of its stream, whose engine is paused or goes on.
LEMMA Subscribe ==
  ASSUME IInv, NEW c \in Conns, subscribe(c)
  PROVE  IInv'
<1> DEFINE s0 == stream[c]
           p  == IF pc[c] = "join" THEN "greetJoined" ELSE "greetNew"
<1>1. connType[c] = "gui" /\ s0 \in Streams /\ pc[c] \in {"subscribe", "join"}
  BY AtWork DEF subscribe
<1>2. /\ clients' = [clients EXCEPT ![s0] = @ \union {c}]
      /\ replay' = [replay EXCEPT ![s0].state = IF @ = "none" THEN "paused" ELSE @]
      /\ told' = [told EXCEPT ![c].playing = "untold"]
      /\ UNCHANGED <<connType, stream, relay, msgs, peerOpen, failed, allStreams, isPlaying>>
  BY DEF subscribe
<1>3. pc' = [pc EXCEPT ![c] = p] /\ request' \in [Conns -> AllRequests] /\ Switching'
  BY GotoMoves DEF subscribe, IInv, Typed
<1>4. Typed'
  BY <1>1, <1>2, <1>3 DEF IInv, Typed, TypeOK
<1>5. GuiHasStream'
  BY <1>1, <1>2, <1>3 DEF IInv, Typed, TypeOK, GuiHasStream
<1>6. PlayingAgrees'
  BY <1>1, <1>2 DEF IInv, Typed, TypeOK, PlayingAgrees
<1>7. ClientOfOwnStream' /\ DoneLeft'
  BY <1>1, <1>2, <1>3 DEF IInv, Typed, TypeOK, ClientOfOwnStream, DoneLeft
<1>8. \A s \in Streams \ {s0} : Left(s) => Left(s)'
  BY <1>1, <1>2 DEF IInv, Typed, TypeOK, Left
<1>9. UnusedIsLeft'
  <2>1. p \notin {"switch", "done"} /\ stream' = stream
    BY <1>2
  <2> HIDE DEF p
  <2> QED BY <1>3, <1>8, <2>1, StaysInUse
<1> QED BY <1>3, <1>4, <1>5, <1>6, <1>7, <1>9 DEF IInv

\* The greeting: the speed is read, and later told.
LEMMA Greet ==
  ASSUME IInv, NEW c \in Conns, readSpeed(c) \/ tellSpeed(c)
  PROVE  IInv'
<1>1. CASE readSpeed(c)
  <2>1. PICK p \in {"tellNew", "tellJoined"} : Goto(c, p)
    BY <1>1 DEF readSpeed
  <2>2. pc' = [pc EXCEPT ![c] = p] /\ request' \in [Conns -> AllRequests] /\ Switching'
    BY <2>1, GotoMoves DEF IInv, Typed
  <2>3. connType[c] = "gui" /\ stream[c] \in Streams
    BY <1>1, AtWork DEF readSpeed
  <2>4. SpeedMessage(replay[stream[c]].speed) \in Relayed
    BY <2>3 DEF IInv, Typed, Relayed, SpeedMessage
  <2>5. /\ relay' = [relay EXCEPT ![c] = [msg |-> SpeedMessage(replay[stream[c]].speed), to |-> {c}]]
        /\ UNCHANGED <<connType, stream, msgs, peerOpen, failed, told,
                       clients, allStreams, isPlaying, replay>>
    BY <1>1 DEF readSpeed, streamVars
  <2>6. SpeedMessage(replay[stream[c]].speed) \in AllRequests \union {SpeedMessage(1)}
    BY <2>3 DEF IInv, Typed, AllRequests, SpeedMessage
  <2>7. Typed'
    BY <2>2, <2>4, <2>5, <2>6 DEF IInv, Typed, TypeOK
  <2> QED BY <2>2, <2>3, <2>5, <2>7, GoesOn DEF IInv, PlayingAgrees
<1>2. CASE tellSpeed(c)
  <2>1. PICK p \in {"addStream", "read"} : Goto(c, p)
    BY <1>2 DEF tellSpeed
  <2>2. pc' = [pc EXCEPT ![c] = p] /\ request' \in [Conns -> AllRequests] /\ Switching'
    BY <2>1, GotoMoves DEF IInv, Typed
  <2>3. connType[c] = "gui"
    BY <1>2, AtWork DEF tellSpeed
  <2>4. relay[c].msg \in Relayed /\ sendMessage(c, relay[c].msg)
    BY <1>2 DEF tellSpeed, IInv, Typed
  <2>5. /\ relay' = [relay EXCEPT ![c] = NoRelay]
        /\ UNCHANGED <<connType, stream, msgs, peerOpen, clients, allStreams, isPlaying, replay>>
    BY <1>2 DEF tellSpeed, streamVars
  <2>6. /\ told' \in [Conns -> [playing : {"untold", "yes", "no"}, speed : Int]]
        /\ failed' \in [Conns -> BOOLEAN]
    BY <2>4, SendTyped DEF IInv
  <2>7. NoRelay \in [msg : Relayed, to : SUBSET Conns]
        /\ NoRelay.msg \in AllRequests /\ NoRelay.to = {}
    BY DEF NoRelay, Relayed, AllRequests, StopMessage
  <2>8. Typed'
    BY <2>2, <2>5, <2>6, <2>7 DEF IInv, Typed, TypeOK, NoRelay
  <2> QED BY <2>2, <2>3, <2>5, <2>8, GoesOn DEF IInv, PlayingAgrees
<1> QED BY <1>1, <1>2

\* The stream that is listed is used by the connection that lists it.
LEMMA AddStream ==
  ASSUME IInv, NEW c \in Conns, addStream(c)
  PROVE  IInv'
<1>1. pc' = [pc EXCEPT ![c] = "dispatch"] /\ request' \in [Conns -> AllRequests] /\ Switching'
  BY GotoMoves DEF addStream, IInv, Typed
<1>2. connType[c] = "gui" /\ stream[c] \in Streams
  BY AtWork DEF addStream
<1>3. /\ allStreams' = allStreams \union {stream[c]}
      /\ UNCHANGED <<connType, stream, relay, msgs, peerOpen, failed, told,
                     clients, isPlaying, replay>>
  BY DEF addStream
<1>4. Typed'
  BY <1>1, <1>2, <1>3 DEF IInv, Typed, TypeOK
<1> QED BY <1>1, <1>2, <1>3, <1>4, GoesOn DEF IInv, PlayingAgrees

\* To be set playing, or not to be, keeps the stream and its engine in step.
LEMMA SetsPlaying ==
  ASSUME IInv, NEW s \in Streams, NEW on \in BOOLEAN, SetPlaying(s, on)
  PROVE  /\ isPlaying' \in [Streams -> BOOLEAN]
         /\ replay' \in [Streams -> [state : {"none", "paused", "running"}, speed : Speeds \union {1}]]
         /\ \A n \in Streams \ {s} : replay'[n].state = replay[n].state
         /\ PlayingAgrees'
<1> DEFINE st == IF isPlaying[s] = on THEN replay[s].state ELSE IF on THEN "running" ELSE "paused"
<1>1. /\ isPlaying \in [Streams -> BOOLEAN]
      /\ replay \in [Streams -> [state : {"none", "paused", "running"}, speed : Speeds \union {1}]]
      /\ \A n \in Streams : isPlaying[n] <=> replay[n].state = "running"
  BY DEF IInv, Typed, TypeOK, PlayingAgrees
<1>2. st \in {"none", "paused", "running"} /\ (on <=> st = "running")
  <2>1. isPlaying[s] \in BOOLEAN /\ replay[s].state \in {"none", "paused", "running"}
        /\ (isPlaying[s] <=> replay[s].state = "running")
    BY <1>1
  <2>2. CASE isPlaying[s] = on
    BY <2>1, <2>2
  <2>3. CASE isPlaying[s] # on
    BY <2>1, <2>3
  <2> QED BY <2>2, <2>3
<1>3. isPlaying' = [isPlaying EXCEPT ![s] = on] /\ replay' = [replay EXCEPT ![s].state = st]
  BY DEF SetPlaying
<1> HIDE DEF st
<1>4. /\ isPlaying'[s] = on /\ \A n \in Streams \ {s} : isPlaying'[n] = isPlaying[n]
      /\ replay'[s].state = st /\ \A n \in Streams \ {s} : replay'[n] = replay[n]
  BY <1>1, <1>3
<1>5. PlayingAgrees'
  BY <1>1, <1>2, <1>4 DEF PlayingAgrees
<1> QED BY <1>1, <1>2, <1>3, <1>4, <1>5

\* start, stop and speed change the stream's own engine, and then relay.
LEMMA ChangesStream ==
  ASSUME IInv, NEW c \in Conns, start(c) \/ stop(c) \/ speed(c)
  PROVE  IInv'
<1>1. connType[c] = "gui" /\ stream[c] \in Streams
  BY AtWork DEF start, stop, speed
<1>2. PICK m \in Relayed : ThenRelay(c, m)
  <2>1. request[c] \in AllRequests
    BY DEF IInv, Typed, TypeOK
  <2> QED BY <2>1, RequestsHold DEF start, stop, speed, Relayed
<1>3. pc' = [pc EXCEPT ![c] = "relay"] /\ request' \in [Conns -> AllRequests] /\ Switching'
  BY <1>2, GotoMoves DEF ThenRelay, IInv, Typed
<1>4. /\ relay' = [relay EXCEPT ![c] = [msg |-> m, to |-> {}]]
      /\ UNCHANGED <<connType, stream, msgs, peerOpen, failed, told, clients, allStreams>>
  BY <1>2 DEF ThenRelay
<1>5. m \in AllRequests \union {SpeedMessage(1)}
  BY RelayedAreRequests
<1>6. relay' \in [Conns -> [msg : Relayed, to : SUBSET Conns]]
      /\ relay' \in [Conns -> [msg : AllRequests \union {SpeedMessage(1)}, to : SUBSET Conns]]
  BY <1>4, <1>5 DEF IInv, Typed, TypeOK
<1>7. /\ isPlaying' \in [Streams -> BOOLEAN]
      /\ replay' \in [Streams -> [state : {"none", "paused", "running"}, speed : Speeds \union {1}]]
      /\ \A s \in Streams \ {stream[c]} : replay'[s].state = replay[s].state
      /\ PlayingAgrees'
  <2>1. CASE start(c)
    BY <1>1, <2>1, SetsPlaying DEF start
  <2>2. CASE stop(c)
    BY <1>1, <2>2, SetsPlaying DEF stop
  <2>3. CASE speed(c)
    <3>1. request[c] \in AllRequests /\ request[c].type = "speed"
      BY <2>3 DEF speed, IInv, Typed, TypeOK
    <3>2. request[c].speed \in Speeds
      BY <3>1 DEF AllRequests
    <3> QED BY <1>1, <2>3, <3>2 DEF speed, IInv, Typed, TypeOK, PlayingAgrees
  <2> QED BY <2>1, <2>2, <2>3
<1>8. replay' \in [Streams -> [state : {"none", "paused", "running"}, speed : Int]]
  BY <1>7, SpeedsAreIntegers
<1>9. Typed'
  BY <1>3, <1>4, <1>6, <1>7, <1>8 DEF IInv, Typed, TypeOK
<1> QED BY <1>1, <1>3, <1>4, <1>7, <1>9, GoesOn

\* The look-up changes nothing but where the handler goes on.
LEMMA GetStream ==
  ASSUME IInv, NEW c \in Conns, getStream(c)
  PROVE  IInv'
<1>1. PICK p \in {"leave", "read"} : Goto(c, p) /\ request[c].type = "subscribe"
  BY DEF getStream
<1>2. pc' = [pc EXCEPT ![c] = p] /\ request' \in [Conns -> AllRequests] /\ Switching'
  BY <1>1, GotoMoves DEF IInv, Typed
<1>3. connType[c] = "gui"
  BY AtWork DEF getStream
<1>4. UNCHANGED <<connType, stream, relay, msgs, peerOpen, failed, told,
                  clients, allStreams, isPlaying, replay>>
  BY DEF getStream, streamVars
<1>5. Typed'
  BY <1>2, <1>4 DEF IInv, Typed, TypeOK
<1> QED BY <1>2, <1>3, <1>4, <1>5, GoesOn DEF IInv, PlayingAgrees

\* The old stream is left, and with its last client stopped and unlisted.
LEMMA LeaveStream ==
  ASSUME IInv, NEW c \in Conns, leaveStream(c)
  PROVE  IInv'
<1>1. pc' = [pc EXCEPT ![c] = "switch"] /\ request' \in [Conns -> AllRequests] /\ Switching'
  BY GotoMoves DEF leaveStream, IInv, Typed
<1>2. /\ connType[c] = "gui"
      /\ stream[c] \in Streams
      /\ unsubscribe(stream[c], c)
      /\ UNCHANGED <<connType, stream, relay, msgs, peerOpen, failed, told>>
  BY AtWork DEF leaveStream
<1>3. Typed' /\ PlayingAgrees'
  <2>1. replay' \in [Streams -> [state : {"none", "paused", "running"}, speed : Speeds \union {1}]]
    BY <1>2, UnsubscribeLeaves
  <2>2. replay' \in [Streams -> [state : {"none", "paused", "running"}, speed : Int]]
    BY <2>1, SpeedsAreIntegers
  <2> QED BY <1>1, <1>2, <2>1, <2>2, UnsubscribeLeaves DEF IInv, Typed, TypeOK
<1>4. GuiHasStream'
  BY <1>1, <1>2 DEF IInv, Typed, TypeOK, GuiHasStream
<1> QED BY <1>1, <1>2, <1>3, <1>4, LeavesNothing DEF IInv

\* A connection changes streams when it is in no list.
LEMMA SwitchStream ==
  ASSUME IInv, NEW c \in Conns, switchStream(c)
  PROVE  IInv'
<1>1. pc' = [pc EXCEPT ![c] = "join"] /\ request' \in [Conns -> AllRequests] /\ Switching'
  BY GotoMoves DEF switchStream, IInv, Typed
<1>2. /\ pc[c] = "switch"
      /\ stream' = [stream EXCEPT ![c] = request[c].uid]
      /\ UNCHANGED <<connType, relay, msgs, peerOpen, failed, told,
                     clients, allStreams, isPlaying, replay>>
  BY DEF switchStream, streamVars
<1>3. request[c].uid \in Streams
  <2>1. request[c] \in AllRequests /\ request[c].type = "subscribe"
    BY <1>2 DEF IInv, Typed, TypeOK, Switching
  <2> QED BY <2>1, RequestsHold
<1>4. Typed'
  BY <1>1, <1>2, <1>3 DEF IInv, Typed, TypeOK
<1>5. GuiHasStream' /\ PlayingAgrees'
  BY <1>1, <1>2, <1>3, AtWork DEF IInv, Typed, TypeOK, GuiHasStream, PlayingAgrees
<1>6. \A s \in Streams : c \notin clients[s]
  BY <1>2 DEF IInv, ClientOfOwnStream
<1>7. ClientOfOwnStream' /\ DoneLeft'
  BY <1>1, <1>2, <1>6 DEF IInv, Typed, TypeOK, ClientOfOwnStream, DoneLeft
<1>8. ASSUME NEW s \in Streams, \A d \in Conns : ~ Uses(d, s)'
      PROVE  Left(s)'
  <2>1. \A d \in Conns : ~ Uses(d, s)
    BY <1>1, <1>2, <1>8 DEF IInv, Typed, TypeOK, Uses
  <2> QED BY <1>2, <2>1 DEF IInv, UnusedIsLeft, Left
<1> QED BY <1>1, <1>4, <1>5, <1>7, <1>8 DEF IInv, UnusedIsLeft

\* The relay changes only what clients are told.
LEMMA Relay ==
  ASSUME IInv, NEW c \in Conns, relayBegins(c) \/ relayNext(c)
  PROVE  IInv'
<1>1. connType[c] = "gui" /\ stream[c] \in Streams
  BY AtWork DEF relayBegins, relayNext
<1>2. UNCHANGED <<connType, stream, msgs, peerOpen, clients, allStreams, isPlaying, replay>>
  BY DEF relayBegins, relayNext, streamVars
<1>3. CASE relayBegins(c)
  <2>1. pc' = [pc EXCEPT ![c] = "relaying"] /\ request' \in [Conns -> AllRequests] /\ Switching'
    BY <1>3, GotoMoves DEF relayBegins
  <2>2. relay' = [relay EXCEPT ![c].to = clients[stream[c]]] /\ UNCHANGED <<failed, told>>
    BY <1>3 DEF relayBegins
  <2>3. clients[stream[c]] \subseteq Conns
    BY <1>1 DEF IInv, Typed, TypeOK
  <2>4. relay' \in [Conns -> [msg : Relayed, to : SUBSET Conns]]
    BY <2>2, <2>3 DEF IInv, Typed
  <2>5. relay' \in [Conns -> [msg : AllRequests \union {SpeedMessage(1)}, to : SUBSET Conns]]
    BY <2>4, RelayedAreRequests
  <2>6. Typed'
    BY <1>2, <2>1, <2>2, <2>4, <2>5 DEF IInv, Typed, TypeOK
  <2> QED BY <1>1, <1>2, <2>1, <2>6, GoesOn DEF IInv, PlayingAgrees
<1>4. ASSUME NEW d \in relay[c].to, sendMessage(d, relay[c].msg),
             relay' = [relay EXCEPT ![c].to = @ \ {d}],
             UNCHANGED <<pc, request>>
      PROVE  IInv'
  <2>1. relay[c] \in [msg : Relayed, to : SUBSET Conns]
    BY DEF IInv, Typed
  <2>2. /\ told' \in [Conns -> [playing : {"untold", "yes", "no"}, speed : Int]]
        /\ failed' \in [Conns -> BOOLEAN]
    BY <1>4, <2>1, SendTyped DEF IInv
  <2>3. Typed' /\ Switching'
    BY <1>2, <1>4, <2>1, <2>2 DEF IInv, Typed, TypeOK, Switching
  <2> QED BY <1>2, <1>4, <2>3
          DEF IInv, GuiHasStream, PlayingAgrees, ClientOfOwnStream, DoneLeft, UnusedIsLeft, Uses, Left
<1>5. CASE /\ relay' = [relay EXCEPT ![c] = NoRelay]
           /\ Goto(c, "read")
           /\ UNCHANGED <<told, failed>>
  <2>1. pc' = [pc EXCEPT ![c] = "read"] /\ request' \in [Conns -> AllRequests] /\ Switching'
    BY <1>5, GotoMoves
  <2>2. NoRelay \in [msg : Relayed, to : SUBSET Conns]
        /\ NoRelay.msg \in AllRequests /\ NoRelay.to = {}
    BY DEF NoRelay, Relayed, AllRequests, StopMessage
  <2>3. Typed'
    BY <1>2, <1>5, <2>1, <2>2 DEF IInv, Typed, TypeOK, NoRelay
  <2> QED BY <1>1, <1>2, <2>1, <2>3, GoesOn DEF IInv, PlayingAgrees
<1> QED BY <1>3, <1>4, <1>5 DEF relayNext

\* The end of a connection, seen by a read: it leaves its stream, if it has one.
LEMMA ReadError ==
  ASSUME IInv, NEW c \in Conns, read_error(c)
  PROVE  IInv'
<1>1. pc' = [pc EXCEPT ![c] = "done"] /\ request' \in [Conns -> AllRequests] /\ Switching'
  BY GotoMoves DEF read_error
<1>2. UNCHANGED <<connType, stream, relay, msgs, peerOpen, failed, told>>
  BY DEF read_error
<1>3. GuiHasStream'
  BY <1>1, <1>2 DEF IInv, Typed, TypeOK, GuiHasStream
<1>4. CASE connType[c] = "gui"
  <2>1. stream[c] \in Streams /\ unsubscribe(stream[c], c)
    BY <1>4 DEF read_error, IInv, GuiHasStream
  <2>2. replay' \in [Streams -> [state : {"none", "paused", "running"}, speed : Speeds \union {1}]]
    BY <2>1, UnsubscribeLeaves
  <2>3. replay' \in [Streams -> [state : {"none", "paused", "running"}, speed : Int]]
    BY <2>2, SpeedsAreIntegers
  <2>4. Typed' /\ PlayingAgrees'
    BY <1>1, <1>2, <2>1, <2>2, <2>3, UnsubscribeLeaves DEF IInv, Typed, TypeOK
  <2> QED BY <1>1, <1>2, <1>3, <2>1, <2>4, LeavesNothing DEF IInv
<1>5. CASE connType[c] # "gui"
  <2>1. UNCHANGED <<clients, allStreams, isPlaying, replay>>
    BY <1>5 DEF read_error, streamVars
  <2>2. stream[c] = "none" /\ "none" \notin Streams
    BY <1>5, SharedStreamAssumption DEF IInv, GuiHasStream, Streams, SharedStreamAssumption
  <2>3. Typed' /\ PlayingAgrees'
    BY <1>1, <1>2, <2>1 DEF IInv, Typed, TypeOK, PlayingAgrees
  <2>4. \A s \in Streams : c \notin clients[s]
    BY <2>2 DEF IInv, ClientOfOwnStream
  <2>5. ClientOfOwnStream' /\ DoneLeft'
    BY <1>1, <1>2, <2>1, <2>4 DEF IInv, Typed, TypeOK, ClientOfOwnStream, DoneLeft
  <2>6. ASSUME NEW s \in Streams, \A d \in Conns : ~ Uses(d, s)'
        PROVE  Left(s)'
    <3>1. \A d \in Conns : ~ Uses(d, s)
      BY <1>1, <1>2, <2>2, <2>6 DEF IInv, Typed, TypeOK, Uses
    <3> QED BY <2>1, <3>1 DEF IInv, UnusedIsLeft, Left
  <2> QED BY <1>1, <1>3, <2>3, <2>5, <2>6 DEF IInv, UnusedIsLeft
<1> QED BY <1>4, <1>5

\* The end of a connection, seen by a write: the reading handler is where it was.
LEMMA HandleWrite ==
  ASSUME IInv, NEW c \in Conns, handle_write(c)
  PROVE  IInv'
<1>1. /\ failed' = [failed EXCEPT ![c] = FALSE]
      /\ UNCHANGED <<connType, stream, pc, request, relay, msgs, peerOpen, told>>
  BY DEF handle_write
<1>2. GuiHasStream' /\ Switching'
  BY <1>1 DEF IInv, GuiHasStream, Switching
<1>3. CASE connType[c] = "gui"
  <2>1. stream[c] \in Streams /\ unsubscribe(stream[c], c)
    BY <1>3 DEF handle_write, IInv, GuiHasStream
  <2>2. replay' \in [Streams -> [state : {"none", "paused", "running"}, speed : Speeds \union {1}]]
    BY <2>1, UnsubscribeLeaves
  <2>3. replay' \in [Streams -> [state : {"none", "paused", "running"}, speed : Int]]
    BY <2>2, SpeedsAreIntegers
  <2>4. Typed' /\ PlayingAgrees'
    BY <1>1, <2>1, <2>2, <2>3, UnsubscribeLeaves DEF IInv, Typed, TypeOK
  <2>5. \A s \in Streams : clients'[s] \subseteq clients[s]
    <3>1. clients \in [Streams -> SUBSET Conns]
      BY DEF IInv, Typed, TypeOK
    <3>2. clients' = [clients EXCEPT ![stream[c]] = @ \ {c}]
      BY <2>1, UnsubscribeLeaves
    <3> QED BY <3>1, <3>2
  <2>6. ClientOfOwnStream' /\ DoneLeft'
    BY <1>1, <2>5 DEF IInv, ClientOfOwnStream, DoneLeft
  <2>7. UnusedIsLeft'
    BY <1>1, <2>1, UnsubscribeLeaves DEF IInv, UnusedIsLeft, Uses
  <2> QED BY <1>2, <2>4, <2>6, <2>7 DEF IInv
<1>4. CASE connType[c] # "gui"
  <2>1. UNCHANGED <<clients, allStreams, isPlaying, replay>>
    BY <1>4 DEF handle_write, streamVars
  <2>2. Typed'
    BY <1>1, <2>1 DEF IInv, Typed, TypeOK
  <2> QED BY <1>1, <1>2, <2>1, <2>2
          DEF IInv, PlayingAgrees, ClientOfOwnStream, DoneLeft, UnusedIsLeft, Uses, Left
<1> QED BY <1>3, <1>4

\* The engine keeps running, at the speed it has or at 1.
LEMMA TimerHandler ==
  ASSUME IInv, NEW s \in Streams, timer_handler(s)
  PROVE  IInv'
<1>1. UNCHANGED <<connType, stream, pc, request, relay, msgs, peerOpen, told,
                  clients, allStreams, isPlaying>>
  BY DEF timer_handler
<1>2. failed' \in [Conns -> BOOLEAN]
  BY DEF timer_handler, IInv, Typed, TypeOK
<1>3. PICK f \in {replay[s].speed, 1} : replay' = [replay EXCEPT ![s].speed = f]
  BY DEF timer_handler
<1>4. replay' \in [Streams -> [state : {"none", "paused", "running"}, speed : Speeds \union {1}]]
  BY <1>3 DEF IInv, Typed
<1>5. replay' \in [Streams -> [state : {"none", "paused", "running"}, speed : Int]]
  BY <1>4, SpeedsAreIntegers
<1>6. Typed'
  BY <1>1, <1>2, <1>4, <1>5 DEF IInv, Typed, TypeOK
<1>7. \A n \in Streams : replay'[n].state = replay[n].state
  BY <1>3 DEF IInv, Typed
<1> QED BY <1>1, <1>6, <1>7 DEF IInv, GuiHasStream, Switching, PlayingAgrees, ClientOfOwnStream,
           DoneLeft, UnusedIsLeft, Uses, Left

\* A client may close its connection at any time.
LEMMA ClosedByPeer ==
  ASSUME IInv, NEW c \in Conns, PeerCloses(c)
  PROVE  IInv'
<1>1. /\ UNCHANGED <<connType, stream, pc, request, relay, msgs, failed, told,
                     clients, allStreams, isPlaying, replay>>
      /\ peerOpen' = [peerOpen EXCEPT ![c] = FALSE]
  BY DEF PeerCloses, streamVars
<1>2. Typed'
  BY <1>1 DEF IInv, Typed, TypeOK
<1> QED BY <1>1, <1>2 DEF IInv, GuiHasStream, Switching, PlayingAgrees, ClientOfOwnStream,
           DoneLeft, UnusedIsLeft, Uses, Left

-----------------------------------------------------------------------------
(***************************************************************************)
(* Every reachable state satisfies the invariant.                          *)
(***************************************************************************)
THEOREM Invariance == Spec => []IInv
<1>1. ASSUME IInv, [Next]_vars
      PROVE  IInv'
  <2>1. CASE UNCHANGED vars
    <3>1. UNCHANGED <<connType, stream, pc, request, relay, msgs, peerOpen, failed, told,
                      clients, allStreams, isPlaying, replay>>
      BY <2>1 DEF vars, connVars, streamVars
    <3>2. Typed'
      BY <1>1, <3>1 DEF IInv, Typed, TypeOK
    <3> QED BY <1>1, <3>1, <3>2 DEF IInv, GuiHasStream, Switching, PlayingAgrees,
               ClientOfOwnStream, DoneLeft, UnusedIsLeft, Uses, Left
  <2>2. ASSUME NEW c \in Conns, NEW m \in Requests, handle_read_payload(c, m)
        PROVE  IInv'
    BY <1>1, <2>2, ReadPayload
  <2>3. ASSUME NEW c \in Conns, Strand(c)
        PROVE  IInv'
    BY <1>1, <2>3, Subscribe, Greet, AddStream, ChangesStream, GetStream, LeaveStream,
       SwitchStream, Relay DEF Strand
  <2>4. ASSUME NEW c \in Conns, read_error(c)
        PROVE  IInv'
    BY <1>1, <2>4, ReadError
  <2>5. ASSUME NEW c \in Conns, handle_write(c)
        PROVE  IInv'
    BY <1>1, <2>5, HandleWrite
  <2>6. ASSUME NEW c \in Conns, PeerCloses(c)
        PROVE  IInv'
    BY <1>1, <2>6, ClosedByPeer
  <2>7. ASSUME NEW s \in Streams, timer_handler(s)
        PROVE  IInv'
    BY <1>1, <2>7, TimerHandler
  <2> QED BY <1>1, <2>1, <2>2, <2>3, <2>4, <2>5, <2>6, <2>7 DEF Next
<1> QED BY <1>1, Initially, PTL DEF Spec

(***************************************************************************)
(* Variables stay within their types: in particular no handler works for   *)
(* a stream its connection does not have.                                  *)
(***************************************************************************)
THEOREM TypeCorrectness == Spec => []TypeOK
<1>1. IInv => TypeOK
  BY DEF IInv, Typed
<1> QED BY <1>1, Invariance, PTL

(***************************************************************************)
(* A connection is a client of its own stream only, and never twice.       *)
(***************************************************************************)
THEOREM OwnStreamOnly == Spec => []ClientOfOwnStream
<1>1. IInv => ClientOfOwnStream
  BY DEF IInv
<1> QED BY <1>1, Invariance, PTL

(***************************************************************************)
(* A stream is marked as playing exactly when its engine runs, whatever    *)
(* clients start, stop, join and leave it at the same time.                *)
(***************************************************************************)
THEOREM StreamPlaysAsMarked == Spec => []PlayingAgrees
<1>1. IInv => PlayingAgrees
  BY DEF IInv
<1> QED BY <1>1, Invariance, PTL

(***************************************************************************)
(* Nothing is left behind of a stream that all its connections have left:  *)
(* it is not listed, does not play and has no clients.                     *)
(***************************************************************************)
THEOREM LeftBehindNothing == Spec => []NothingLeftBehind
<1>1. IInv => NothingLeftBehind
  <2> SUFFICES ASSUME IInv, NEW s \in Streams, ~ InUse(s)
               PROVE  Left(s)
    BY DEF NothingLeftBehind, Left
  <2>1. \A c \in Conns : ~ Uses(c, s)
    BY DEF InUse, Uses
  <2> QED BY <2>1 DEF IInv, UnusedIsLeft
<1> QED BY <1>1, Invariance, PTL
=============================================================================
