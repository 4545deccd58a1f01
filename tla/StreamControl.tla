---------------------------- MODULE StreamControl ----------------------------
(***************************************************************************)
(* The playback controls of the clients of one shared stream               *)
(* (QMessageStreamPlaybackWidget.cpp).  LegacyControl adds another client. *)
(*                                                                         *)
(* A control sends requests and shows what the server relays.  The server  *)
(* relays every request to all clients, its sender included, and a control *)
(* that learns of a change sends a request in its turn: the controls echo  *)
(* each other.  Each direction of a connection is a queue.  The server     *)
(* applies and relays a request in one step here; how relays interleave is *)
(* the subject of SharedStream.  Seeks are not relayed and left out.       *)
(***************************************************************************)
EXTENDS Integers, Sequences, FiniteSets

CONSTANTS
  Clients,
  Rates,      \* the rates a user enters in the spin box
  MaxRate,    \* the range of the spin box is -MaxRate .. MaxRate
  RateBound,  \* a bound on the rates doubling reaches (the code has none)
  MaxActions, \* a bound on what users do: 0 for no bound
  Patient     \* users act only when no message is under way

ASSUME StreamControlAssumption ==
  /\ IsFiniteSet(Clients)
  /\ MaxRate \in Nat \ {0}
  /\ Rates \subseteq -MaxRate .. MaxRate
  /\ RateBound \in Nat /\ RateBound >= MaxRate
  /\ MaxActions \in Nat
  /\ Patient \in BOOLEAN

VARIABLES
  playing, rate,   \* the stream at the server: isPlaying_ and the engine's speed
  joined,          \* the clients subscribed to it
  paused,          \* isPlaybackPaused of each control
  streamRate,      \* its streamRate
  spin,            \* the value of its spin box
  toServer, toClient,
  actions,         \* the actions users have made, if they are bounded
  \* Only properties read these.
  told,            \* the clients that were sent a start or a stop of this stream
  requests,        \* the requests sent since a user last acted
  relayed,         \* the last speed relayed to all clients
  unaware          \* those that were sent none since the engine set its own

rateVars    == <<rate, relayed, unaware>>
serverVars  == <<playing, rateVars, joined>>
controlVars == <<paused, streamRate, spin>>
history     == <<told, requests>>
vars        == <<serverVars, controlVars, toServer, toClient, actions, history>>

Start    == [type |-> "start"]
Stop     == [type |-> "stop"]
Speed(x) == [type |-> "speed", speed |-> x]

\* The clients have connected.  Each has a stream of its own until it joins this
\* one, and its flag is that of its own stream.
InitWith(flags) ==
  /\ playing = FALSE /\ rate = 1
  /\ joined = {}
  /\ paused = flags
  /\ streamRate = [c \in Clients |-> 1]
  /\ spin = [c \in Clients |-> 1]
  /\ toServer = [c \in Clients |-> <<>>]
  /\ toClient = [c \in Clients |-> <<>>]
  /\ actions = 0
  /\ told = {} /\ requests = 0
  /\ relayed = rate /\ unaware = {}

\* A control has stopped the stream of its own (initMessageStream), but the relay
\* of that stop may have come before it listened: then its flag is still clear.
Init == \E flags \in [Clients -> BOOLEAN] : InitWith(flags)

Quiet == \A c \in Clients : toServer[c] = <<>> /\ toClient[c] = <<>>

Clamped(x) == IF x > MaxRate THEN MaxRate ELSE IF x < -MaxRate THEN -MaxRate ELSE x
Abs(x)     == IF x < 0 THEN -x ELSE x

RequestBound == 2 + 2 * Cardinality(Clients)

\* Requests past the bound are not counted.
Send(c, s) ==
  /\ toServer' = [toServer EXCEPT ![c] = @ \o s]
  /\ requests' = IF requests > RequestBound THEN requests ELSE requests + Len(s)

-----------------------------------------------------------------------------
\* A user of c acts, and the control sends the requests s.
UserSends(c, s) ==
  /\ Patient => Quiet
  /\ c \in joined
  /\ MaxActions = 0 \/ actions < MaxActions
  /\ actions' = IF MaxActions = 0 THEN 0 ELSE actions + 1
  /\ toServer' = [toServer EXCEPT ![c] = @ \o s]
  /\ requests' = Len(s)
  /\ UNCHANGED <<serverVars, streamRate, told>>

pausePlayback(c) ==
  /\ UserSends(c, <<Stop>>)
  /\ paused' = [paused EXCEPT ![c] = TRUE]
  /\ UNCHANGED <<spin, toClient>>

\* The flag is not cleared until the server relays the start.
normalPlayback(c) ==
  /\ UserSends(c, <<Speed(1), Start>>)
  /\ UNCHANGED <<paused, spin, toClient>>

\* Pressed again in the same direction, they double the rate, which is not 0.
Turn(c, negative) ==
  LET r == streamRate[c]
      x == IF (r < 0) = negative THEN Abs(2 * r) ELSE Abs(r) IN
  /\ x <= RateBound
  /\ UserSends(c, <<Speed(IF negative THEN -x ELSE x), Start>>)
  /\ UNCHANGED <<paused, spin, toClient>>

reversePlayback(c) == Turn(c, TRUE)
forwardPlayback(c) == Turn(c, FALSE)

rewindToStartOfPlayback(c) ==
  /\ UserSends(c, IF streamRate[c] < 0 THEN <<Speed(1), Start>> ELSE <<Start>>)
  /\ UNCHANGED <<paused, spin, toClient>>

forwardToEndOfPlayback(c) == normalPlayback(c)

\* The user enters a rate: the box signals a change of its value only.
playbackSetSpeed(c) == \E x \in Rates \ {spin[c]} :
  /\ UserSends(c, <<Speed(x)>>)
  /\ spin' = [spin EXCEPT ![c] = x]
  /\ UNCHANGED <<paused, toClient>>

\* The messages in the cache of the stream are lost, those on their way are not.
setStreamPlaybackTimeFromSlider(c) ==
  /\ UserSends(c, <<Start>>)
  /\ \E k \in 1 .. Len(toClient[c]) + 1 :
       toClient' = [toClient EXCEPT ![c] = SubSeq(@, k, Len(@))]
  /\ UNCHANGED <<paused, spin>>

\* Mutant of selectStream: the server tells the speed it last relayed.
selectStream_lastRelayed(c) ==
  /\ Patient => Quiet
  /\ c \notin joined
  /\ joined' = joined \union {c}
  /\ toClient' = [toClient EXCEPT ![c] = Append(@, Speed(relayed))]
  /\ requests' = 0
  /\ UNCHANGED <<playing, rateVars, controlVars, toServer, actions, told>>

\* The stream is chosen in the list.  The server tells the engine's speed (subscribe).
selectStream(c) ==
  /\ Patient => Quiet
  /\ c \notin joined
  /\ joined' = joined \union {c}
  /\ toClient' = [toClient EXCEPT ![c] = Append(@, Speed(rate))]
  /\ requests' = 0
  /\ UNCHANGED <<playing, rateVars, controlVars, toServer, actions, told>>

UserActs(c) ==
  \/ pausePlayback(c) \/ normalPlayback(c) \/ reversePlayback(c) \/ forwardPlayback(c)
  \/ rewindToStartOfPlayback(c) \/ forwardToEndOfPlayback(c) \/ playbackSetSpeed(c)
  \/ setStreamPlaybackTimeFromSlider(c) \/ selectStream(c)

-----------------------------------------------------------------------------
\* The engine has no speed 0: the request stops the stream (SharedStream::speed).
Relayed(m) == IF m = Speed(0) THEN Stop ELSE m

\* start(), stop() and speed() of the stream, and the relay to all clients.
Serve(c) ==
  LET m == Relayed(Head(toServer[c])) IN
  /\ toServer[c] # <<>>
  /\ toServer' = [toServer EXCEPT ![c] = Tail(@)]
  /\ toClient' = [d \in Clients |-> IF d \in joined THEN Append(toClient[d], m) ELSE toClient[d]]
  /\ playing' = (m.type = "start" \/ (m.type = "speed" /\ playing))
  /\ IF m.type = "speed"
       THEN rate' = m.speed /\ relayed' = m.speed /\ unaware' = {} /\ told' = told
       ELSE told' = joined /\ UNCHANGED rateVars
  /\ UNCHANGED <<joined, controlVars, actions, requests>>

\* The engine, playing forward, finds no more messages: it goes on at speed 1, and
\* no client is told.
EndOfRecording ==
  /\ playing /\ rate > 0 /\ rate # 1
  /\ rate' = 1
  /\ unaware' = joined
  /\ UNCHANGED <<playing, joined, relayed, controlVars, toServer, toClient, actions, history>>

Receive(c, type) ==
  /\ toClient[c] # <<>> /\ Head(toClient[c]).type = type
  /\ toClient' = [toClient EXCEPT ![c] = Tail(@)]
  /\ UNCHANGED <<serverVars, actions, told>>

\* Mutant of HandleStart: the flag is not tested, and every start answered.
HandleStart_always(c) ==
  /\ Receive(c, "start")
  /\ paused' = [paused EXCEPT ![c] = FALSE]
  /\ Send(c, <<Start>>)
  /\ UNCHANGED <<streamRate, spin>>

\* handleStreamRelatedMessage of a start, a stop and a speed.
HandleStart(c) ==
  /\ Receive(c, "start")
  /\ paused' = [paused EXCEPT ![c] = FALSE]
  /\ Send(c, IF paused[c] THEN <<Start>> ELSE <<>>)
  /\ UNCHANGED <<streamRate, spin>>

HandleStop(c) ==
  /\ Receive(c, "stop")
  /\ paused' = [paused EXCEPT ![c] = TRUE]
  /\ Send(c, IF paused[c] THEN <<>> ELSE <<Stop>>)
  /\ UNCHANGED <<streamRate, spin>>

\* Mutant of HandleSpeed: the box signals whatever it is set to.
HandleSpeed_alwaysSignals(c) ==
  LET x == Head(toClient[c]).speed IN
  /\ Receive(c, "speed")
  /\ streamRate' = [streamRate EXCEPT ![c] = x]
  /\ spin' = [spin EXCEPT ![c] = Clamped(x)]
  /\ paused' = [paused EXCEPT ![c] = @ \/ x = 0]
  /\ Send(c, <<Speed(Clamped(x))>>)

\* Set to another value than it shows, the box signals the change, and
\* playbackSetSpeed sends what it now shows.
HandleSpeed(c) ==
  LET x == Head(toClient[c]).speed IN
  /\ Receive(c, "speed")
  /\ streamRate' = [streamRate EXCEPT ![c] = x]
  /\ spin' = [spin EXCEPT ![c] = Clamped(x)]
  /\ paused' = [paused EXCEPT ![c] = @ \/ x = 0]
  /\ Send(c, (IF spin[c] = Clamped(x) THEN <<>> ELSE <<Speed(Clamped(x))>>)
             \o (IF x = 0 THEN <<Stop>> ELSE <<>>))

handleStreamRelatedMessage(c) == HandleStart(c) \/ HandleStop(c) \/ HandleSpeed(c)

Next ==
  \/ \E c \in Clients : UserActs(c) \/ Serve(c) \/ handleStreamRelatedMessage(c)
  \/ EndOfRecording

Spec == Init /\ [][Next]_vars

\* The threads of the server and of the controls never stop reading; a recording
\* need not end.
FairSpec == Spec /\ \A c \in Clients : WF_vars(Serve(c)) /\ WF_vars(handleStreamRelatedMessage(c))

-----------------------------------------------------------------------------
Messages == {Start, Stop} \union {Speed(x) : x \in -RateBound .. RateBound}

TypeOK ==
  /\ playing \in BOOLEAN /\ rate \in (-RateBound .. RateBound) \ {0}
  /\ joined \subseteq Clients
  /\ paused \in [Clients -> BOOLEAN]
  /\ streamRate \in [Clients -> (-RateBound .. RateBound) \ {0}]
  /\ spin \in [Clients -> -MaxRate .. MaxRate]
  /\ toServer \in [Clients -> Seq(Messages)]
  /\ toClient \in [Clients -> Seq(Messages)]
  /\ actions \in Nat
  /\ told \subseteq joined
  /\ requests \in Nat
  /\ relayed \in (-RateBound .. RateBound) \ {0} /\ unaware \subseteq joined

(* Once nothing is under way a control pauses exactly when the stream does  *)
(* (one that has joined since the last start or stop is told the rate       *)
(* only) and shows the rate of the engine, unless the engine has set its    *)
(* own at the end of the recording: clients that were there go on showing   *)
(* the last one relayed, of the same direction, and disagree with those     *)
(* that join later (the FIXME at replayState.cpp:301).                      *)
ControlsAgree ==
  Quiet =>
    /\ \A c \in joined : streamRate[c] = IF c \in unaware THEN relayed ELSE rate
    /\ unaware # {} => rate = 1 /\ relayed > 0
    /\ \A c \in told : paused[c] = ~ playing

(* One action of a user makes the controls send few requests: each answers  *)
(* a change once.                                                           *)
EchoesAreBounded == requests <= 2 + 2 * Cardinality(joined)

(* README.changelog:131: "This release has fully implemented synced stream  *)
(* functionality."  When users have stopped acting, the controls end up     *)
(* showing what the stream does.  They do not if a user acted twice while   *)
(* the first request was under way: the control then answers each start     *)
(* and stop of its own with the next, and the stream goes on and off.       *)
ControlsSynced == <>[](\A c \in told : paused[c] = ~ playing)
=============================================================================
