---------------------------- MODULE LegacyControl ----------------------------
(***************************************************************************)
(* The legacy watcher (manetglview.cpp) as a client of a shared stream,    *)
(* beside the controls of StreamControl.                                   *)
(*                                                                         *)
(* It never answers a start or a stop; its pause button is a toggle, which *)
(* the buttons that turn or rewind press first.  The thread that reads     *)
(* from the stream (checkIO) hands each speed to the thread of the windows *)
(* in a queued signal, and the graph runs in the direction of the stream.  *)
(* An event clears the flag as a start does; events are left out, as they  *)
(* come between a start and the next stop.                                 *)
(***************************************************************************)
EXTENDS StreamControl

CONSTANTS
  LegacySets,  \* the sets of clients that may run the legacy watcher
  Mixed        \* clients of both kinds may share the stream

ASSUME LegacyControlAssumption == LegacySets \subseteq SUBSET Clients /\ Mixed \in BOOLEAN

VARIABLES
  legacy,   \* the clients that run the legacy watcher
  signals,  \* the signals streamRateSet of each that its windows have not handled
  forward   \* the direction of its graph

legacyVars  == <<legacy, signals, forward>>
allVars     == <<vars, legacyVars>>

\* A legacy watcher has connected and started the stream of its own (setupStream).
LegacyInit ==
  /\ legacy \in LegacySets
  /\ signals = [c \in Clients |-> <<>>]
  /\ forward = [c \in Clients |-> TRUE]
  /\ \E flags \in [Clients -> BOOLEAN] : (\A c \in legacy : ~ flags[c]) /\ InitWith(flags)

MayJoin(c) == Mixed \/ \A d \in joined : (d \in legacy) = (c \in legacy)

NoSignals == \A c \in Clients : signals[c] = <<>>

-----------------------------------------------------------------------------
\* The pause button: what it asks for depends on the flag, which it leaves alone.
PauseRequest(c) == IF paused[c] THEN Start ELSE Stop

\* A button of the legacy watcher, which presses pause and then sends s.
Button(c, s) ==
  /\ UserSends(c, <<PauseRequest(c)>> \o s)
  /\ UNCHANGED <<paused, spin, toClient>>

legacyPause(c) == Button(c, <<>>)

\* The rate is not 0, as the server relays no rate of 0.
legacyTurn(c, negative) ==
  LET r == streamRate[c]
      x == IF (r < 0) = negative THEN Abs(2 * r) ELSE Abs(r) IN
  /\ x <= RateBound
  /\ Button(c, <<Speed(IF negative THEN -x ELSE x), Start>>)

legacyRewind(c) == Button(c, IF streamRate[c] < 0 THEN <<Speed(1), Start>> ELSE <<Start>>)

legacyForwardToEnd(c) == Button(c, <<Speed(1), Start>>)

\* The other buttons, the box, the slider and the list send what a control sends.
LegacyUserActs(c) ==
  /\ Patient => NoSignals
  /\ c \in joined \/ MayJoin(c)
  /\ \/ legacyPause(c) \/ normalPlayback(c)
     \/ legacyTurn(c, TRUE) \/ legacyTurn(c, FALSE)
     \/ legacyRewind(c) \/ legacyForwardToEnd(c)
     \/ playbackSetSpeed(c) \/ setStreamPlaybackTimeFromSlider(c) \/ selectStream(c)
  /\ UNCHANGED legacyVars

-----------------------------------------------------------------------------
\* checkIO: a start or a stop that was relayed.
checkIOFlag(c) == \E type \in {"start", "stop"} :
  /\ Receive(c, type)
  /\ paused' = [paused EXCEPT ![c] = type = "stop"]
  /\ UNCHANGED <<streamRate, spin, toServer, requests, legacyVars>>

\* checkIO: a speed that was relayed, which is not 0.
changeSpeed(c) ==
  LET x == Head(toClient[c]).speed
      turns == (streamRate[c] > 0 /\ x < 0) \/ (streamRate[c] < 0 /\ x > 0) IN
  /\ Receive(c, "speed")
  /\ streamRate' = [streamRate EXCEPT ![c] = x]
  /\ forward' = [forward EXCEPT ![c] = IF turns THEN x > 0 ELSE @]
  /\ signals' = [signals EXCEPT ![c] = Append(@, x)]
  /\ UNCHANGED <<paused, spin, toServer, requests, legacy>>

\* The windows' thread sets the box, which signals a change of its value.
ShowRate(c) ==
  LET x == Clamped(Head(signals[c])) IN
  /\ signals[c] # <<>>
  /\ signals' = [signals EXCEPT ![c] = Tail(@)]
  /\ spin' = [spin EXCEPT ![c] = x]
  /\ Send(c, IF spin[c] = x THEN <<>> ELSE <<Speed(x)>>)
  /\ UNCHANGED <<serverVars, paused, streamRate, toClient, actions, told, legacy, forward>>

-----------------------------------------------------------------------------
ControlStep(c) ==
  /\ c \notin legacy
  /\ \/ (Patient => NoSignals) /\ (c \in joined \/ MayJoin(c)) /\ UserActs(c)
     \/ handleStreamRelatedMessage(c)
  /\ UNCHANGED legacyVars

LegacyStep(c) ==
  /\ c \in legacy
  /\ LegacyUserActs(c) \/ checkIOFlag(c) \/ changeSpeed(c) \/ ShowRate(c)

LegacyNext ==
  \/ \E c \in Clients : ControlStep(c) \/ LegacyStep(c) \/ (Serve(c) /\ UNCHANGED legacyVars)
  \/ EndOfRecording /\ UNCHANGED legacyVars

LegacySpec == LegacyInit /\ [][LegacyNext]_allVars

\* The threads of the server and of the clients never stop reading.
FairLegacySpec ==
  /\ LegacySpec
  /\ \A c \in Clients :
       /\ WF_allVars(Serve(c) /\ UNCHANGED legacyVars)
       /\ WF_allVars(c \notin legacy /\ handleStreamRelatedMessage(c) /\ UNCHANGED legacyVars)
       /\ WF_allVars(c \in legacy /\ (checkIOFlag(c) \/ changeSpeed(c)))
       /\ WF_allVars(c \in legacy /\ ShowRate(c))

-----------------------------------------------------------------------------
AllQuiet == Quiet /\ NoSignals

(* Once nothing is under way, every client agrees with the server, of       *)
(* either kind: each pauses exactly when the stream does and shows its      *)
(* rate, but for the engine's silent return to 1 (ControlsAgree); and,      *)
(* whoever was told, the graph of a legacy watcher runs in the direction of *)
(* the stream, so that edges expire at the end that time leaves behind.     *)
ClientsAgree ==
  AllQuiet =>
    /\ ControlsAgree
    /\ \A c \in joined \cap legacy : forward[c] = (rate > 0)

(* Whatever a user does, the clients stop answering each other, unless both *)
(* kinds share the stream.                                                  *)
AnswersEnd == []<>AllQuiet
=============================================================================
