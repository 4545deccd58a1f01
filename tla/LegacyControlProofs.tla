------------------------ MODULE LegacyControlProofs ------------------------
(***************************************************************************)
(* Proofs about the clients of a shared stream, of either kind and in any  *)
(* number, for any rates and any range of the box; of users who act when   *)
(* nothing is under way.                                                   *)
(***************************************************************************)
EXTENDS LegacyControl, FiniteSetTheorems, SequenceTheorems, TLAPS

-----------------------------------------------------------------------------
(***************************************************************************)
(* Messages and rates.                                                     *)
(***************************************************************************)
AllRates == -RateBound .. RateBound
BoxRates == -MaxRate .. MaxRate

Plays == {"start", "stop"}

\* A request the server takes for a start or a stop.
IsPlay(m) == Relayed(m).type \in Plays

(* There are three kinds of messages, and they can be told apart.          *)
LEMMA MessageKinds ==
  /\ Start \in Messages /\ Stop \in Messages /\ \A x \in AllRates : Speed(x) \in Messages
  /\ \A m \in Messages : m = Start \/ m = Stop \/ \E x \in AllRates : m = Speed(x)
  /\ Start.type = "start" /\ Stop.type = "stop" /\ Start # Stop
  /\ \A x : Speed(x).type = "speed" /\ Speed(x).speed = x /\ Speed(x) # Start /\ Speed(x) # Stop
  /\ \A x, y : Speed(x) = Speed(y) => x = y
PROOF
<1>1. Start.type = "start" /\ Stop.type = "stop" /\ "start" # "stop" /\ "start" # "speed" /\ "stop" # "speed"
  BY DEF Start, Stop
<1>2. \A x : Speed(x).type = "speed" /\ Speed(x).speed = x
  BY DEF Speed
<1>3. \A x, y : Speed(x) = Speed(y) => x = y
  BY <1>2
<1> QED
  BY <1>1, <1>2, <1>3 DEF Messages, AllRates

(* What the server relays: a rate that is not 0, a start or a stop.        *)
LEMMA RelayedKinds ==
  ASSUME NEW m \in Messages
  PROVE  /\ Relayed(m) \in Messages \ {Speed(0)}
         /\ \/ m = Start /\ Relayed(m) = Start /\ IsPlay(m)
            \/ (m = Stop \/ m = Speed(0)) /\ Relayed(m) = Stop /\ IsPlay(m)
            \/ \E x \in AllRates \ {0} : m = Speed(x) /\ Relayed(m) = m /\ ~ IsPlay(m)
BY MessageKinds DEF Relayed, IsPlay, Plays

(* The box takes any rate into its range, once.                            *)
LEMMA ClampedFacts ==
  /\ \A x \in Int : Clamped(x) \in BoxRates /\ Clamped(x) \in AllRates /\ Clamped(Clamped(x)) = Clamped(x)
  /\ \A x \in Int \ {0} : Clamped(x) # 0
  /\ \A x \in BoxRates : Clamped(x) = x
  /\ BoxRates \subseteq AllRates /\ 1 \in BoxRates /\ AllRates \subseteq Int
PROOF
<1>1. MaxRate \in Nat \ {0} /\ RateBound \in Nat /\ MaxRate <= RateBound
  BY StreamControlAssumption
<1>2. ASSUME NEW x \in Int
      PROVE  Clamped(x) \in BoxRates /\ Clamped(x) \in AllRates /\ Clamped(Clamped(x)) = Clamped(x)
             /\ (x # 0 => Clamped(x) # 0)
  BY <1>1 DEF Clamped, BoxRates, AllRates
<1>3. ASSUME NEW x \in BoxRates PROVE Clamped(x) = x
  BY <1>1, <1>3 DEF Clamped, BoxRates
<1>4. BoxRates \subseteq AllRates /\ 1 \in BoxRates /\ AllRates \subseteq Int
  BY <1>1 DEF BoxRates, AllRates
<1> QED
  BY <1>2, <1>3, <1>4

-----------------------------------------------------------------------------
(***************************************************************************)
(* The types.  Beyond TypeOK: the server relays no rate of 0, and only     *)
(* clients of the stream are sent or signalled anything; the windows of a  *)
(* control are not signalled.                                              *)
(***************************************************************************)
LegacyTypes ==
  /\ legacy \subseteq Clients
  /\ forward \in [Clients -> BOOLEAN]
  /\ toClient \in [Clients -> Seq(Messages \ {Speed(0)})]
  /\ signals \in [Clients -> Seq(AllRates \ {0})]
  /\ \A c \in Clients : toClient[c] # <<>> \/ signals[c] # <<>> => c \in joined

Types == TypeOK /\ LegacyTypes

\* The requests that start or stop the stream as K says, and show x in the box.
Requests(K, x) ==
  {m \in Messages : IF IsPlay(m) THEN Relayed(m) \in K ELSE Clamped(m.speed) = x}

(***************************************************************************)
(* What users do: a user of c asks for s, when nothing is under way.  A    *)
(* control asks for one change of the flag at most, and for one rate.      *)
(***************************************************************************)
Asks(c, s) ==
  /\ Quiet /\ NoSignals /\ c \in joined
  /\ toServer' = [toServer EXCEPT ![c] = @ \o s] /\ requests' = Len(s) /\ actions' \in Nat
  /\ UNCHANGED <<playing, rate, relayed, unaware, joined, streamRate, told, toClient, legacy, signals, forward>>
  /\ paused' = paused \/ (paused' = [paused EXCEPT ![c] = TRUE] /\ s = <<Stop>>)
  /\ spin' \in [Clients -> BoxRates]
  /\ \E K \in SUBSET {Start, Stop}, x \in BoxRates :
       /\ s \in Seq(Requests(K, x)) /\ Len(s) <= 3
       /\ c \notin legacy => Len(s) <= 2 /\ \E k \in {Start, Stop} : K = {k}

Enters(c) ==
  /\ c \in Clients \ joined /\ joined' = joined \union {c}
  /\ toClient' = [toClient EXCEPT ![c] = Append(@, Speed(rate))]
  /\ requests' = 0
  /\ UNCHANGED <<playing, rate, relayed, unaware, controlVars, toServer, actions, told, legacy, signals, forward>>

Joins(c) == Quiet /\ NoSignals /\ MayJoin(c) /\ Enters(c)

(* The requests a user may ask for.                                        *)
LEMMA RequestKinds ==
  /\ \A K, x : Start \in K => Start \in Requests(K, x)
  /\ \A K, x : Stop \in K => Stop \in Requests(K, x)
  /\ \A K : \A r \in AllRates \ {0} : Speed(r) \in Requests(K, Clamped(r))
  /\ \A K, x : Stop \in K => Speed(0) \in Requests(K, x)
PROOF
<1>1. 0 \in AllRates
  BY StreamControlAssumption DEF AllRates
<1>2. /\ Start \in Messages /\ Stop \in Messages /\ Speed(0) \in Messages
      /\ \A r \in AllRates : Speed(r) \in Messages
  BY <1>1, MessageKinds
<1>3. /\ Relayed(Start) = Start /\ IsPlay(Start) /\ Relayed(Stop) = Stop /\ IsPlay(Stop)
      /\ Relayed(Speed(0)) = Stop /\ IsPlay(Speed(0))
  BY MessageKinds DEF Relayed, IsPlay, Plays
<1>4. \A r \in AllRates \ {0} : ~ IsPlay(Speed(r)) /\ Speed(r).speed = r
  BY MessageKinds DEF Relayed, IsPlay, Plays
<1> QED
  BY <1>2, <1>3, <1>4 DEF Requests

(* What they ask for in a row.                                             *)
LEMMA RequestRows ==
  ASSUME NEW r \in AllRates \ {0}
  PROVE  /\ <<Stop>> \in Seq(Requests({Stop}, Clamped(r))) /\ Len(<<Stop>>) <= 2
         /\ <<Start>> \in Seq(Requests({Start}, Clamped(r))) /\ Len(<<Start>>) <= 2
         /\ <<Speed(r), Start>> \in Seq(Requests({Start}, Clamped(r))) /\ Len(<<Speed(r), Start>>) <= 2
         /\ <<Speed(r)>> \in Seq(Requests({Start}, Clamped(r))) /\ Len(<<Speed(r)>>) <= 2
         /\ <<Speed(0)>> \in Seq(Requests({Stop}, Clamped(r))) /\ Len(<<Speed(0)>>) <= 2
PROOF
<1>1. /\ Stop \in Requests({Stop}, Clamped(r)) /\ Start \in Requests({Start}, Clamped(r))
      /\ Speed(r) \in Requests({Start}, Clamped(r)) /\ Speed(0) \in Requests({Stop}, Clamped(r))
  BY RequestKinds
<1> QED
  BY <1>1

(* What the buttons of a legacy watcher ask for in a row.                  *)
LEMMA ButtonRows ==
  ASSUME NEW r \in AllRates \ {0}, NEW p \in {Start, Stop},
         NEW s \in {<<>>, <<Start>>, <<Speed(r), Start>>}
  PROVE  <<p>> \o s \in Seq(Requests({Start, Stop}, Clamped(r))) /\ Len(<<p>> \o s) <= 3
PROOF
<1> DEFINE R == Requests({Start, Stop}, Clamped(r))
           q == <<p>> \o s
<1>1. p \in R /\ Start \in R /\ Speed(r) \in R
  BY RequestKinds
<1> HIDE DEF R
<1>2. <<p>> \in Seq(R) /\ Len(<<p>>) = 1
  BY <1>1
<1>3. s \in Seq(R) /\ Len(s) <= 2
  <2>1. CASE s = <<>>
    BY <2>1
  <2>2. CASE s = <<Start>>
    BY <2>2, <1>1
  <2>3. CASE s = <<Speed(r), Start>>
    BY <2>3, <1>1
  <2> QED
    BY <2>1, <2>2, <2>3
<1>4. q \in Seq(R) /\ Len(q) = Len(<<p>>) + Len(s)
  BY <1>2, <1>3, ConcatProperties
<1>5. Len(s) \in Nat
  BY <1>3, LenProperties
<1> HIDE DEF q
<1>6. q \in Seq(R) /\ Len(q) <= 3
  BY <1>2, <1>3, <1>4, <1>5
<1> QED
  BY <1>6 DEF R, q

(* A request of a user is one that Asks describes: of a control,           *)
LEMMA SentIsAsked ==
  ASSUME Patient, Types, NoSignals, NEW c \in Clients, NEW s, UserSends(c, s),
         UNCHANGED <<toClient, legacyVars>>,
         paused' = paused \/ (paused' = [paused EXCEPT ![c] = TRUE] /\ s = <<Stop>>),
         spin' \in [Clients -> BoxRates],
         NEW k \in {Start, Stop}, NEW r \in AllRates,
         s \in Seq(Requests({k}, Clamped(r))), Len(s) <= 2
  PROVE  \E q : Asks(c, q)
PROOF
<1>1. Quiet /\ c \in joined /\ UNCHANGED <<playing, rate, relayed, unaware, joined, streamRate, told>>
      /\ toServer' = [toServer EXCEPT ![c] = @ \o s] /\ requests' = Len(s)
  BY DEF UserSends, serverVars, rateVars
<1>2. actions' \in Nat
  BY DEF UserSends, Types, TypeOK
<1> DEFINE K == {k}
           x == Clamped(r)
<1>3. K \in SUBSET {Start, Stop} /\ x \in BoxRates /\ s \in Seq(Requests(K, x)) /\ K = {k}
  BY ClampedFacts
<1>4. Len(s) <= 2 /\ Len(s) <= 3
  <2>1. Len(s) \in Nat
    BY LenProperties
  <2> QED
    BY <2>1
<1> HIDE DEF K, x
<1>5. Asks(c, s)
  BY <1>1, <1>2, <1>3, <1>4 DEF Asks, legacyVars
<1> QED
  BY <1>5

(* and of a button of a legacy watcher.                                    *)
LEMMA ButtonIsAsked ==
  ASSUME Patient, Types, NoSignals, NEW c \in Clients, c \in legacy, NEW r \in AllRates \ {0},
         NEW s \in {<<>>, <<Start>>, <<Speed(r), Start>>}, Button(c, s), UNCHANGED legacyVars
  PROVE  \E q : Asks(c, q)
PROOF
<1> DEFINE q == <<PauseRequest(c)>> \o s
           K == {Start, Stop}
           x == Clamped(r)
<1>1. Quiet /\ c \in joined /\ UNCHANGED <<playing, rate, relayed, unaware, joined, streamRate, told, paused, spin, toClient>>
      /\ toServer' = [toServer EXCEPT ![c] = @ \o q] /\ requests' = Len(q)
  BY DEF Button, UserSends, serverVars, rateVars
<1>2. actions' \in Nat
  BY DEF Button, UserSends, Types, TypeOK
<1>3. spin' \in [Clients -> BoxRates]
  BY <1>1 DEF Types, TypeOK, BoxRates
<1>4. PauseRequest(c) \in {Start, Stop}
  BY DEF PauseRequest
<1>5. K \in SUBSET {Start, Stop} /\ x \in BoxRates
  BY ClampedFacts
<1>6. q \in Seq(Requests(K, x)) /\ Len(q) <= 3
  BY <1>4, ButtonRows
<1> HIDE DEF q, K, x
<1>7. Asks(c, q)
  BY <1>1, <1>2, <1>3, <1>5, <1>6 DEF Asks, legacyVars
<1> QED
  BY <1>7

(* The slider finds nothing in the cache.                                  *)
LEMMA NothingIsCut ==
  ASSUME Quiet, Types, NEW c \in Clients, NEW k \in 1 .. Len(toClient[c]) + 1,
         toClient' = [toClient EXCEPT ![c] = SubSeq(@, k, Len(@))]
  PROVE  toClient' = toClient
PROOF
<1>1. toClient[c] = <<>> /\ Len(toClient[c]) = 0 /\ k = 1
  BY DEF Quiet
<1>2. SubSeq(<<>>, 1, 0) = <<>>
  OBVIOUS
<1>3. toClient' = [toClient EXCEPT ![c] = toClient[c]]
  BY <1>1, <1>2
<1> QED
  BY <1>3 DEF Types, LegacyTypes

(* Whatever a user of either kind does is one of the two.                  *)
LEMMA UsersAskOrJoin ==
  ASSUME Patient, Types, NEW c \in Clients, NoSignals, c \in joined \/ MayJoin(c), UNCHANGED legacyVars,
         \/ c \notin legacy /\ UserActs(c)
         \/ c \in legacy /\ LegacyUserActs(c)
  PROVE  Joins(c) \/ \E s : Asks(c, s)
PROOF
<1>b. 1 \in AllRates \ {0} /\ BoxRates \subseteq AllRates /\ Rates \subseteq BoxRates
      /\ \A x \in AllRates : Clamped(x) \in BoxRates
  BY ClampedFacts, StreamControlAssumption DEF BoxRates
<1>t. paused \in [Clients -> BOOLEAN] /\ spin \in [Clients -> BoxRates]
      /\ streamRate \in [Clients -> AllRates \ {0}]
  BY DEF Types, TypeOK, BoxRates, AllRates
<1>r. /\ <<Stop>> \in Seq(Requests({Stop}, Clamped(1))) /\ Len(<<Stop>>) <= 2
      /\ <<Start>> \in Seq(Requests({Start}, Clamped(1))) /\ Len(<<Start>>) <= 2
      /\ <<Speed(1), Start>> \in Seq(Requests({Start}, Clamped(1))) /\ Len(<<Speed(1), Start>>) <= 2
      /\ <<Speed(0)>> \in Seq(Requests({Stop}, Clamped(1))) /\ Len(<<Speed(0)>>) <= 2
  BY <1>b, RequestRows
<1>1. CASE selectStream(c)
  BY <1>1 DEF selectStream, Joins, Enters, legacyVars, rateVars, Types, LegacyTypes
<1>2. CASE pausePlayback(c) /\ c \notin legacy
  <2>1. UserSends(c, <<Stop>>) /\ UNCHANGED toClient /\ UNCHANGED spin /\ paused' = [paused EXCEPT ![c] = TRUE]
    BY <1>2 DEF pausePlayback
  <2> QED
    BY <2>1, <1>b, <1>t, <1>r, SentIsAsked
<1>3. CASE normalPlayback(c) \/ forwardToEndOfPlayback(c)
  <2>1. UserSends(c, <<Speed(1), Start>>) /\ UNCHANGED <<paused, spin, toClient>>
    BY <1>3 DEF normalPlayback, forwardToEndOfPlayback
  <2> QED
    BY <2>1, <1>b, <1>t, <1>r, SentIsAsked
<1>4. ASSUME NEW n \in BOOLEAN
      PROVE  LET r == streamRate[c]
                 x == IF (r < 0) = n THEN Abs(2 * r) ELSE Abs(r) IN
             x <= RateBound => (IF n THEN -x ELSE x) \in AllRates \ {0}
  <2>1. streamRate[c] \in Int \ {0} /\ RateBound \in Nat
    BY <1>t, StreamControlAssumption DEF AllRates
  <2> QED
    BY <2>1 DEF Abs, AllRates
<1>5. CASE (reversePlayback(c) \/ forwardPlayback(c)) /\ c \notin legacy
  <2>1. PICK y \in AllRates \ {0} : UserSends(c, <<Speed(y), Start>>) /\ UNCHANGED <<paused, spin, toClient>>
    BY <1>5, <1>4 DEF reversePlayback, forwardPlayback, Turn
  <2>2. <<Speed(y), Start>> \in Seq(Requests({Start}, Clamped(y))) /\ Len(<<Speed(y), Start>>) <= 2
    BY RequestRows
  <2> QED
    BY <2>1, <2>2, <1>b, <1>t, SentIsAsked
<1>6. CASE rewindToStartOfPlayback(c) /\ c \notin legacy
  <2>1. PICK s \in {<<Start>>, <<Speed(1), Start>>} : UserSends(c, s) /\ UNCHANGED <<paused, spin, toClient>>
    BY <1>6 DEF rewindToStartOfPlayback
  <2> QED
    BY <2>1, <1>b, <1>t, <1>r, SentIsAsked
<1>7. CASE playbackSetSpeed(c)
  <2>1. PICK x \in Rates : UserSends(c, <<Speed(x)>>) /\ spin' = [spin EXCEPT ![c] = x] /\ UNCHANGED <<paused, toClient>>
    BY <1>7 DEF playbackSetSpeed
  <2>2. x \in AllRates /\ spin' \in [Clients -> BoxRates]
    BY <2>1, <1>b, <1>t
  <2>3. CASE x = 0
    BY <2>1, <2>2, <2>3, <1>b, <1>t, <1>r, SentIsAsked
  <2>4. CASE x # 0
    <3>1. <<Speed(x)>> \in Seq(Requests({Start}, Clamped(x))) /\ Len(<<Speed(x)>>) <= 2
      BY <2>2, <2>4, RequestRows
    <3> QED
      BY <2>1, <2>2, <3>1, <1>b, <1>t, SentIsAsked
  <2> QED
    BY <2>3, <2>4
<1>8. CASE setStreamPlaybackTimeFromSlider(c)
  <2>1. UserSends(c, <<Start>>) /\ UNCHANGED <<paused, spin>>
    BY <1>8 DEF setStreamPlaybackTimeFromSlider
  <2>2. Quiet
    BY <2>1 DEF UserSends
  <2>3. toClient' = toClient
    BY <1>8, <2>2, NothingIsCut DEF setStreamPlaybackTimeFromSlider
  <2> QED
    BY <2>1, <2>3, <1>b, <1>t, <1>r, SentIsAsked
<1>10. CASE c \in legacy /\ (legacyPause(c) \/ legacyRewind(c) \/ legacyForwardToEnd(c))
  <2>1. PICK s \in {<<>>, <<Start>>, <<Speed(1), Start>>} : Button(c, s)
    BY <1>10 DEF legacyPause, legacyRewind, legacyForwardToEnd
  <2> QED
    BY <2>1, <1>10, <1>b, ButtonIsAsked
<1>11. CASE c \in legacy /\ (legacyTurn(c, TRUE) \/ legacyTurn(c, FALSE))
  <2>1. PICK y \in AllRates \ {0} : Button(c, <<Speed(y), Start>>)
    BY <1>11, <1>4 DEF legacyTurn
  <2> QED
    BY <2>1, <1>11, ButtonIsAsked
<1> QED
  BY <1>1, <1>2, <1>3, <1>5, <1>6, <1>7, <1>8, <1>10, <1>11 DEF UserActs, LegacyUserActs

-----------------------------------------------------------------------------
(***************************************************************************)
(* The steps.                                                              *)
(***************************************************************************)
Answers(c) == c \notin legacy /\ handleStreamRelatedMessage(c) /\ UNCHANGED legacyVars
Reads(c)   == c \in legacy /\ (checkIOFlag(c) \/ changeSpeed(c) \/ ShowRate(c))
Serves(c)  == Serve(c) /\ UNCHANGED legacyVars

(* What may happen when users are patient.                                 *)
LEMMA StepKinds ==
  ASSUME Patient, Types, [LegacyNext]_allVars
  PROVE  \/ \E c \in Clients : Joins(c) \/ Answers(c) \/ Reads(c) \/ Serves(c) \/ \E s : Asks(c, s)
         \/ EndOfRecording /\ UNCHANGED legacyVars
         \/ UNCHANGED allVars
PROOF
<1>1. ASSUME NEW c \in Clients, ControlStep(c)
      PROVE  Joins(c) \/ Answers(c) \/ \E s : Asks(c, s)
  BY <1>1, UsersAskOrJoin DEF ControlStep, Answers
<1>2. ASSUME NEW c \in Clients, LegacyStep(c)
      PROVE  Joins(c) \/ Reads(c) \/ \E s : Asks(c, s)
  <2>1. CASE LegacyUserActs(c)
    <3>1. c \in legacy /\ NoSignals /\ (c \in joined \/ MayJoin(c)) /\ UNCHANGED legacyVars
      BY <1>2, <2>1 DEF LegacyStep, LegacyUserActs
    <3> QED
      BY <3>1, <2>1, UsersAskOrJoin
  <2> QED
    BY <1>2, <2>1 DEF LegacyStep, Reads
<1> QED
  BY <1>1, <1>2 DEF LegacyNext, Serves

\* The messages that are relayed.
Relays == Messages \ {Speed(0)}

(* What a client finds in its queue.                                       *)
LEMMA ReceivedKinds ==
  ASSUME Types, NEW c \in Clients, NEW type, Receive(c, type)
  PROVE  /\ c \in joined /\ toClient[c] \in Seq(Relays) /\ toClient[c] # <<>>
         /\ Head(toClient[c]) \in Relays /\ Head(toClient[c]).type = type
         /\ Tail(toClient[c]) \in Seq(Relays)
         /\ toClient' = [toClient EXCEPT ![c] = Tail(toClient[c])]
         /\ toClient' \in [Clients -> Seq(Relays)]
         /\ UNCHANGED <<playing, rate, relayed, unaware, joined, actions, told>>
         /\ type = "start" => Head(toClient[c]) = Start
         /\ type = "stop" => Head(toClient[c]) = Stop
         /\ type = "speed" => \E x \in AllRates \ {0} : Head(toClient[c]) = Speed(x) /\ Head(toClient[c]).speed = x
PROOF
<1>1. toClient \in [Clients -> Seq(Relays)] /\ (toClient[c] # <<>> => c \in joined)
  BY DEF Types, LegacyTypes, Relays
<1>2. toClient[c] # <<>> /\ Head(toClient[c]).type = type
      /\ toClient' = [toClient EXCEPT ![c] = Tail(toClient[c])]
      /\ UNCHANGED <<playing, rate, relayed, unaware, joined, actions, told>>
  BY DEF Receive, serverVars, rateVars
<1> DEFINE q == toClient[c]
           h == Head(q)
<1>3. q \in Seq(Relays) /\ q # <<>>
  BY <1>1, <1>2
<1>4. h \in Relays /\ Tail(q) \in Seq(Relays)
  <2> HIDE DEF q
  <2> QED
    BY <1>3, HeadTailProperties
<1>5. toClient' \in [Clients -> Seq(Relays)]
  BY <1>1, <1>2, <1>4
<1>6. /\ h.type = "start" => h = Start
      /\ h.type = "stop" => h = Stop
      /\ h.type = "speed" => \E x \in AllRates \ {0} : h = Speed(x) /\ h.speed = x
  <2> HIDE DEF h
  <2>1. h = Start \/ h = Stop \/ \E x \in AllRates : h = Speed(x) /\ x # 0
    BY <1>4, MessageKinds DEF Relays
  <2>2. "start" # "stop" /\ "start" # "speed" /\ "stop" # "speed"
    OBVIOUS
  <2> QED
    BY <2>1, <2>2, MessageKinds
<1> QED
  BY <1>1, <1>2, <1>4, <1>5, <1>6

(* An answer is counted, unless there are too many already.                *)
LEMMA SentKinds ==
  ASSUME Types, NEW c \in Clients, NEW s \in Seq(Messages), Send(c, s)
  PROVE  /\ toServer' = [toServer EXCEPT ![c] = toServer[c] \o s]
         /\ toServer' \in [Clients -> Seq(Messages)]
         /\ requests' \in Nat /\ requests' <= requests + Len(s)
PROOF
<1>1. toServer \in [Clients -> Seq(Messages)] /\ requests \in Nat
  BY DEF Types, TypeOK
<1>2. Len(s) \in Nat
  BY LenProperties
<1>3. toServer' = [toServer EXCEPT ![c] = toServer[c] \o s] /\ (requests' = requests \/ requests' = requests + Len(s))
  BY DEF Send
<1>4. toServer[c] \o s \in Seq(Messages)
  BY <1>1, ConcatProperties
<1>5. toServer' \in [Clients -> Seq(Messages)]
  BY <1>1, <1>3, <1>4
<1>6. requests' \in Nat /\ requests' <= requests + Len(s)
  BY <1>1, <1>2, <1>3
<1> QED
  BY <1>3, <1>5, <1>6

(* What HandleSpeed and ShowRate send.                                     *)
LEMMA EmptyAndOne ==
  ASSUME NEW S
  PROVE  /\ <<>> \in Seq(S) /\ Len(<<>>) = 0
         /\ \A m \in S : <<m>> \in Seq(S) /\ Len(<<m>>) = 1
         /\ \A m : <<>> \o <<>> = <<>> /\ <<m>> \o <<>> = <<m>>
OBVIOUS

(***************************************************************************)
(* What those steps come to.  A client takes h from its queue.             *)
(***************************************************************************)
Takes(c, h) ==
  /\ c \in joined /\ toClient[c] # <<>> /\ h = Head(toClient[c])
  /\ toClient' = [toClient EXCEPT ![c] = Tail(toClient[c])]
  /\ UNCHANGED <<playing, rate, relayed, unaware, joined, actions, told, legacy>>

\* It takes a start or a stop, which only a control answers.
TakesPlay(c, h) ==
  /\ Takes(c, h)
  /\ paused' = [paused EXCEPT ![c] = (h = Stop)]
  /\ UNCHANGED <<streamRate, spin, signals, forward>>
  /\ \/ c \in legacy /\ UNCHANGED <<toServer, requests>>
     \/ c \notin legacy /\ Send(c, IF paused[c] = (h = Stop) THEN <<>> ELSE <<h>>)

\* The box is set to the rate x, and what it signals is sent.
Shown(c, x) ==
  /\ spin' = [spin EXCEPT ![c] = Clamped(x)]
  /\ Send(c, IF spin[c] = Clamped(x) THEN <<>> ELSE <<Speed(Clamped(x))>>)

TakesRate(c, x) ==
  /\ Takes(c, Speed(x))
  /\ streamRate' = [streamRate EXCEPT ![c] = x]
  /\ UNCHANGED paused
  /\ \/ /\ c \notin legacy /\ Shown(c, x)
        /\ UNCHANGED <<signals, forward>>
     \/ /\ c \in legacy
        /\ signals' = [signals EXCEPT ![c] = Append(signals[c], x)]
        /\ \/ forward' = [forward EXCEPT ![c] = x > 0]
           \/ (streamRate[c] > 0) = (x > 0) /\ UNCHANGED forward
        /\ UNCHANGED <<spin, toServer, requests>>

ShowsRate(c, x) ==
  /\ c \in legacy /\ c \in joined /\ signals[c] # <<>> /\ x = Head(signals[c])
  /\ signals' = [signals EXCEPT ![c] = Tail(signals[c])]
  /\ Shown(c, x)
  /\ UNCHANGED <<playing, rate, relayed, unaware, joined, paused, streamRate, toClient, actions, told, legacy, forward>>

\* The server relays the request h of c.
ServesRequest(c, h) ==
  /\ toServer[c] # <<>> /\ h = Head(toServer[c])
  /\ toServer' = [toServer EXCEPT ![c] = Tail(toServer[c])]
  /\ toClient' = [d \in Clients |-> IF d \in joined THEN Append(toClient[d], Relayed(h)) ELSE toClient[d]]
  /\ UNCHANGED <<joined, paused, streamRate, spin, actions, requests, legacy, signals, forward>>
  /\ \/ /\ IsPlay(h) /\ playing' = (Relayed(h) = Start) /\ UNCHANGED <<rate, relayed, unaware>> /\ told' = joined
     \/ /\ ~ IsPlay(h) /\ playing' = playing /\ rate' = h.speed /\ relayed' = h.speed /\ unaware' = {} /\ told' = told

\* The engine sets its own rate, and nobody is told.
EndsRecording ==
  /\ rate > 0 /\ rate # 1
  /\ rate' = 1 /\ unaware' = joined
  /\ UNCHANGED <<playing, joined, paused, streamRate, spin, toServer, toClient>>
  /\ UNCHANGED <<actions, told, requests, relayed, legacy, signals, forward>>

Moves(c) ==
  \/ Joins(c)
  \/ \E s : Asks(c, s)
  \/ \E h \in {Start, Stop} : TakesPlay(c, h)
  \/ \E x \in AllRates \ {0} : TakesRate(c, x) \/ ShowsRate(c, x)
  \/ \E h \in Messages : ServesRequest(c, h)

(* A control answers a start or a stop.                                    *)
LEMMA ControlTakesPlay ==
  ASSUME Types, NEW c \in Clients, c \notin legacy, HandleStart(c) \/ HandleStop(c), UNCHANGED legacyVars
  PROVE  \E h \in {Start, Stop} : TakesPlay(c, h)
PROOF
<1>t. paused[c] \in BOOLEAN
  BY DEF Types, TypeOK
<1>k. Start # Stop
  BY MessageKinds
<1>1. CASE HandleStart(c)
  <2>1. Takes(c, Start)
    BY <1>1, ReceivedKinds DEF HandleStart, Takes, legacyVars
  <2>2. /\ paused' = [paused EXCEPT ![c] = (Start = Stop)]
        /\ Send(c, IF paused[c] = (Start = Stop) THEN <<>> ELSE <<Start>>)
    <3>1. (Start = Stop) = FALSE /\ (paused[c] = FALSE <=> ~ paused[c])
      BY <1>t, <1>k
    <3> QED
      BY <1>1, <1>t, <3>1 DEF HandleStart
  <2> QED
    BY <2>1, <2>2, <1>1 DEF TakesPlay, HandleStart, legacyVars
<1>2. CASE HandleStop(c)
  <2>1. Takes(c, Stop)
    BY <1>2, ReceivedKinds DEF HandleStop, Takes, legacyVars
  <2>2. /\ paused' = [paused EXCEPT ![c] = (Stop = Stop)]
        /\ Send(c, IF paused[c] = (Stop = Stop) THEN <<>> ELSE <<Stop>>)
    <3>1. (Stop = Stop) = TRUE /\ (paused[c] = TRUE <=> paused[c])
      BY <1>t
    <3> QED
      BY <1>2, <1>t, <3>1 DEF HandleStop
  <2> QED
    BY <2>1, <2>2, <1>2 DEF TakesPlay, HandleStop, legacyVars
<1> QED
  BY <1>1, <1>2

(* A control shows a rate.                                                 *)
LEMMA ControlTakesRate ==
  ASSUME Types, NEW c \in Clients, c \notin legacy, HandleSpeed(c), UNCHANGED legacyVars
  PROVE  \E x \in AllRates \ {0} : TakesRate(c, x)
PROOF
<1>1. Receive(c, "speed")
  BY DEF HandleSpeed
<1>2. PICK x \in AllRates \ {0} : Head(toClient[c]) = Speed(x) /\ Head(toClient[c]).speed = x
  BY <1>1, ReceivedKinds
<1>3. Takes(c, Speed(x))
  BY <1>1, <1>2, ReceivedKinds DEF Takes, legacyVars
<1>4. /\ streamRate' = [streamRate EXCEPT ![c] = x]
      /\ spin' = [spin EXCEPT ![c] = Clamped(x)]
      /\ paused' = [paused EXCEPT ![c] = paused[c] \/ x = 0]
      /\ Send(c, (IF spin[c] = Clamped(x) THEN <<>> ELSE <<Speed(Clamped(x))>>)
                 \o (IF x = 0 THEN <<Stop>> ELSE <<>>))
  BY <1>2 DEF HandleSpeed
<1>5. paused' = paused
  <2>1. x # 0 /\ paused \in [Clients -> BOOLEAN]
    BY DEF Types, TypeOK
  <2>2. (paused[c] \/ x = 0) = paused[c]
    BY <2>1
  <2>3. paused' = [paused EXCEPT ![c] = paused[c]]
    BY <1>4, <2>2
  <2> QED
    BY <2>1, <2>3
<1>6. Send(c, IF spin[c] = Clamped(x) THEN <<>> ELSE <<Speed(Clamped(x))>>)
  <2>1. x # 0
    OBVIOUS
  <2>2. CASE spin[c] = Clamped(x)
    BY <2>1, <2>2, <1>4, EmptyAndOne
  <2>3. CASE spin[c] # Clamped(x)
    BY <2>1, <2>3, <1>4, EmptyAndOne
  <2> QED
    BY <2>2, <2>3
<1> QED
  BY <1>3, <1>4, <1>5, <1>6 DEF TakesRate, Shown, legacyVars

(* A legacy watcher takes a start or a stop.                               *)
LEMMA LegacyTakesPlay ==
  ASSUME Types, NEW c \in Clients, c \in legacy, checkIOFlag(c)
  PROVE  \E h \in {Start, Stop} : TakesPlay(c, h)
PROOF
<1>1. PICK type \in {"start", "stop"} :
        /\ Receive(c, type)
        /\ paused' = [paused EXCEPT ![c] = (type = "stop")]
        /\ UNCHANGED <<streamRate, spin, toServer, requests, legacyVars>>
  BY DEF checkIOFlag
<1>2. Start # Stop /\ "start" # "stop"
  BY MessageKinds
<1>3. CASE type = "start"
  <2>1. Takes(c, Start)
    BY <1>1, <1>3, ReceivedKinds DEF Takes, legacyVars
  <2>2. paused' = [paused EXCEPT ![c] = (Start = Stop)]
    BY <1>1, <1>2, <1>3
  <2> QED
    BY <1>1, <2>1, <2>2 DEF TakesPlay, legacyVars
<1>4. CASE type = "stop"
  <2>1. Takes(c, Stop)
    BY <1>1, <1>4, ReceivedKinds DEF Takes, legacyVars
  <2>2. paused' = [paused EXCEPT ![c] = (Stop = Stop)]
    BY <1>1, <1>4
  <2> QED
    BY <1>1, <2>1, <2>2 DEF TakesPlay, legacyVars
<1> QED
  BY <1>3, <1>4

(* A legacy watcher takes a rate, and turns its graph.                     *)
LEMMA LegacyTakesRate ==
  ASSUME Types, NEW c \in Clients, c \in legacy, changeSpeed(c)
  PROVE  \E x \in AllRates \ {0} : TakesRate(c, x)
PROOF
<1>1. Receive(c, "speed")
  BY DEF changeSpeed
<1>2. PICK x \in AllRates \ {0} : Head(toClient[c]) = Speed(x) /\ Head(toClient[c]).speed = x
  BY <1>1, ReceivedKinds
<1>3. Takes(c, Speed(x))
  BY <1>1, <1>2, ReceivedKinds DEF Takes, changeSpeed
<1> DEFINE turns == (streamRate[c] > 0 /\ x < 0) \/ (streamRate[c] < 0 /\ x > 0)
<1>4. /\ streamRate' = [streamRate EXCEPT ![c] = x]
      /\ forward' = [forward EXCEPT ![c] = IF turns THEN x > 0 ELSE forward[c]]
      /\ signals' = [signals EXCEPT ![c] = Append(signals[c], x)]
      /\ UNCHANGED <<paused, spin, toServer, requests, legacy>>
  BY <1>2 DEF changeSpeed
<1>5. \/ forward' = [forward EXCEPT ![c] = x > 0]
      \/ (streamRate[c] > 0) = (x > 0) /\ UNCHANGED forward
  <2>1. streamRate[c] \in Int \ {0} /\ x \in Int \ {0} /\ forward \in [Clients -> BOOLEAN]
    BY ClampedFacts DEF Types, TypeOK, LegacyTypes, AllRates
  <2>2. CASE turns
    BY <2>2, <1>4
  <2>3. CASE ~ turns
    <3>1. (streamRate[c] > 0) = (x > 0)
      BY <2>1, <2>3
    <3>2. forward' = [forward EXCEPT ![c] = forward[c]]
      BY <1>4, <2>3
    <3> QED
      BY <2>1, <3>1, <3>2
  <2> QED
    BY <2>2, <2>3
<1> QED
  BY <1>3, <1>4, <1>5 DEF TakesRate

(* The windows of a legacy watcher show a rate.                            *)
LEMMA LegacyShowsRate ==
  ASSUME Types, NEW c \in Clients, c \in legacy, ShowRate(c)
  PROVE  \E x \in AllRates \ {0} : ShowsRate(c, x)
PROOF
<1> DEFINE x == Head(signals[c])
<1>1. signals[c] # <<>> /\ signals[c] \in Seq(AllRates \ {0}) /\ c \in joined
  BY DEF ShowRate, Types, LegacyTypes
<1>2. x \in AllRates \ {0}
  BY <1>1, HeadTailProperties
<1>3. Shown(c, x)
  BY DEF ShowRate, Shown
<1>4. ShowsRate(c, x)
  BY <1>1, <1>3 DEF ShowRate, ShowsRate, serverVars, rateVars
<1> QED
  BY <1>2, <1>4

(* The server serves a request.                                            *)
LEMMA ServerServes ==
  ASSUME Types, NEW c \in Clients, Serves(c)
  PROVE  \E h \in Messages : ServesRequest(c, h)
PROOF
<1> DEFINE h == Head(toServer[c])
           m == Relayed(h)
<1>1. toServer[c] # <<>> /\ toServer[c] \in Seq(Messages)
  BY DEF Serves, Serve, Types, TypeOK
<1>2. h \in Messages
  BY <1>1, HeadTailProperties
<1>3. /\ toServer' = [toServer EXCEPT ![c] = Tail(toServer[c])]
      /\ toClient' = [d \in Clients |-> IF d \in joined THEN Append(toClient[d], m) ELSE toClient[d]]
      /\ playing' = (m.type = "start" \/ (m.type = "speed" /\ playing))
      /\ IF m.type = "speed"
           THEN rate' = m.speed /\ relayed' = m.speed /\ unaware' = {} /\ told' = told
           ELSE told' = joined /\ UNCHANGED <<rate, relayed, unaware>>
      /\ UNCHANGED <<joined, paused, streamRate, spin, actions, requests, legacy, signals, forward>>
  BY DEF Serves, Serve, controlVars, legacyVars, rateVars
<1> HIDE DEF h
<1>4. playing \in BOOLEAN
  BY DEF Types, TypeOK
<1>5. CASE IsPlay(h)
  <2>1. (m = Start \/ m = Stop) /\ m.type # "speed" /\ (m.type = "start" <=> m = Start)
    <3>1. m = Start \/ m = Stop
      BY <1>2, <1>5, RelayedKinds
    <3> HIDE DEF m
    <3> QED
      BY <3>1, MessageKinds
  <2>2. playing' = (m = Start) /\ UNCHANGED <<rate, relayed, unaware>> /\ told' = joined
    BY <1>3, <2>1
  <2> QED
    BY <1>1, <1>2, <1>3, <1>5, <2>2 DEF ServesRequest, h
<1>6. CASE ~ IsPlay(h)
  <2>1. m = h /\ m.type = "speed"
    BY <1>2, <1>6, RelayedKinds, MessageKinds
  <2>2. playing' = playing /\ rate' = h.speed /\ relayed' = h.speed /\ unaware' = {} /\ told' = told
    BY <1>3, <1>4, <2>1
  <2> QED
    BY <1>1, <1>2, <1>3, <1>6, <2>2 DEF ServesRequest, h
<1> QED
  BY <1>5, <1>6

(* What clients and the server do with messages.                           *)
LEMMA AnswersMove ==
  ASSUME Types, NEW c \in Clients, Answers(c) \/ Reads(c) \/ Serves(c)
  PROVE  Moves(c)
PROOF
<1>1. ASSUME Answers(c)
      PROVE  Moves(c)
  BY <1>1, ControlTakesPlay, ControlTakesRate DEF Answers, handleStreamRelatedMessage, Moves
<1>2. ASSUME Reads(c)
      PROVE  Moves(c)
  BY <1>2, LegacyTakesPlay, LegacyTakesRate, LegacyShowsRate DEF Reads, Moves
<1>3. ASSUME Serves(c)
      PROVE  Moves(c)
  BY <1>3, ServerServes DEF Moves
<1> QED
  BY <1>1, <1>2, <1>3

(* The recording ends.                                                     *)
LEMMA RecordingEnds ==
  ASSUME EndOfRecording, UNCHANGED legacyVars
  PROVE  EndsRecording
BY DEF EndOfRecording, EndsRecording, legacyVars, controlVars, history

(* Every step is one of those, when users are patient.                     *)
LEMMA StepsMove ==
  ASSUME Patient, Types, [LegacyNext]_allVars
  PROVE  (\E c \in Clients : Moves(c)) \/ EndsRecording \/ UNCHANGED allVars
BY AnswersMove, StepKinds, RecordingEnds DEF Moves

-----------------------------------------------------------------------------
(***************************************************************************)
(* Types is an invariant.                                                  *)
(***************************************************************************)
(* The parts of Types, in the names of this module.                        *)
LEMMA TypesParts ==
  Types <=>
    /\ playing \in BOOLEAN /\ rate \in AllRates \ {0} /\ joined \subseteq Clients
    /\ paused \in [Clients -> BOOLEAN] /\ streamRate \in [Clients -> AllRates \ {0}]
    /\ spin \in [Clients -> BoxRates] /\ toServer \in [Clients -> Seq(Messages)]
    /\ toClient \in [Clients -> Seq(Relays)] /\ actions \in Nat /\ told \subseteq joined
    /\ requests \in Nat /\ relayed \in AllRates \ {0} /\ unaware \subseteq joined
    /\ legacy \subseteq Clients /\ forward \in [Clients -> BOOLEAN]
    /\ signals \in [Clients -> Seq(AllRates \ {0})]
    /\ \A c \in Clients : toClient[c] # <<>> \/ signals[c] # <<>> => c \in joined
PROOF
<1>1. ASSUME toClient \in [Clients -> Seq(Relays)]
      PROVE  toClient \in [Clients -> Seq(Messages)]
  <2>1. Seq(Relays) \subseteq Seq(Messages)
    BY DEF Relays
  <2> QED
    BY <1>1, <2>1
<1> QED
  BY <1>1 DEF Types, TypeOK, LegacyTypes, AllRates, BoxRates, Relays

(* The same of the next state.                                             *)
LEMMA TypesPartsNext ==
  Types' <=> (
    /\ playing \in BOOLEAN /\ rate \in AllRates \ {0} /\ joined \subseteq Clients
    /\ paused \in [Clients -> BOOLEAN] /\ streamRate \in [Clients -> AllRates \ {0}]
    /\ spin \in [Clients -> BoxRates] /\ toServer \in [Clients -> Seq(Messages)]
    /\ toClient \in [Clients -> Seq(Relays)] /\ actions \in Nat /\ told \subseteq joined
    /\ requests \in Nat /\ relayed \in AllRates \ {0} /\ unaware \subseteq joined
    /\ legacy \subseteq Clients /\ forward \in [Clients -> BOOLEAN]
    /\ signals \in [Clients -> Seq(AllRates \ {0})]
    /\ \A c \in Clients : toClient[c] # <<>> \/ signals[c] # <<>> => c \in joined)'
PROOF
<1>1. ASSUME toClient' \in [Clients -> Seq(Relays)]
      PROVE  toClient' \in [Clients -> Seq(Messages)]
  <2>1. Seq(Relays) \subseteq Seq(Messages)
    BY DEF Relays
  <2> QED
    BY <1>1, <2>1
<1> QED
  BY <1>1 DEF Types, TypeOK, LegacyTypes, AllRates, BoxRates, Relays

(* Nothing changes.                                                        *)
LEMMA StutterTypes ==
  ASSUME Types, UNCHANGED allVars
  PROVE  Types'
PROOF
<1>1. UNCHANGED <<playing, rate, relayed, unaware, joined, paused, streamRate, spin, toServer>>
  BY DEF allVars, vars, legacyVars, serverVars, rateVars, controlVars, history
<1>2. UNCHANGED <<toClient, actions, told, requests, relayed, unaware, legacy, signals, forward>>
  BY DEF allVars, vars, legacyVars, serverVars, rateVars, controlVars, history
<1>3. /\ playing \in BOOLEAN /\ rate \in AllRates \ {0} /\ joined \subseteq Clients
      /\ paused \in [Clients -> BOOLEAN] /\ streamRate \in [Clients -> AllRates \ {0}]
      /\ spin \in [Clients -> BoxRates] /\ toServer \in [Clients -> Seq(Messages)]
  BY TypesParts
<1>4. /\ toClient \in [Clients -> Seq(Relays)] /\ actions \in Nat /\ told \subseteq joined
      /\ requests \in Nat /\ relayed \in AllRates \ {0} /\ unaware \subseteq joined
    /\ legacy \subseteq Clients /\ forward \in [Clients -> BOOLEAN]
      /\ signals \in [Clients -> Seq(AllRates \ {0})]
      /\ \A c \in Clients : toClient[c] # <<>> \/ signals[c] # <<>> => c \in joined
  BY TypesParts
<1>5. (/\ playing \in BOOLEAN /\ rate \in AllRates \ {0} /\ joined \subseteq Clients
       /\ paused \in [Clients -> BOOLEAN] /\ streamRate \in [Clients -> AllRates \ {0}]
       /\ spin \in [Clients -> BoxRates] /\ toServer \in [Clients -> Seq(Messages)])'
  BY <1>1, <1>3
<1>6. (/\ toClient \in [Clients -> Seq(Relays)] /\ actions \in Nat /\ told \subseteq joined
       /\ requests \in Nat /\ relayed \in AllRates \ {0} /\ unaware \subseteq joined
    /\ legacy \subseteq Clients /\ forward \in [Clients -> BOOLEAN]
       /\ signals \in [Clients -> Seq(AllRates \ {0})]
       /\ \A c \in Clients : toClient[c] # <<>> \/ signals[c] # <<>> => c \in joined)'
  BY <1>1, <1>2, <1>4
<1> QED
  BY <1>5, <1>6, TypesPartsNext

(* A user asks.                                                            *)
LEMMA AsksTypes ==
  ASSUME Types, NEW c \in Clients, NEW s, Asks(c, s)
  PROVE  Types'
PROOF
<1>1. s \in Seq(Messages) /\ Len(s) \in Nat
  <2>1. PICK K, x : s \in Seq(Requests(K, x))
    BY DEF Asks
  <2>2. Seq(Requests(K, x)) \subseteq Seq(Messages)
    BY DEF Requests
  <2>3. s \in Seq(Messages)
    BY <2>1, <2>2
  <2> QED
    BY <2>3, LenProperties
<1>2. toServer \in [Clients -> Seq(Messages)]
  BY TypesParts
<1>3. toServer[c] \o s \in Seq(Messages)
  BY <1>1, <1>2, ConcatProperties
<1>4. toServer' \in [Clients -> Seq(Messages)]
  BY <1>2, <1>3 DEF Asks
<1>5. paused' \in [Clients -> BOOLEAN]
  BY TypesParts DEF Asks
<1> QED
  BY <1>1, <1>4, <1>5, TypesParts, TypesPartsNext DEF Asks

(* A client joins.                                                         *)
LEMMA EntersTypes ==
  ASSUME Types, NEW c \in Clients, Enters(c)
  PROVE  Types'
PROOF
<1>1. /\ playing \in BOOLEAN /\ rate \in AllRates \ {0} /\ joined \subseteq Clients
      /\ toClient \in [Clients -> Seq(Relays)] /\ told \subseteq joined
      /\ \A d \in Clients : toClient[d] # <<>> \/ signals[d] # <<>> => d \in joined
  BY TypesParts
<1>2. Speed(rate) \in Relays
  BY <1>1, MessageKinds DEF Relays
<1>3. Append(toClient[c], Speed(rate)) \in Seq(Relays)
  BY <1>1, <1>2, AppendProperties
<1>4. toClient' \in [Clients -> Seq(Relays)] /\ joined' \subseteq Clients /\ told' \subseteq joined'
  BY <1>1, <1>3 DEF Enters
<1>5. \A d \in Clients : toClient'[d] # <<>> \/ signals'[d] # <<>> => d \in joined'
  BY <1>1 DEF Enters
<1> QED
  BY <1>4, <1>5, TypesParts, TypesPartsNext DEF Enters, controlVars

(* A user of a client sends requests, and may lose the oldest messages.    *)
LEMMA SendsTypes ==
  ASSUME Types, NEW c \in Clients, NEW s \in Seq(Messages), UserSends(c, s), UNCHANGED legacyVars,
         paused' \in [Clients -> BOOLEAN], spin' \in [Clients -> BoxRates],
         NEW k \in 1 .. Len(toClient[c]) + 1,
         toClient' = toClient \/ toClient' = [toClient EXCEPT ![c] = SubSeq(@, k, Len(@))]
  PROVE  Types'
PROOF
<1>1. /\ toServer \in [Clients -> Seq(Messages)] /\ toClient \in [Clients -> Seq(Relays)]
      /\ \A d \in Clients : toClient[d] # <<>> \/ signals[d] # <<>> => d \in joined
  BY TypesParts
<1>2. /\ c \in joined /\ toServer' = [toServer EXCEPT ![c] = @ \o s] /\ requests' = Len(s)
      /\ UNCHANGED <<playing, rate, relayed, unaware, joined, streamRate, told, legacy, signals, forward>>
      /\ actions' = (IF MaxActions = 0 THEN 0 ELSE actions + 1)
  BY DEF UserSends, serverVars, rateVars, legacyVars
<1>3. toServer' \in [Clients -> Seq(Messages)] /\ requests' \in Nat
  <2>1. toServer[c] \o s \in Seq(Messages)
    BY <1>1, ConcatProperties
  <2>2. Len(s) \in Nat
    BY LenProperties
  <2> QED
    BY <1>1, <1>2, <2>1, <2>2
<1>4. toClient' \in [Clients -> Seq(Relays)]
  <2>1. CASE toClient' = toClient
    BY <1>1, <2>1
  <2>2. CASE toClient' = [toClient EXCEPT ![c] = SubSeq(@, k, Len(@))]
    <3>1. toClient[c] \in Seq(Relays) /\ Len(toClient[c]) \in Nat
      BY <1>1, LenProperties
    <3>2. \A i \in k .. Len(toClient[c]) : i \in 1 .. Len(toClient[c])
      BY <3>1
    <3>3. \A i \in k .. Len(toClient[c]) : toClient[c][i] \in Relays
      BY <3>1, <3>2, ElementOfSeq
    <3>4. SubSeq(toClient[c], k, Len(toClient[c])) \in Seq(Relays)
      BY <3>1, <3>3, SubSeqProperties
    <3> QED
      BY <1>1, <2>2, <3>4
  <2> QED
    BY <2>1, <2>2
<1>5. \A d \in Clients : toClient'[d] # <<>> \/ signals'[d] # <<>> => d \in joined'
  <2> SUFFICES ASSUME NEW d \in Clients, d # c
               PROVE  toClient'[d] # <<>> \/ signals'[d] # <<>> => d \in joined'
    BY <1>2
  <2>1. toClient'[d] = toClient[d]
    BY <1>1
  <2> QED
    BY <1>1, <1>2, <2>1
<1>6. actions' \in Nat
  BY <1>2, TypesParts
<1>7. /\ playing \in BOOLEAN /\ rate \in AllRates \ {0} /\ joined \subseteq Clients
      /\ streamRate \in [Clients -> AllRates \ {0}] /\ told \subseteq joined
      /\ legacy \subseteq Clients /\ forward \in [Clients -> BOOLEAN]
      /\ signals \in [Clients -> Seq(AllRates \ {0})]
      /\ relayed \in AllRates \ {0} /\ unaware \subseteq joined
  BY TypesParts
<1> QED
  BY <1>2, <1>3, <1>4, <1>5, <1>6, <1>7, TypesPartsNext

(* What users do, patient or not.                                          *)
LEMMA UsersTypes ==
  ASSUME Types, NEW c \in Clients, UNCHANGED legacyVars, UserActs(c) \/ LegacyUserActs(c)
  PROVE  Types'
PROOF
<1>b. 1 \in AllRates \ {0} /\ 0 \in AllRates /\ BoxRates \subseteq AllRates /\ Rates \subseteq BoxRates
  BY ClampedFacts, StreamControlAssumption DEF BoxRates, AllRates
<1>t. paused \in [Clients -> BOOLEAN] /\ spin \in [Clients -> BoxRates]
      /\ streamRate \in [Clients -> AllRates \ {0}]
  BY TypesParts
<1>l. 1 \in 1 .. Len(toClient[c]) + 1
  <2>1. Len(toClient[c]) \in Nat
    BY TypesParts, LenProperties
  <2> QED
    BY <2>1
<1>s. ASSUME NEW x \in AllRates
      PROVE  /\ <<Stop>> \in Seq(Messages) /\ <<Start>> \in Seq(Messages) /\ <<>> \in Seq(Messages)
             /\ <<Speed(x), Start>> \in Seq(Messages) /\ <<Speed(x)>> \in Seq(Messages)
  BY MessageKinds
<1>1. ASSUME NEW s \in Seq(Messages), UserSends(c, s), UNCHANGED toClient,
             paused' \in [Clients -> BOOLEAN], spin' \in [Clients -> BoxRates]
      PROVE  Types'
  BY <1>1, <1>l, SendsTypes
<1>2. ASSUME NEW s \in Seq(Messages), Button(c, s)
      PROVE  Types'
  <2>1. <<PauseRequest(c)>> \o s \in Seq(Messages)
    <3>1. PauseRequest(c) \in Messages
      BY MessageKinds DEF PauseRequest
    <3>2. <<PauseRequest(c)>> \in Seq(Messages)
      BY <3>1
    <3> QED
      BY <3>2, ConcatProperties
  <2> DEFINE q == <<PauseRequest(c)>> \o s
  <2>2. UserSends(c, q) /\ UNCHANGED <<paused, spin, toClient>>
    BY <1>2 DEF Button
  <2> HIDE DEF q
  <2>3. q \in Seq(Messages)
    BY <2>1 DEF q
  <2> QED
    BY <1>1, <1>t, <2>2, <2>3
<1>3. ASSUME NEW n \in BOOLEAN
      PROVE  LET r == streamRate[c]
                 x == IF (r < 0) = n THEN Abs(2 * r) ELSE Abs(r) IN
             x <= RateBound => (IF n THEN -x ELSE x) \in AllRates
  <2>1. streamRate[c] \in Int \ {0} /\ RateBound \in Nat
    BY <1>t, StreamControlAssumption DEF AllRates
  <2> QED
    BY <2>1 DEF Abs, AllRates
<1>4. CASE selectStream(c)
  <2>1. Enters(c)
    BY <1>4 DEF selectStream, Enters, legacyVars, rateVars
  <2> QED
    BY <2>1, EntersTypes
<1>5. CASE pausePlayback(c)
  <2>1. UserSends(c, <<Stop>>) /\ UNCHANGED toClient /\ UNCHANGED spin /\ paused' = [paused EXCEPT ![c] = TRUE]
    BY <1>5 DEF pausePlayback
  <2>2. paused' \in [Clients -> BOOLEAN] /\ spin' \in [Clients -> BoxRates]
    BY <2>1, <1>t
  <2> QED
    BY <2>1, <2>2, <1>1, <1>s, <1>b
<1>6. CASE normalPlayback(c) \/ forwardToEndOfPlayback(c)
  <2>1. UserSends(c, <<Speed(1), Start>>) /\ UNCHANGED <<paused, spin, toClient>>
    BY <1>6 DEF normalPlayback, forwardToEndOfPlayback
  <2> QED
    BY <2>1, <1>1, <1>b, <1>t, <1>s
<1>7. CASE reversePlayback(c) \/ forwardPlayback(c)
  <2>1. PICK y \in AllRates : UserSends(c, <<Speed(y), Start>>) /\ UNCHANGED <<paused, spin, toClient>>
    BY <1>7, <1>3 DEF reversePlayback, forwardPlayback, Turn
  <2> QED
    BY <2>1, <1>1, <1>t, <1>s
<1>8. CASE rewindToStartOfPlayback(c)
  <2>1. PICK s \in {<<Start>>, <<Speed(1), Start>>} : UserSends(c, s) /\ UNCHANGED <<paused, spin, toClient>>
    BY <1>8 DEF rewindToStartOfPlayback
  <2> QED
    BY <2>1, <1>1, <1>b, <1>t, <1>s
<1>9. CASE playbackSetSpeed(c)
  <2>1. PICK x \in Rates : UserSends(c, <<Speed(x)>>) /\ spin' = [spin EXCEPT ![c] = x] /\ UNCHANGED <<paused, toClient>>
    BY <1>9 DEF playbackSetSpeed
  <2>2. x \in AllRates /\ spin' \in [Clients -> BoxRates]
    BY <2>1, <1>b, <1>t
  <2> QED
    BY <2>1, <2>2, <1>1, <1>t, <1>s
<1>10. CASE setStreamPlaybackTimeFromSlider(c)
  <2>1. UserSends(c, <<Start>>) /\ UNCHANGED <<paused, spin>>
    BY <1>10 DEF setStreamPlaybackTimeFromSlider
  <2>2. PICK k \in 1 .. Len(toClient[c]) + 1 : toClient' = [toClient EXCEPT ![c] = SubSeq(@, k, Len(@))]
    BY <1>10 DEF setStreamPlaybackTimeFromSlider
  <2>3. <<Start>> \in Seq(Messages)
    BY <1>b, <1>s
  <2>4. paused' \in [Clients -> BOOLEAN] /\ spin' \in [Clients -> BoxRates]
    BY <2>1, <1>t
  <2> QED
    BY <2>1, <2>2, <2>3, <2>4, SendsTypes
<1>11. CASE legacyPause(c) \/ legacyRewind(c) \/ legacyForwardToEnd(c)
  <2>1. PICK s \in {<<>>, <<Start>>, <<Speed(1), Start>>} : Button(c, s)
    BY <1>11 DEF legacyPause, legacyRewind, legacyForwardToEnd
  <2> QED
    BY <2>1, <1>2, <1>b, <1>s
<1>12. CASE legacyTurn(c, TRUE) \/ legacyTurn(c, FALSE)
  <2>1. PICK y \in AllRates : Button(c, <<Speed(y), Start>>)
    BY <1>12, <1>3 DEF legacyTurn
  <2> QED
    BY <2>1, <1>2, <1>s
<1> QED
  BY <1>4, <1>5, <1>6, <1>7, <1>8, <1>9, <1>10, <1>11, <1>12 DEF UserActs, LegacyUserActs

(* A client takes a message.                                               *)
LEMMA TakesTypes ==
  ASSUME Types, NEW c \in Clients, NEW h, Takes(c, h)
  PROVE  /\ h \in Relays /\ toClient' \in [Clients -> Seq(Relays)]
         /\ \A d \in Clients : toClient'[d] # <<>> => d \in joined'
PROOF
<1>1. toClient \in [Clients -> Seq(Relays)] /\ toClient[c] # <<>> /\ c \in joined
      /\ \A d \in Clients : toClient[d] # <<>> => d \in joined
  BY TypesParts DEF Takes
<1>2. Head(toClient[c]) \in Relays /\ Tail(toClient[c]) \in Seq(Relays)
  BY <1>1, HeadTailProperties
<1> QED
  BY <1>1, <1>2 DEF Takes

LEMMA TakesPlayTypes ==
  ASSUME Types, NEW c \in Clients, NEW h \in {Start, Stop}, TakesPlay(c, h)
  PROVE  Types'
PROOF
<1>1. Takes(c, h)
  BY DEF TakesPlay
<1>2. /\ toClient' \in [Clients -> Seq(Relays)]
      /\ \A d \in Clients : toClient'[d] # <<>> => d \in joined'
  BY <1>1, TakesTypes
<1>3. toServer' \in [Clients -> Seq(Messages)] /\ requests' \in Nat
  <2>1. CASE c \in legacy
    BY <2>1, TypesParts DEF TakesPlay
  <2>2. CASE c \notin legacy
    <3>1. <<>> \in Seq(Messages) /\ <<h>> \in Seq(Messages)
      BY MessageKinds
    <3>2. PICK s \in Seq(Messages) : Send(c, s)
      BY <2>2, <3>1 DEF TakesPlay
    <3> QED
      BY <3>2, SentKinds
  <2> QED
    BY <2>1, <2>2
<1>4. paused' \in [Clients -> BOOLEAN]
  BY TypesParts DEF TakesPlay
<1>5. \A d \in Clients : toClient'[d] # <<>> \/ signals'[d] # <<>> => d \in joined'
  BY <1>1, <1>2, TypesParts DEF TakesPlay, Takes
<1> QED
  BY <1>1, <1>2, <1>3, <1>4, <1>5, TypesParts, TypesPartsNext DEF TakesPlay, Takes

(* A box is set.                                                           *)
LEMMA ShownTypes ==
  ASSUME Types, NEW c \in Clients, NEW x \in AllRates \ {0}, Shown(c, x)
  PROVE  spin' \in [Clients -> BoxRates] /\ toServer' \in [Clients -> Seq(Messages)] /\ requests' \in Nat
PROOF
<1>1. x \in Int /\ Clamped(x) \in BoxRates /\ Clamped(x) \in AllRates
  BY ClampedFacts
<1>2. <<>> \in Seq(Messages) /\ <<Speed(Clamped(x))>> \in Seq(Messages)
  BY <1>1, MessageKinds, EmptyAndOne
<1>3. PICK s \in Seq(Messages) : Send(c, s)
  BY <1>2 DEF Shown
<1>4. spin' \in [Clients -> BoxRates]
  BY <1>1, TypesParts DEF Shown
<1> QED
  BY <1>3, <1>4, SentKinds

LEMMA TakesRateTypes ==
  ASSUME Types, NEW c \in Clients, NEW x \in AllRates \ {0}, TakesRate(c, x)
  PROVE  Types'
PROOF
<1>1. Takes(c, Speed(x)) /\ c \in joined
  BY DEF TakesRate, Takes
<1>2. /\ toClient' \in [Clients -> Seq(Relays)]
      /\ \A d \in Clients : toClient'[d] # <<>> => d \in joined'
  BY <1>1, TakesTypes
<1>3. spin' \in [Clients -> BoxRates] /\ toServer' \in [Clients -> Seq(Messages)] /\ requests' \in Nat
  BY ShownTypes, TypesParts DEF TakesRate
<1>4. streamRate' \in [Clients -> AllRates \ {0}]
  BY TypesParts DEF TakesRate
<1>5. /\ signals' \in [Clients -> Seq(AllRates \ {0})] /\ forward' \in [Clients -> BOOLEAN]
      /\ \A d \in Clients : signals'[d] # <<>> => d \in joined'
  <2>1. /\ signals \in [Clients -> Seq(AllRates \ {0})] /\ forward \in [Clients -> BOOLEAN]
        /\ \A d \in Clients : signals[d] # <<>> => d \in joined
    BY TypesParts
  <2>2. Append(signals[c], x) \in Seq(AllRates \ {0})
    BY <2>1, AppendProperties
  <2>3. (x > 0) \in BOOLEAN /\ UNCHANGED joined
    BY <1>1 DEF Takes
  <2>4. CASE c \notin legacy
    BY <2>1, <2>3, <2>4 DEF TakesRate
  <2>5. CASE c \in legacy
    <3>1. signals' = [signals EXCEPT ![c] = Append(signals[c], x)]
          /\ (forward' = [forward EXCEPT ![c] = x > 0] \/ forward' = forward)
      BY <2>5 DEF TakesRate
    <3>2. forward' \in [Clients -> BOOLEAN]
      BY <2>1, <2>3, <3>1
    <3> QED
      BY <2>1, <2>2, <2>3, <3>1, <3>2, <1>1
  <2> QED
    BY <2>4, <2>5
<1> QED
  BY <1>1, <1>2, <1>3, <1>4, <1>5, TypesParts, TypesPartsNext DEF TakesRate, Takes

LEMMA ShowsRateTypes ==
  ASSUME Types, NEW c \in Clients, NEW x \in AllRates \ {0}, ShowsRate(c, x)
  PROVE  Types'
PROOF
<1>1. spin' \in [Clients -> BoxRates] /\ toServer' \in [Clients -> Seq(Messages)] /\ requests' \in Nat
  BY ShownTypes DEF ShowsRate
<1>2. signals \in [Clients -> Seq(AllRates \ {0})] /\ signals[c] # <<>> /\ c \in joined
  BY TypesParts DEF ShowsRate
<1>3. Tail(signals[c]) \in Seq(AllRates \ {0})
  BY <1>2, HeadTailProperties
<1>4. signals' \in [Clients -> Seq(AllRates \ {0})]
  BY <1>2, <1>3 DEF ShowsRate
<1>5. \A d \in Clients : toClient'[d] # <<>> \/ signals'[d] # <<>> => d \in joined'
  BY <1>2, TypesParts DEF ShowsRate
<1> QED
  BY <1>1, <1>4, <1>5, TypesParts, TypesPartsNext DEF ShowsRate

(* The server serves a request.                                            *)
LEMMA ServesTypes ==
  ASSUME Types, NEW c \in Clients, NEW h \in Messages, ServesRequest(c, h)
  PROVE  Types'
PROOF
<1>1. /\ toServer \in [Clients -> Seq(Messages)] /\ toClient \in [Clients -> Seq(Relays)]
      /\ playing \in BOOLEAN /\ rate \in AllRates \ {0} /\ told \subseteq joined
      /\ \A d \in Clients : toClient[d] # <<>> \/ signals[d] # <<>> => d \in joined
  BY TypesParts
<1>2. toServer' \in [Clients -> Seq(Messages)]
  <2>1. Tail(toServer[c]) \in Seq(Messages)
    BY <1>1, HeadTailProperties DEF ServesRequest
  <2> QED
    BY <1>1, <2>1 DEF ServesRequest
<1>3. Relayed(h) \in Relays
  BY RelayedKinds DEF Relays
<1>4. toClient' \in [Clients -> Seq(Relays)]
      /\ \A d \in Clients : toClient'[d] # <<>> \/ signals'[d] # <<>> => d \in joined'
  <2>1. \A d \in Clients : Append(toClient[d], Relayed(h)) \in Seq(Relays)
    BY <1>1, <1>3, AppendProperties
  <2> QED
    BY <1>1, <2>1 DEF ServesRequest
<1>5. playing' \in BOOLEAN /\ told' \subseteq joined' /\ unaware' \subseteq joined'
  BY <1>1, TypesParts DEF ServesRequest
<1>6. rate' \in AllRates \ {0} /\ relayed' \in AllRates \ {0}
  <2>1. CASE IsPlay(h)
    BY <1>1, <2>1, TypesParts DEF ServesRequest
  <2>2. CASE ~ IsPlay(h)
    <3>1. PICK x \in AllRates \ {0} : h = Speed(x)
      BY <2>2, RelayedKinds
    <3> QED
      BY <2>2, <3>1, MessageKinds DEF ServesRequest
  <2> QED
    BY <2>1, <2>2
<1> QED
  BY <1>2, <1>4, <1>5, <1>6, TypesParts, TypesPartsNext DEF ServesRequest

(* The recording ends.                                                     *)
LEMMA EndTypes ==
  ASSUME Types, EndsRecording
  PROVE  Types'
PROOF
<1>1. rate' \in AllRates \ {0} /\ unaware' \subseteq joined'
  BY ClampedFacts DEF EndsRecording
<1> QED
  BY <1>1, TypesParts, TypesPartsNext DEF EndsRecording

(* At the start.                                                           *)
LEMMA InitTypes == LegacyInit => Types
PROOF
<1> SUFFICES ASSUME LegacyInit PROVE Types
  OBVIOUS
<1>1. 1 \in AllRates \ {0} /\ 1 \in BoxRates /\ legacy \subseteq Clients
  BY ClampedFacts, LegacyControlAssumption DEF LegacyInit
<1>2. <<>> \in Seq(Messages) /\ <<>> \in Seq(Relays) /\ <<>> \in Seq(AllRates \ {0})
  BY EmptyAndOne
<1>3. PICK flags \in [Clients -> BOOLEAN] : InitWith(flags)
  BY DEF LegacyInit
<1>4. signals = [c \in Clients |-> <<>>] /\ forward = [c \in Clients |-> TRUE]
  BY DEF LegacyInit
<1> QED
  BY <1>1, <1>2, <1>3, <1>4, TypesParts DEF InitWith

(* Any move keeps the types.                                               *)
LEMMA TypesStep ==
  ASSUME Types, NEW c \in Clients, Moves(c)
  PROVE  Types'
BY AsksTypes, EntersTypes, TakesPlayTypes, TakesRateTypes, ShowsRateTypes, ServesTypes DEF Moves, Joins

-----------------------------------------------------------------------------
(***************************************************************************)
(* The last message of a kind in a queue.                                  *)
(***************************************************************************)
NoneOf(q, T)    == \A i \in 1 .. Len(q) : q[i].type \notin T
LastIs(q, T, m) == \E i \in 1 .. Len(q) : q[i] = m /\ \A j \in i + 1 .. Len(q) : q[j].type \notin T

(* A message is appended.                                                  *)
LEMMA LastOfAppended ==
  ASSUME NEW M, NEW q \in Seq(M), NEW p \in M, NEW T, NEW m
  PROVE  /\ LastIs(Append(q, p), T, p)
         /\ p.type \notin T /\ NoneOf(q, T) => NoneOf(Append(q, p), T)
         /\ p.type \notin T /\ LastIs(q, T, m) => LastIs(Append(q, p), T, m)
PROOF
<1> DEFINE r == Append(q, p)
           n == Len(q)
<1>1. n \in Nat /\ Len(r) = n + 1 /\ (\A i \in 1 .. n : r[i] = q[i]) /\ r[n + 1] = p
  BY AppendProperties, LenProperties
<1> HIDE DEF r
<1>2. LastIs(r, T, p)
  <2>1. n + 1 \in 1 .. Len(r) /\ \A j \in n + 1 + 1 .. Len(r) : r[j].type \notin T
    BY <1>1
  <2> QED
    BY <1>1, <2>1 DEF LastIs
<1>3. ASSUME p.type \notin T, NoneOf(q, T)
      PROVE  NoneOf(r, T)
  <2>1. ASSUME NEW i \in 1 .. Len(r) PROVE r[i].type \notin T
    BY <1>1, <1>3 DEF NoneOf
  <2> QED
    BY <2>1 DEF NoneOf
<1>4. ASSUME p.type \notin T, LastIs(q, T, m)
      PROVE  LastIs(r, T, m)
  <2>1. PICK i \in 1 .. n : q[i] = m /\ \A j \in i + 1 .. n : q[j].type \notin T
    BY <1>4 DEF LastIs
  <2>2. ASSUME NEW j \in i + 1 .. Len(r) PROVE r[j].type \notin T
    <3>1. j \in i + 1 .. n \/ j = n + 1
      BY <1>1
    <3>2. j \in i + 1 .. n => j \in 1 .. n
      BY <1>1
    <3> QED
      BY <1>1, <1>4, <2>1, <3>1, <3>2
  <2>3. i \in 1 .. Len(r) /\ r[i] = m
    BY <1>1, <2>1
  <2> QED
    BY <2>2, <2>3 DEF LastIs
<1> QED
  BY <1>2, <1>3, <1>4 DEF r

(* The first message is taken.                                             *)
LEMMA LastOfTaken ==
  ASSUME NEW M, NEW q \in Seq(M), q # <<>>, NEW T, NEW m
  PROVE  /\ NoneOf(q, T) => NoneOf(Tail(q), T) /\ Head(q).type \notin T
         /\ LastIs(q, T, m) => LastIs(Tail(q), T, m) \/ (NoneOf(Tail(q), T) /\ Head(q) = m)
PROOF
<1> DEFINE r == Tail(q)
           n == Len(q)
<1>1. /\ n \in Nat /\ n > 0 /\ Len(r) = n - 1 /\ Head(q) = q[1]
      /\ \A i \in 1 .. Len(r) : r[i] = q[i + 1]
  BY HeadTailProperties, LenProperties, EmptySeq
<1> HIDE DEF r
<1>2. \A i \in 1 .. Len(r) : i + 1 \in 1 .. n
  BY <1>1
<1>3. ASSUME NoneOf(q, T)
      PROVE  NoneOf(r, T) /\ Head(q).type \notin T
  <2>1. 1 \in 1 .. n
    BY <1>1
  <2> QED
    BY <1>1, <1>2, <1>3, <2>1 DEF NoneOf
<1>4. ASSUME LastIs(q, T, m)
      PROVE  LastIs(r, T, m) \/ (NoneOf(r, T) /\ Head(q) = m)
  <2>1. PICK i \in 1 .. n : q[i] = m /\ \A j \in i + 1 .. n : q[j].type \notin T
    BY <1>4 DEF LastIs
  <2>2. CASE i = 1
    <3>1. \A j \in 1 .. Len(r) : j + 1 \in i + 1 .. n
      BY <1>1, <2>2
    <3> QED
      BY <1>1, <2>1, <2>2, <3>1 DEF NoneOf
  <2>3. CASE i # 1
    <3>1. i - 1 \in 1 .. Len(r) /\ i - 1 + 1 = i
      BY <1>1, <2>3
    <3>2. r[i - 1] = m
      BY <1>1, <2>1, <3>1
    <3>3. \A j \in i - 1 + 1 .. Len(r) : j \in 1 .. Len(r) /\ j + 1 \in i + 1 .. n
      BY <1>1, <2>3
    <3>4. \A j \in i - 1 + 1 .. Len(r) : r[j].type \notin T
      BY <1>1, <2>1, <3>3
    <3> QED
      BY <3>1, <3>2, <3>4 DEF LastIs
  <2> QED
    BY <2>2, <2>3
<1> QED
  BY <1>3, <1>4 DEF r

\* A start or a stop is among the requests q.
HasPlay(q) == \E i \in 1 .. Len(q) : IsPlay(q[i])

(* It stays there until it is served.                                      *)
LEMMA PlayStays ==
  ASSUME NEW q \in Seq(Messages)
  PROVE  /\ \A s \in Seq(Messages) : HasPlay(q) \/ HasPlay(s) => HasPlay(q \o s)
         /\ q # <<>> /\ HasPlay(q) /\ ~ IsPlay(Head(q)) => HasPlay(Tail(q))
PROOF
<1>1. ASSUME NEW s \in Seq(Messages), HasPlay(q) \/ HasPlay(s)
      PROVE  HasPlay(q \o s)
  <2> DEFINE r == q \o s
             n == Len(q)
  <2>1. /\ n \in Nat /\ Len(s) \in Nat /\ Len(r) = n + Len(s)
        /\ \A i \in 1 .. Len(r) : r[i] = IF i <= n THEN q[i] ELSE s[i - n]
    BY ConcatProperties, LenProperties
  <2> HIDE DEF r
  <2>2. CASE HasPlay(q)
    <3>1. PICK i \in 1 .. n : IsPlay(q[i])
      BY <2>2 DEF HasPlay
    <3>2. i \in 1 .. Len(r) /\ r[i] = q[i]
      BY <2>1
    <3> QED
      BY <3>1, <3>2 DEF HasPlay, r
  <2>3. CASE HasPlay(s)
    <3>1. PICK i \in 1 .. Len(s) : IsPlay(s[i])
      BY <2>3 DEF HasPlay
    <3>2. i + n \in 1 .. Len(r) /\ ~ (i + n <= n) /\ (i + n) - n = i
      BY <2>1
    <3>3. r[i + n] = s[i]
      BY <2>1, <3>2
    <3> QED
      BY <3>1, <3>2, <3>3 DEF HasPlay, r
  <2> QED
    BY <1>1, <2>2, <2>3
<1>2. ASSUME q # <<>>, HasPlay(q), ~ IsPlay(Head(q))
      PROVE  HasPlay(Tail(q))
  <2> DEFINE r == Tail(q)
             n == Len(q)
  <2>1. /\ n \in Nat /\ n > 0 /\ Len(r) = n - 1 /\ Head(q) = q[1]
        /\ \A i \in 1 .. Len(r) : r[i] = q[i + 1]
    BY <1>2, HeadTailProperties, LenProperties, EmptySeq
  <2> HIDE DEF r
  <2>2. PICK i \in 1 .. n : IsPlay(q[i])
    BY <1>2 DEF HasPlay
  <2>3. i # 1
    BY <1>2, <2>1, <2>2
  <2>4. i - 1 \in 1 .. Len(r) /\ i - 1 + 1 = i
    BY <2>1, <2>3
  <2>5. r[i - 1] = q[i]
    BY <2>1, <2>4
  <2> QED
    BY <2>2, <2>4, <2>5 DEF HasPlay, r
<1> QED
  BY <1>1, <1>2

-----------------------------------------------------------------------------
(***************************************************************************)
(* The clients agree with the server.                                      *)
(*                                                                         *)
(* ClientsAgree speaks of the moments at which nothing is under way.  The  *)
(* invariant says what is true before: the last rate in the queue of a     *)
(* client is the one it should show or, when there is none, the client     *)
(* shows it; the engine's rate is the last one relayed, unless it has set  *)
(* its own; the last start or stop in the queue is what the server does   *)
(* or, when there is none, the client shows that, unless a start or a stop *)
(* is on its way to the server; and a graph runs with the rate shown.      *)
(***************************************************************************)
\* The rate a client should show.
Due(c) == IF c \in unaware THEN relayed ELSE rate

RateShown(c) ==
  \/ NoneOf(toClient[c], {"speed"}) /\ streamRate[c] = Due(c)
  \/ LastIs(toClient[c], {"speed"}, Speed(Due(c)))

PlayUnderWay == \E c \in Clients : HasPlay(toServer[c])

FlagShown(c) ==
  \/ NoneOf(toClient[c], Plays) /\ ((paused[c] <=> ~ playing) \/ PlayUnderWay)
  \/ LastIs(toClient[c], Plays, IF playing THEN Start ELSE Stop)

AgreeInv ==
  /\ \A c \in joined : RateShown(c)
  /\ \A c \in told : FlagShown(c)
  /\ \A c \in legacy : forward[c] <=> streamRate[c] > 0
  /\ rate = 1 \/ relayed = rate
  /\ unaware # {} => rate = 1 /\ relayed > 0

(* A start or a stop that is on its way is still there when more is sent.  *)
LEMMA PlayIsNotLost ==
  ASSUME Types, NEW c \in Clients, NEW s \in Seq(Messages),
         toServer' = [toServer EXCEPT ![c] = toServer[c] \o s],
         PlayUnderWay \/ HasPlay(s)
  PROVE  PlayUnderWay'
PROOF
<1>1. toServer \in [Clients -> Seq(Messages)]
  BY TypesParts
<1>2. CASE HasPlay(s)
  BY <1>1, <1>2, PlayStays DEF PlayUnderWay
<1>3. CASE PlayUnderWay
  <2>1. PICK d \in Clients : HasPlay(toServer[d])
    BY <1>3 DEF PlayUnderWay
  <2>2. HasPlay(toServer'[d])
    <3>1. CASE d = c
      BY <1>1, <2>1, <3>1, PlayStays
    <3>2. CASE d # c
      BY <1>1, <2>1, <3>2
    <3> QED
      BY <3>1, <3>2
  <2> QED
    BY <2>2 DEF PlayUnderWay
<1> QED
  BY <1>2, <1>3

(* A user asks: only the pause button of a control sets a flag at once.    *)
LEMMA AsksAgree ==
  ASSUME Types, AgreeInv, NEW c \in Clients, NEW s, Asks(c, s)
  PROVE  AgreeInv'
PROOF
<1>1. s \in Seq(Messages)
  <2>1. PICK K, x : s \in Seq(Requests(K, x))
    BY DEF Asks
  <2>2. Seq(Requests(K, x)) \subseteq Seq(Messages)
    BY DEF Requests
  <2> QED
    BY <2>1, <2>2
<1>2. UNCHANGED <<playing, rate, relayed, unaware, joined, streamRate, told, toClient, legacy, forward>>
      /\ toServer' = [toServer EXCEPT ![c] = toServer[c] \o s]
      /\ (UNCHANGED paused \/ s = <<Stop>>)
  BY DEF Asks
<1>3. HasPlay(<<Stop>>)
  <2>1. IsPlay(Stop) /\ Len(<<Stop>>) = 1 /\ <<Stop>>[1] = Stop
    BY MessageKinds, RelayedKinds
  <2> QED
    BY <2>1 DEF HasPlay
<1>4. PlayUnderWay => PlayUnderWay'
  BY <1>1, <1>2, PlayIsNotLost
<1>5. UNCHANGED paused \/ PlayUnderWay'
  BY <1>1, <1>2, <1>3, PlayIsNotLost
<1>6. \A d \in joined' : RateShown(d)'
  BY <1>2 DEF AgreeInv, RateShown, Due
<1>7. \A d \in told' : FlagShown(d)'
  BY <1>2, <1>4, <1>5 DEF AgreeInv, FlagShown
<1> QED
  BY <1>2, <1>6, <1>7 DEF AgreeInv

(* A client joins: it is told the rate.                                    *)
LEMMA JoinsAgree ==
  ASSUME Types, AgreeInv, NEW c \in Clients, Joins(c)
  PROVE  AgreeInv'
PROOF
<1>1. /\ toClient \in [Clients -> Seq(Relays)] /\ told \subseteq joined /\ rate \in AllRates \ {0}
      /\ joined \subseteq Clients
  BY TypesParts
<1>2. /\ c \notin joined /\ joined' = joined \union {c}
      /\ toClient' = [toClient EXCEPT ![c] = Append(toClient[c], Speed(rate))]
      /\ UNCHANGED <<playing, rate, relayed, unaware, paused, streamRate, spin, toServer, told, legacy, forward>>
  BY DEF Joins, Enters, controlVars
<1>d. Due(c)' = rate /\ \A d : Due(d)' = Due(d)
  BY <1>2, TypesParts DEF Due
<1>3. Speed(rate) \in Relays
  BY <1>1, MessageKinds DEF Relays
<1>4. RateShown(c)'
  <2>1. LastIs(Append(toClient[c], Speed(rate)), {"speed"}, Speed(rate))
    BY <1>1, <1>3, LastOfAppended
  <2> QED
    BY <1>1, <1>2, <1>d, <2>1 DEF RateShown
<1>5. ASSUME NEW d \in joined PROVE RateShown(d)'
  BY <1>1, <1>2, <1>d DEF AgreeInv, RateShown
<1>6. ASSUME NEW d \in told PROVE FlagShown(d)'
  <2>1. d # c /\ toClient'[d] = toClient[d]
    BY <1>1, <1>2
  <2>2. PlayUnderWay' = PlayUnderWay
    BY <1>2 DEF PlayUnderWay
  <2> QED
    BY <1>2, <2>1, <2>2 DEF AgreeInv, FlagShown
<1> QED
  BY <1>2, <1>4, <1>5, <1>6 DEF AgreeInv

(* A client takes a start or a stop.                                       *)
LEMMA TakesPlayAgree ==
  ASSUME Types, AgreeInv, NEW c \in Clients, NEW h \in {Start, Stop}, TakesPlay(c, h)
  PROVE  AgreeInv'
PROOF
<1>1. /\ toClient \in [Clients -> Seq(Relays)] /\ told \subseteq joined /\ joined \subseteq Clients
      /\ playing \in BOOLEAN /\ paused \in [Clients -> BOOLEAN]
  BY TypesParts
<1>2. /\ c \in joined /\ toClient[c] # <<>> /\ h = Head(toClient[c])
      /\ toClient' = [toClient EXCEPT ![c] = Tail(toClient[c])]
      /\ paused' = [paused EXCEPT ![c] = (h = Stop)]
      /\ UNCHANGED <<playing, rate, relayed, unaware, joined, told, legacy, streamRate, forward>>
  BY DEF TakesPlay, Takes
<1>d. \A d : Due(d)' = Due(d)
  BY <1>2 DEF Due
<1>3. h.type \in Plays /\ h.type # "speed" /\ (h = Start \/ h = Stop) /\ Start # Stop
      /\ \A x : h # Speed(x)
  BY MessageKinds DEF Plays
<1>4. PlayUnderWay => PlayUnderWay'
  <2>1. CASE UNCHANGED toServer
    BY <2>1 DEF PlayUnderWay
  <2>2. CASE ~ UNCHANGED toServer
    <3>1. <<>> \in Seq(Messages) /\ <<h>> \in Seq(Messages)
      BY MessageKinds, EmptyAndOne
    <3>2. PICK s \in Seq(Messages) : Send(c, s)
      BY <2>2, <3>1 DEF TakesPlay
    <3> QED
      BY <3>2, PlayIsNotLost, SentKinds
  <2> QED
    BY <2>1, <2>2
<1>5. ASSUME NEW d \in joined PROVE RateShown(d)'
  <2>1. CASE d = c
    <3>1. /\ NoneOf(toClient[c], {"speed"}) => NoneOf(Tail(toClient[c]), {"speed"})
          /\ LastIs(toClient[c], {"speed"}, Speed(Due(c))) => LastIs(Tail(toClient[c]), {"speed"}, Speed(Due(c)))
      BY <1>1, <1>2, <1>3, LastOfTaken
    <3> QED
      BY <1>1, <1>2, <1>d, <2>1, <3>1 DEF AgreeInv, RateShown
  <2>2. CASE d # c
    BY <1>1, <1>2, <1>d, <2>2 DEF AgreeInv, RateShown
  <2> QED
    BY <2>1, <2>2
<1>6. ASSUME NEW d \in told PROVE FlagShown(d)'
  <2>1. CASE d = c
    <3> DEFINE flag == IF playing THEN Start ELSE Stop
    <3>1. LastIs(toClient[c], Plays, flag)
      <4>1. ~ NoneOf(toClient[c], Plays)
        BY <1>1, <1>2, <1>3, LastOfTaken
      <4> QED
        BY <4>1, <2>1 DEF AgreeInv, FlagShown
    <3>2. LastIs(Tail(toClient[c]), Plays, flag) \/ (NoneOf(Tail(toClient[c]), Plays) /\ h = flag)
      <4> HIDE DEF flag
      <4> QED
        BY <1>1, <1>2, <3>1, LastOfTaken
    <3>3. toClient'[c] = Tail(toClient[c]) /\ (paused'[c] <=> h = Stop)
      BY <1>1, <1>2
    <3>4. h = flag => (paused'[c] <=> ~ playing')
      BY <1>1, <1>2, <1>3, <3>3
    <3> QED
      BY <1>2, <2>1, <3>2, <3>3, <3>4 DEF FlagShown
  <2>2. CASE d # c
    <3>1. toClient'[d] = toClient[d] /\ paused'[d] = paused[d]
      BY <1>1, <1>2, <2>2
    <3> QED
      BY <1>2, <1>4, <3>1 DEF AgreeInv, FlagShown
  <2> QED
    BY <2>1, <2>2
<1> QED
  BY <1>2, <1>5, <1>6 DEF AgreeInv

(* What a box sends does not hide a start or a stop that is on its way.    *)
LEMMA ShownKeepsPlays ==
  ASSUME Types, NEW c \in Clients, NEW x \in AllRates \ {0}, Shown(c, x)
  PROVE  PlayUnderWay => PlayUnderWay'
PROOF
<1>1. Clamped(x) \in AllRates
  BY ClampedFacts
<1>2. <<>> \in Seq(Messages) /\ <<Speed(Clamped(x))>> \in Seq(Messages)
  BY <1>1, MessageKinds, EmptyAndOne
<1>3. PICK s \in Seq(Messages) : Send(c, s)
  BY <1>2 DEF Shown
<1> QED
  BY <1>3, PlayIsNotLost, SentKinds

(* A client takes a rate.                                                  *)
LEMMA TakesRateAgree ==
  ASSUME Types, AgreeInv, NEW c \in Clients, NEW x \in AllRates \ {0}, TakesRate(c, x)
  PROVE  AgreeInv'
PROOF
<1>1. /\ toClient \in [Clients -> Seq(Relays)] /\ told \subseteq joined /\ joined \subseteq Clients
      /\ streamRate \in [Clients -> AllRates \ {0}] /\ forward \in [Clients -> BOOLEAN]
      /\ legacy \subseteq Clients
  BY TypesParts
<1> DEFINE h == Speed(x)
<1>2. /\ c \in joined /\ toClient[c] # <<>> /\ h = Head(toClient[c])
      /\ toClient' = [toClient EXCEPT ![c] = Tail(toClient[c])]
      /\ streamRate' = [streamRate EXCEPT ![c] = x]
      /\ UNCHANGED <<playing, rate, relayed, unaware, joined, told, legacy, paused>>
  BY DEF TakesRate, Takes
<1>d. \A d : Due(d)' = Due(d)
  BY <1>2 DEF Due
<1>3. h.type = "speed" /\ h.type \notin Plays /\ h # Start /\ h # Stop /\ (h = Speed(Due(c)) => x = Due(c))
  BY MessageKinds DEF Plays
<1> HIDE DEF h
<1>4. PlayUnderWay => PlayUnderWay'
  <2>1. CASE UNCHANGED toServer
    BY <2>1 DEF PlayUnderWay
  <2>2. CASE ~ UNCHANGED toServer
    BY <2>2, ShownKeepsPlays DEF TakesRate
  <2> QED
    BY <2>1, <2>2
<1>5. ASSUME NEW d \in joined PROVE RateShown(d)'
  <2>1. CASE d = c
    <3>1. LastIs(toClient[c], {"speed"}, Speed(Due(c)))
      <4>1. ~ NoneOf(toClient[c], {"speed"})
        BY <1>1, <1>2, <1>3, LastOfTaken
      <4> QED
        BY <4>1, <2>1 DEF AgreeInv, RateShown
    <3>2. \/ LastIs(Tail(toClient[c]), {"speed"}, Speed(Due(c)))
          \/ NoneOf(Tail(toClient[c]), {"speed"}) /\ h = Speed(Due(c))
      BY <1>1, <1>2, <3>1, LastOfTaken
    <3>3. toClient'[c] = Tail(toClient[c]) /\ streamRate'[c] = x
      BY <1>1, <1>2
    <3> QED
      BY <1>2, <1>3, <1>d, <2>1, <3>2, <3>3 DEF RateShown
  <2>2. CASE d # c
    BY <1>1, <1>2, <1>d, <2>2 DEF AgreeInv, RateShown
  <2> QED
    BY <2>1, <2>2
<1>6. ASSUME NEW d \in told PROVE FlagShown(d)'
  <2>1. CASE d = c
    <3> DEFINE flag == IF playing THEN Start ELSE Stop
    <3>1. h # flag
      BY <1>3
    <3>2. /\ NoneOf(toClient[c], Plays) => NoneOf(Tail(toClient[c]), Plays)
          /\ LastIs(toClient[c], Plays, flag) => LastIs(Tail(toClient[c]), Plays, flag)
      <4> HIDE DEF flag
      <4> QED
        BY <1>1, <1>2, <3>1, LastOfTaken
    <3>3. toClient'[c] = Tail(toClient[c])
      BY <1>1, <1>2
    <3> QED
      BY <1>2, <1>4, <2>1, <3>2, <3>3 DEF AgreeInv, FlagShown
  <2>2. CASE d # c
    <3>1. toClient'[d] = toClient[d]
      BY <1>1, <1>2, <2>2
    <3> QED
      BY <1>2, <1>4, <3>1 DEF AgreeInv, FlagShown
  <2> QED
    BY <2>1, <2>2
<1>7. ASSUME NEW d \in legacy PROVE forward'[d] <=> streamRate'[d] > 0
  <2>1. forward[d] <=> streamRate[d] > 0
    BY DEF AgreeInv
  <2>2. CASE d # c
    <3>1. streamRate'[d] = streamRate[d] /\ forward'[d] = forward[d]
      BY <1>1, <1>2, <2>2 DEF TakesRate
    <3> QED
      BY <2>1, <3>1
  <2>3. CASE d = c
    <3>1. \/ forward' = [forward EXCEPT ![c] = x > 0]
          \/ (streamRate[c] > 0) = (x > 0) /\ UNCHANGED forward
      BY <2>3 DEF TakesRate
    <3>2. streamRate'[c] = x
      BY <1>1, <1>2
    <3> QED
      BY <1>1, <2>1, <2>3, <3>1, <3>2
  <2> QED
    BY <2>2, <2>3
<1> QED
  BY <1>2, <1>5, <1>6, <1>7 DEF AgreeInv

(* A box is set.                                                           *)
LEMMA ShowsRateAgree ==
  ASSUME Types, AgreeInv, NEW c \in Clients, NEW x \in AllRates \ {0}, ShowsRate(c, x)
  PROVE  AgreeInv'
PROOF
<1>1. UNCHANGED <<playing, rate, relayed, unaware, joined, paused, streamRate, toClient, told, legacy, forward>>
  BY DEF ShowsRate
<1>2. PlayUnderWay => PlayUnderWay'
  BY ShownKeepsPlays DEF ShowsRate
<1>3. \A d \in joined : RateShown(d) => RateShown(d)'
  BY <1>1 DEF RateShown, Due
<1>4. \A d \in told : FlagShown(d) => FlagShown(d)'
  BY <1>1, <1>2 DEF FlagShown
<1> QED
  BY <1>1, <1>3, <1>4 DEF AgreeInv

(* The server serves a request, and relays what it did to all clients.     *)
LEMMA ServesAgree ==
  ASSUME Types, AgreeInv, NEW c \in Clients, NEW h \in Messages, ServesRequest(c, h)
  PROVE  AgreeInv'
PROOF
<1> DEFINE m == Relayed(h)
<1>1. /\ toClient \in [Clients -> Seq(Relays)] /\ told \subseteq joined /\ joined \subseteq Clients
      /\ toServer \in [Clients -> Seq(Messages)] /\ playing \in BOOLEAN
  BY TypesParts
<1>2. /\ toServer[c] # <<>> /\ h = Head(toServer[c])
      /\ toServer' = [toServer EXCEPT ![c] = Tail(toServer[c])]
      /\ \A d \in joined : toClient'[d] = Append(toClient[d], m)
      /\ UNCHANGED <<joined, paused, streamRate, legacy, forward>>
  BY <1>1 DEF ServesRequest
<1>3. m \in Relays
  BY RelayedKinds DEF Relays
<1>4. CASE IsPlay(h)
  <2>1. /\ m.type \in Plays /\ m.type # "speed" /\ m = (IF m = Start THEN Start ELSE Stop)
        /\ UNCHANGED <<rate, relayed, unaware>> /\ told' = joined /\ playing' = (m = Start)
    <3>1. m = Start \/ m = Stop
      BY <1>4, RelayedKinds
    <3>2. UNCHANGED <<rate, relayed, unaware>> /\ told' = joined /\ playing' = (m = Start)
      BY <1>4 DEF ServesRequest
    <3> HIDE DEF m
    <3> QED
      BY <3>1, <3>2, MessageKinds DEF Plays
  <2> HIDE DEF m
  <2>2. ASSUME NEW d \in joined PROVE RateShown(d)' /\ FlagShown(d)'
    <3> DEFINE flag == IF playing' THEN Start ELSE Stop
    <3>1. flag = m
      BY <2>1
    <3>2. LastIs(Append(toClient[d], m), Plays, m)
      BY <1>1, <1>3, LastOfAppended
    <3>3. /\ NoneOf(toClient[d], {"speed"}) => NoneOf(Append(toClient[d], m), {"speed"})
          /\ LastIs(toClient[d], {"speed"}, Speed(Due(d))) => LastIs(Append(toClient[d], m), {"speed"}, Speed(Due(d)))
      BY <1>1, <1>3, <2>1, LastOfAppended
    <3>4. FlagShown(d)'
      BY <1>2, <3>1, <3>2 DEF FlagShown
    <3>5. RateShown(d)'
      <4>1. Due(d)' = Due(d)
        BY <2>1 DEF Due
      <4> QED
        BY <1>2, <2>1, <3>3, <4>1 DEF AgreeInv, RateShown
    <3> QED
      BY <3>4, <3>5
  <2> QED
    BY <1>2, <2>1, <2>2 DEF AgreeInv
<1>5. CASE ~ IsPlay(h)
  <2>1. PICK x \in AllRates \ {0} : h = Speed(x) /\ m = Speed(x)
    BY <1>5, RelayedKinds
  <2>2. /\ m.type = "speed" /\ m.type \notin Plays /\ playing' = playing /\ told' = told
        /\ rate' = x /\ relayed' = x /\ unaware' = {}
    BY <1>5, <2>1, MessageKinds DEF ServesRequest, Plays
  <2> HIDE DEF m
  <2>3. PlayUnderWay => PlayUnderWay'
    <3>1. ASSUME NEW d \in Clients, HasPlay(toServer[d])
          PROVE  HasPlay(toServer'[d])
      BY <1>1, <1>2, <1>5, <3>1, PlayStays
    <3> QED
      BY <3>1 DEF PlayUnderWay
  <2>4. ASSUME NEW d \in joined PROVE RateShown(d)'
    <3>1. LastIs(Append(toClient[d], m), {"speed"}, m)
      BY <1>1, <1>3, LastOfAppended
    <3>2. Due(d)' = x
      BY <2>2 DEF Due
    <3> QED
      BY <1>2, <2>1, <2>2, <3>1, <3>2 DEF RateShown
  <2>5. ASSUME NEW d \in told PROVE FlagShown(d)'
    <3> DEFINE flag == IF playing THEN Start ELSE Stop
    <3>1. /\ NoneOf(toClient[d], Plays) => NoneOf(Append(toClient[d], m), Plays)
          /\ LastIs(toClient[d], Plays, flag) => LastIs(Append(toClient[d], m), Plays, flag)
      <4> HIDE DEF flag
      <4> QED
        BY <1>1, <1>3, <2>2, LastOfAppended
    <3> QED
      BY <1>1, <1>2, <2>2, <2>3, <3>1 DEF AgreeInv, FlagShown
  <2> QED
    BY <1>2, <2>2, <2>4, <2>5 DEF AgreeInv
<1> QED
  BY <1>4, <1>5

(* The recording ends: a client should go on showing the rate relayed.     *)
LEMMA EndAgree ==
  ASSUME Types, AgreeInv, EndsRecording
  PROVE  AgreeInv'
PROOF
<1>1. /\ rate > 0 /\ rate # 1 /\ rate' = 1 /\ unaware' = joined
      /\ UNCHANGED <<playing, joined, paused, streamRate, toServer, toClient, told, relayed, legacy, forward>>
  BY DEF EndsRecording
<1>2. unaware = {} /\ relayed = rate
  BY <1>1 DEF AgreeInv
<1>3. \A d \in joined : Due(d)' = Due(d)
  BY <1>1, <1>2 DEF Due
<1>4. \A d \in joined : RateShown(d)'
  BY <1>1, <1>3 DEF AgreeInv, RateShown
<1>5. PlayUnderWay' = PlayUnderWay
  BY <1>1 DEF PlayUnderWay
<1>6. \A d \in told : FlagShown(d)'
  BY <1>1, <1>5 DEF AgreeInv, FlagShown
<1> QED
  BY <1>1, <1>2, <1>4, <1>6 DEF AgreeInv

(* Whatever the users do, patient or not: the messages and the numbers     *)
(* shown stay in their ranges, no rate of 0 is relayed, and nobody is sent *)
(* anything who has not joined the stream.                                 *)
THEOREM TypeCorrectness == LegacySpec => []Types
PROOF
<1>1. LegacyInit => Types
  BY InitTypes
<1>2. Types /\ [LegacyNext]_allVars => Types'
  <2> SUFFICES ASSUME Types, [LegacyNext]_allVars PROVE Types'
    OBVIOUS
  <2>1. ASSUME NEW c \in Clients, Moves(c) PROVE Types'
    BY <2>1, TypesStep
  <2>2. CASE UNCHANGED allVars
    BY <2>2, StutterTypes
  <2>3. CASE LegacyNext
    <3>e. CASE EndOfRecording /\ UNCHANGED legacyVars
      BY <3>e, RecordingEnds, EndTypes
    <3> SUFFICES ASSUME ~ (EndOfRecording /\ UNCHANGED legacyVars) PROVE Types'
      BY <3>e
    <3>1. PICK c \in Clients : ControlStep(c) \/ LegacyStep(c) \/ Serves(c)
      BY <2>3 DEF LegacyNext, Serves
    <3>2. CASE Serves(c) \/ Answers(c) \/ Reads(c)
      BY <2>1, <3>2, AnswersMove
    <3>3. CASE UNCHANGED legacyVars /\ (UserActs(c) \/ LegacyUserActs(c))
      BY <3>3, UsersTypes
    <3> QED
      BY <3>1, <3>2, <3>3 DEF ControlStep, LegacyStep, LegacyUserActs, Answers, Reads
  <2> QED
    BY <2>2, <2>3
<1> QED
  BY <1>1, <1>2, PTL DEF LegacySpec

(* Once nothing is under way, every client agrees with the server, of      *)
(* either kind and also when both kinds share the stream; those that were  *)
(* there when the engine set its own rate show the last one relayed, which *)
(* has the same direction.                                                 *)
THEOREM ClientsComeToAgree == Patient => (LegacySpec => []ClientsAgree)
PROOF
<1> SUFFICES ASSUME Patient PROVE LegacySpec => []ClientsAgree
  OBVIOUS
<1>1. LegacyInit => Types /\ AgreeInv
  <2> SUFFICES ASSUME LegacyInit PROVE Types /\ AgreeInv
    OBVIOUS
  <2>1. Types
    BY InitTypes
  <2>2. /\ joined = {} /\ told = {} /\ \A c \in legacy : forward[c] <=> streamRate[c] > 0
        /\ relayed = rate /\ unaware = {}
    BY LegacyControlAssumption DEF LegacyInit, InitWith
  <2> QED
    BY <2>1, <2>2 DEF AgreeInv
<1>2. Types /\ AgreeInv /\ [LegacyNext]_allVars => Types' /\ AgreeInv'
  <2> SUFFICES ASSUME Types, AgreeInv, [LegacyNext]_allVars
               PROVE  Types' /\ AgreeInv'
    OBVIOUS
  <2>1. ASSUME NEW c \in Clients, Moves(c)
        PROVE  Types' /\ AgreeInv'
    BY <2>1, TypesStep, AsksAgree, JoinsAgree, TakesPlayAgree, TakesRateAgree, ShowsRateAgree, ServesAgree DEF Moves
  <2>2. CASE UNCHANGED allVars
    <3>1. UNCHANGED <<playing, rate, relayed, unaware, joined, paused, streamRate, spin, toServer, toClient, actions, told, requests,
                      legacy, signals, forward>>
      BY <2>2 DEF allVars, vars, legacyVars, serverVars, rateVars, controlVars, history
    <3>2. Types'
      BY <2>2, StutterTypes
    <3>3. PlayUnderWay' = PlayUnderWay
      BY <3>1 DEF PlayUnderWay
    <3>4. AgreeInv'
      BY <3>1, <3>3 DEF AgreeInv, RateShown, FlagShown, Due
    <3> QED
      BY <3>2, <3>4
  <2>3. CASE EndsRecording
    BY <2>3, EndTypes, EndAgree
  <2> QED
    BY <2>1, <2>2, <2>3, StepsMove
<1>3. Types /\ AgreeInv => ClientsAgree
  <2> SUFFICES ASSUME Types, AgreeInv, AllQuiet PROVE ControlsAgree /\ \A c \in joined \cap legacy : forward[c] = (rate > 0)
    BY DEF ClientsAgree
  <2>1. /\ \A c \in Clients : toServer[c] = <<>> /\ toClient[c] = <<>>
        /\ joined \subseteq Clients /\ told \subseteq joined /\ legacy \subseteq Clients
        /\ playing \in BOOLEAN /\ paused \in [Clients -> BOOLEAN] /\ forward \in [Clients -> BOOLEAN]
    BY TypesParts DEF AllQuiet, Quiet
  <2>2. Len(<<>>) = 0 /\ \A i \in 1 .. 0 : FALSE
    OBVIOUS
  <2>3. ~ PlayUnderWay
    BY <2>1, <2>2 DEF PlayUnderWay, HasPlay
  <2>4. /\ \A c \in joined : streamRate[c] = IF c \in unaware THEN relayed ELSE rate
        /\ unaware # {} => rate = 1 /\ relayed > 0
    BY <2>1, <2>2 DEF AgreeInv, RateShown, LastIs, Due
  <2>5. \A c \in told : paused[c] <=> ~ playing
    BY <2>1, <2>2, <2>3 DEF AgreeInv, FlagShown, LastIs
  <2>6. \A c \in told : paused[c] = ~ playing
    BY <2>1, <2>5
  <2>7. \A c \in joined \cap legacy : forward[c] = (rate > 0)
    <3>1. \A c \in joined : (streamRate[c] > 0) <=> (rate > 0)
      BY <2>4
    <3> QED
      BY <2>1, <3>1 DEF AgreeInv
  <2> QED
    BY <2>4, <2>6, <2>7 DEF ControlsAgree
<1> QED
  BY <1>1, <1>2, <1>3, PTL DEF LegacySpec

-----------------------------------------------------------------------------
(***************************************************************************)
(* The clients send few requests.                                          *)
(*                                                                         *)
(* EchoesAreBounded counts the requests since a user last acted.  What the *)
(* user did sets the pace: from then on all that is under way says the     *)
(* same, start or stop, and shows the same rate in the boxes.  A client    *)
(* answers when it changes, and then it is as the messages say: what has   *)
(* been sent and what may still be answered never grow together.           *)
(***************************************************************************)
\* All messages are requests that say K and show x.
AllSay(K, x) ==
  \A c \in Clients : toServer[c] \in Seq(Requests(K, x)) /\ toClient[c] \in Seq(Requests(K, x))

Off(k)   == {c \in joined : ~ (paused[c] <=> k = Stop)}
Wrong(x) == {c \in joined : spin[c] # x}

\* Clients that are controls answer a start, a stop and a rate once each.
ControlsEcho ==
  /\ joined \cap legacy = {}
  /\ \E k \in {Start, Stop}, x \in BoxRates :
       /\ AllSay({k}, x)
       /\ requests + Cardinality(Off(k)) + Cardinality(Wrong(x)) <= 2 + 2 * Cardinality(joined)

\* Legacy watchers answer a rate once each.
LegacyEchoes ==
  /\ joined # {} /\ joined \subseteq legacy
  /\ \E x \in BoxRates :
       /\ AllSay({Start, Stop}, x)
       /\ \A c \in Clients : signals[c] \in Seq({r \in AllRates \ {0} : Clamped(r) = x})
       /\ requests + Cardinality(Wrong(x)) <= 3 + Cardinality(joined)

EchoInv == ControlsEcho \/ LegacyEchoes

(* Of the clients of a stream, some can be counted.                        *)
LEMMA Counting ==
  ASSUME NEW J \in SUBSET Clients
  PROVE  /\ Cardinality(J) \in Nat
         /\ \A S \in SUBSET J : Cardinality(S) \in Nat /\ Cardinality(S) <= Cardinality(J)
         /\ \A S \in SUBSET J : \A c \in S : Cardinality(S \ {c}) = Cardinality(S) - 1
         /\ J # {} => Cardinality(J) >= 1
PROOF
<1>1. IsFiniteSet(J)
  BY StreamControlAssumption, FS_Subset
<1>2. Cardinality(J) \in Nat /\ (J # {} => Cardinality(J) # 0)
  BY <1>1, FS_CardinalityType, FS_EmptySet
<1>3. ASSUME NEW S \in SUBSET J
      PROVE  /\ Cardinality(S) \in Nat /\ Cardinality(S) <= Cardinality(J)
             /\ \A c \in S : Cardinality(S \ {c}) = Cardinality(S) - 1
  BY <1>1, FS_Subset, FS_CardinalityType, FS_RemoveElement
<1> QED
  BY <1>2, <1>3

(* What a message among them is.                                           *)
LEMMA SaidKinds ==
  ASSUME NEW K \in SUBSET {Start, Stop}, NEW x, NEW m \in Requests(K, x)
  PROVE  /\ m \in Messages /\ Relayed(m) \in Requests(K, x)
         /\ m = Start \/ m = Stop => m \in K
         /\ \A y \in AllRates \ {0} : m = Speed(y) => Clamped(y) = x
PROOF
<1>1. m \in Messages /\ (IF IsPlay(m) THEN Relayed(m) \in K ELSE Clamped(m.speed) = x)
  BY DEF Requests
<1>2. m = Start \/ m = Stop => IsPlay(m) /\ Relayed(m) = m
  BY MessageKinds DEF Relayed, IsPlay, Plays
<1>3. \A y \in AllRates \ {0} : m = Speed(y) => ~ IsPlay(m) /\ m.speed = y
  BY MessageKinds DEF Relayed, IsPlay, Plays
<1>4. CASE IsPlay(m)
  <2>1. Relayed(m) \in K /\ (Relayed(m) = Start \/ Relayed(m) = Stop)
    BY <1>1, <1>4
  <2>2. Relayed(m) \in Requests(K, x)
    BY <2>1, RequestKinds
  <2> QED
    BY <1>1, <1>2, <1>3, <2>2
<1>5. CASE ~ IsPlay(m)
  <2>1. Relayed(m) = m
    BY <1>1, <1>5, RelayedKinds
  <2> QED
    BY <1>1, <1>2, <1>3, <1>5, <2>1
<1> QED
  BY <1>4, <1>5

(* A queue that loses its first message, or gets another, says the same.   *)
LEMMA QueuesSay ==
  ASSUME NEW R, NEW q \in Seq(R)
  PROVE  /\ q # <<>> => Head(q) \in R /\ Tail(q) \in Seq(R)
         /\ \A m \in R : Append(q, m) \in Seq(R)
         /\ \A s \in Seq(R) : q \o s \in Seq(R)
BY HeadTailProperties, AppendProperties, ConcatProperties

(* The server relays a request: it says the same.                          *)
LEMMA ServesSay ==
  ASSUME Types, NEW c \in Clients, NEW h \in Messages, ServesRequest(c, h),
         NEW K \in SUBSET {Start, Stop}, NEW x, AllSay(K, x)
  PROVE  AllSay(K, x)'
PROOF
<1> DEFINE R == Requests(K, x)
<1>1. \A d \in Clients : toServer[d] \in Seq(R) /\ toClient[d] \in Seq(R)
  BY DEF AllSay
<1>2. h \in R /\ Tail(toServer[c]) \in Seq(R)
  <2> HIDE DEF R
  <2> QED
    BY <1>1, QueuesSay DEF ServesRequest
<1>3. Relayed(h) \in R
  BY <1>2, SaidKinds
<1>4. ASSUME NEW d \in Clients
      PROVE  toServer'[d] \in Seq(R) /\ toClient'[d] \in Seq(R)
  <2> HIDE DEF R
  <2>1. Append(toClient[d], Relayed(h)) \in Seq(R)
    BY <1>1, <1>3, QueuesSay
  <2>2. toServer' = [toServer EXCEPT ![c] = Tail(toServer[c])] /\ toServer \in [Clients -> Seq(Messages)]
    BY TypesParts DEF ServesRequest
  <2>3. toServer'[d] \in Seq(R)
    BY <1>1, <1>2, <2>2
  <2>4. toClient'[d] = (IF d \in joined THEN Append(toClient[d], Relayed(h)) ELSE toClient[d])
    BY DEF ServesRequest
  <2> QED
    BY <1>1, <2>1, <2>3, <2>4
<1>5. R' = R
  BY DEF Requests, IsPlay, Relayed, Clamped, Messages, Start, Stop, Speed
<1> QED
  BY <1>4, <1>5 DEF AllSay

(* A client takes a message and sends what says the same.                  *)
LEMMA TakesSay ==
  ASSUME Types, NEW c \in Clients, NEW K \in SUBSET {Start, Stop}, NEW x, AllSay(K, x),
         \/ UNCHANGED toClient
         \/ toClient[c] # <<>> /\ toClient' = [toClient EXCEPT ![c] = Tail(toClient[c])],
         \/ UNCHANGED toServer
         \/ \E s \in Seq(Requests(K, x)) : toServer' = [toServer EXCEPT ![c] = toServer[c] \o s]
  PROVE  AllSay(K, x)'
PROOF
<1> DEFINE R == Requests(K, x)
<1>1. \A d \in Clients : toServer[d] \in Seq(R) /\ toClient[d] \in Seq(R)
  BY DEF AllSay
<1>2. toServer \in [Clients -> Seq(Messages)] /\ toClient \in [Clients -> Seq(Relays)]
  BY TypesParts
<1>3. R' = R
  BY DEF Requests, IsPlay, Relayed, Clamped, Messages, Start, Stop, Speed
<1>4. \A d \in Clients : toClient'[d] \in Seq(R)
  <2> HIDE DEF R
  <2>1. toClient[c] # <<>> => Tail(toClient[c]) \in Seq(R)
    BY <1>1, QueuesSay
  <2> QED
    BY <1>1, <1>2, <2>1
<1>5. \A d \in Clients : toServer'[d] \in Seq(R)
  <2>1. CASE UNCHANGED toServer
    BY <1>1, <2>1
  <2>2. ASSUME NEW s \in Seq(R), toServer' = [toServer EXCEPT ![c] = toServer[c] \o s]
        PROVE  \A d \in Clients : toServer'[d] \in Seq(R)
    <3> HIDE DEF R
    <3>1. toServer[c] \o s \in Seq(R)
      BY <1>1, <2>2, QueuesSay
    <3> QED
      BY <1>1, <1>2, <2>2, <3>1
  <2> QED
    BY <2>1, <2>2
<1> QED
  BY <1>3, <1>4, <1>5 DEF AllSay

(* A user asks, which starts a new count.                                  *)
LEMMA AsksEcho ==
  ASSUME Types, EchoInv, NEW c \in Clients, NEW s, Asks(c, s)
  PROVE  EchoInv'
PROOF
<1>1. PICK K \in SUBSET {Start, Stop}, x \in BoxRates :
        /\ s \in Seq(Requests(K, x)) /\ Len(s) <= 3
        /\ c \notin legacy => Len(s) <= 2 /\ \E k \in {Start, Stop} : K = {k}
  BY DEF Asks
<1>2. /\ c \in joined /\ requests' = Len(s) /\ UNCHANGED <<joined, legacy, toClient, signals>>
      /\ \A d \in Clients : toServer[d] = <<>> /\ toClient[d] = <<>> /\ signals[d] = <<>>
      /\ toServer' = [toServer EXCEPT ![c] = toServer[c] \o s]
  BY DEF Asks, Quiet, NoSignals
<1>3. joined \subseteq Clients /\ toServer \in [Clients -> Seq(Messages)] /\ signals \in [Clients -> Seq(AllRates \ {0})]
  BY TypesParts
<1>4. ASSUME NEW L \in SUBSET {Start, Stop}, K \subseteq L
      PROVE  AllSay(L, x)'
  <2>1. s \in Seq(Requests(L, x))
    <3>1. Requests(K, x) \subseteq Requests(L, x)
      BY <1>4 DEF Requests
    <3>2. Seq(Requests(K, x)) \subseteq Seq(Requests(L, x))
      BY <3>1
    <3> QED
      BY <1>1, <3>2
  <2>2. \A d \in Clients : toServer[d] \in Seq(Requests(L, x)) /\ toClient[d] \in Seq(Requests(L, x))
    BY <1>2, EmptyAndOne
  <2>3. AllSay(L, x)
    BY <2>2 DEF AllSay
  <2> QED
    BY <1>2, <2>1, <2>3, TakesSay
<1>5. Len(s) \in Nat
  BY <1>1, LenProperties
<1>6. CASE c \notin legacy
  <2>1. joined \cap legacy = {}
    BY <1>2, <1>6 DEF EchoInv, ControlsEcho, LegacyEchoes
  <2>2. PICK k \in {Start, Stop} : K = {k}
    BY <1>1, <1>6
  <2>3. AllSay({k}, x)'
    BY <1>4, <2>2
  <2>4. /\ Cardinality(joined) \in Nat
        /\ Cardinality(Off(k)') \in Nat /\ Cardinality(Off(k)') <= Cardinality(joined)
        /\ Cardinality(Wrong(x)') \in Nat /\ Cardinality(Wrong(x)') <= Cardinality(joined)
    <3>1. Off(k)' \in SUBSET joined /\ Wrong(x)' \in SUBSET joined
      BY <1>2 DEF Off, Wrong
    <3> QED
      BY <1>3, <3>1, Counting
  <2>5. requests' + Cardinality(Off(k)') + Cardinality(Wrong(x)') <= 2 + 2 * Cardinality(joined')
    BY <1>1, <1>2, <1>5, <1>6, <2>4
  <2>6. joined' \cap legacy' = {}
    BY <1>2, <2>1
  <2>7. ControlsEcho'
    BY <2>3, <2>5, <2>6 DEF ControlsEcho, BoxRates
  <2> QED
    BY <2>7 DEF EchoInv
<1>7. CASE c \in legacy
  <2>1. joined \subseteq legacy /\ joined # {}
    BY <1>2, <1>7 DEF EchoInv, ControlsEcho, LegacyEchoes
  <2>2. AllSay({Start, Stop}, x)'
    BY <1>4
  <2>3. Cardinality(joined) \in Nat /\ Cardinality(Wrong(x)') \in Nat /\ Cardinality(Wrong(x)') <= Cardinality(joined)
    <3>1. Wrong(x)' \in SUBSET joined
      BY <1>2 DEF Wrong
    <3> QED
      BY <1>3, <3>1, Counting
  <2>4. requests' + Cardinality(Wrong(x)') <= 3 + Cardinality(joined')
    BY <1>1, <1>2, <1>5, <2>3
  <2>5. \A d \in Clients : signals'[d] \in Seq({r \in AllRates \ {0} : Clamped(r) = x})
    BY <1>2, EmptyAndOne
  <2>6. joined' # {} /\ joined' \subseteq legacy'
    BY <1>2, <2>1
  <2>7. LegacyEchoes'
    BY <2>2, <2>4, <2>5, <2>6 DEF LegacyEchoes, BoxRates, AllRates, Clamped
  <2> QED
    BY <2>7 DEF EchoInv
<1> QED
  BY <1>6, <1>7

(* A client joins: only its rate is under way.                             *)
LEMMA JoinsEcho ==
  ASSUME Types, ~ Mixed, EchoInv, NEW c \in Clients, Joins(c)
  PROVE  EchoInv'
PROOF
<1>1. /\ joined \subseteq Clients /\ toClient \in [Clients -> Seq(Relays)] /\ rate \in AllRates \ {0}
  BY TypesParts
<1>2. /\ c \notin joined /\ joined' = joined \union {c} /\ requests' = 0
      /\ UNCHANGED <<legacy, signals, toServer, rate>>
      /\ \A d \in Clients : toServer[d] = <<>> /\ toClient[d] = <<>> /\ signals[d] = <<>>
      /\ toClient' = [toClient EXCEPT ![c] = Append(toClient[c], Speed(rate))]
      /\ \A d \in joined : (d \in legacy) = (c \in legacy)
  BY DEF Joins, Enters, Quiet, NoSignals, MayJoin
<1>3. PICK x \in BoxRates : x = Clamped(rate)
  BY <1>1, ClampedFacts
<1>4. ASSUME NEW L \in SUBSET {Start, Stop}
      PROVE  AllSay(L, x)'
  <2>1. Speed(rate) \in Requests(L, x)
    BY <1>1, <1>3, RequestKinds
  <2>2. Requests(L, x)' = Requests(L, x)
    BY <1>2 DEF Requests, IsPlay, Relayed, Clamped, Messages, Start, Stop, Speed
  <2>3. <<>> \in Seq(Requests(L, x)) /\ Append(<<>>, Speed(rate)) \in Seq(Requests(L, x))
    BY <2>1, AppendProperties, EmptyAndOne
  <2>4. ASSUME NEW d \in Clients
        PROVE  toServer'[d] \in Seq(Requests(L, x)) /\ toClient'[d] \in Seq(Requests(L, x))
    BY <1>1, <1>2, <2>3
  <2> QED
    BY <2>2, <2>4 DEF AllSay
<1>5. Cardinality(joined') \in Nat /\ Cardinality(joined') >= 1
      /\ \A S \in SUBSET joined' : Cardinality(S) \in Nat /\ Cardinality(S) <= Cardinality(joined')
  <2>1. joined' \in SUBSET Clients /\ joined' # {}
    BY <1>1, <1>2
  <2> QED
    BY <2>1, Counting
<1>6. CASE c \notin legacy
  <2>1. joined' \cap legacy' = {}
    BY <1>2, <1>6
  <2>2. Off(Start)' \in SUBSET joined' /\ Wrong(x)' \in SUBSET joined'
    BY DEF Off, Wrong
  <2>n. /\ Cardinality(Off(Start)') \in Nat /\ Cardinality(Off(Start)') <= Cardinality(joined')
        /\ Cardinality(Wrong(x)') \in Nat /\ Cardinality(Wrong(x)') <= Cardinality(joined')
    BY <1>5, <2>2
  <2>3. requests' + Cardinality(Off(Start)') + Cardinality(Wrong(x)') <= 2 + 2 * Cardinality(joined')
    BY <1>2, <1>5, <2>n
  <2>4. AllSay({Start}, x)'
    BY <1>4
  <2>5. ControlsEcho'
    BY <1>3, <2>1, <2>3, <2>4 DEF ControlsEcho, BoxRates
  <2> QED
    BY <2>5 DEF EchoInv
<1>7. CASE c \in legacy
  <2>1. joined' # {} /\ joined' \subseteq legacy'
    BY <1>2, <1>7
  <2>2. Wrong(x)' \in SUBSET joined'
    BY DEF Wrong
  <2>n. Cardinality(Wrong(x)') \in Nat /\ Cardinality(Wrong(x)') <= Cardinality(joined')
    BY <1>5, <2>2
  <2>3. requests' + Cardinality(Wrong(x)') <= 3 + Cardinality(joined')
    BY <1>2, <1>5, <2>n
  <2>4. AllSay({Start, Stop}, x)'
    BY <1>4
  <2>5. \A d \in Clients : signals'[d] \in Seq({r \in AllRates \ {0} : Clamped(r) = x})
    BY <1>2, EmptyAndOne
  <2>6. LegacyEchoes'
    BY <1>3, <2>1, <2>3, <2>4, <2>5 DEF LegacyEchoes, BoxRates, AllRates, Clamped
  <2> QED
    BY <2>6 DEF EchoInv
<1> QED
  BY <1>6, <1>7

(* The server serves a request: no client answers.                         *)
LEMMA ServesEcho ==
  ASSUME Types, EchoInv, NEW c \in Clients, NEW h \in Messages, ServesRequest(c, h)
  PROVE  EchoInv'
PROOF
<1>1. UNCHANGED <<joined, legacy, signals, requests, paused, spin>>
  BY DEF ServesRequest
<1>2. \A k, x : Off(k)' = Off(k) /\ Wrong(x)' = Wrong(x)
  BY <1>1 DEF Off, Wrong, Stop
<1>3. CASE ControlsEcho
  <2>1. PICK k \in {Start, Stop}, x \in BoxRates :
          AllSay({k}, x) /\ requests + Cardinality(Off(k)) + Cardinality(Wrong(x)) <= 2 + 2 * Cardinality(joined)
    BY <1>3 DEF ControlsEcho
  <2>2. AllSay({k}, x)'
    BY <2>1, ServesSay
  <2>3. ControlsEcho'
    BY <1>1, <1>2, <1>3, <2>1, <2>2 DEF ControlsEcho, BoxRates
  <2> QED
    BY <2>3 DEF EchoInv
<1>4. CASE LegacyEchoes
  <2>1. PICK x \in BoxRates :
          /\ AllSay({Start, Stop}, x)
          /\ \A d \in Clients : signals[d] \in Seq({r \in AllRates \ {0} : Clamped(r) = x})
          /\ requests + Cardinality(Wrong(x)) <= 3 + Cardinality(joined)
    BY <1>4 DEF LegacyEchoes
  <2>2. AllSay({Start, Stop}, x)'
    BY <2>1, ServesSay
  <2>3. LegacyEchoes'
    BY <1>1, <1>2, <1>4, <2>1, <2>2 DEF LegacyEchoes, BoxRates, AllRates, Clamped
  <2> QED
    BY <2>3 DEF EchoInv
<1> QED
  BY <1>3, <1>4 DEF EchoInv

(* A client takes a start or a stop: it answers, and is then as told.      *)
LEMMA TakesPlayEcho ==
  ASSUME Types, EchoInv, NEW c \in Clients, NEW h \in {Start, Stop}, TakesPlay(c, h)
  PROVE  EchoInv'
PROOF
<1>1. /\ c \in joined /\ toClient[c] # <<>> /\ h = Head(toClient[c])
      /\ toClient' = [toClient EXCEPT ![c] = Tail(toClient[c])]
      /\ paused' = [paused EXCEPT ![c] = (h = Stop)]
      /\ UNCHANGED <<joined, legacy, spin, signals>>
  BY DEF TakesPlay, Takes
<1>2. /\ joined \subseteq Clients /\ paused \in [Clients -> BOOLEAN] /\ requests \in Nat
  BY TypesParts
<1>3. \A x : Wrong(x)' = Wrong(x)
  BY <1>1 DEF Wrong
<1>4. CASE ControlsEcho
  <2>1. PICK k \in {Start, Stop}, x \in BoxRates :
          AllSay({k}, x) /\ requests + Cardinality(Off(k)) + Cardinality(Wrong(x)) <= 2 + 2 * Cardinality(joined)
    BY <1>4 DEF ControlsEcho
  <2>2. c \notin legacy
    BY <1>1, <1>4 DEF ControlsEcho
  <2>3. Head(toClient[c]) \in Requests({k}, x)
    BY <1>1, <2>1, QueuesSay DEF AllSay
  <2>4. h = k
    <3>1. h \in {k}
      BY <1>1, <2>3, SaidKinds
    <3> QED
      BY <3>1
  <2>5. <<h>> \in Seq(Requests({k}, x)) /\ Len(<<h>>) = 1 /\ <<h>> \in Seq(Messages)
        /\ <<>> \in Seq(Requests({k}, x)) /\ Len(<<>>) = 0 /\ <<>> \in Seq(Messages)
    <3>1. h \in Requests({k}, x) /\ h \in Messages
      BY <2>4, RequestKinds, MessageKinds
    <3> QED
      BY <3>1, EmptyAndOne
  <2>6. Off(k) \in SUBSET joined /\ Wrong(x) \in SUBSET joined /\ Off(k)' = Off(k) \ {c}
        /\ (c \in Off(k) <=> ~ (paused[c] <=> h = Stop))
    BY <1>1, <1>2, <2>4 DEF Off, Wrong, Stop
  <2>7. /\ Cardinality(joined) \in Nat /\ Cardinality(Off(k)) \in Nat /\ Cardinality(Wrong(x)) \in Nat
        /\ c \in Off(k) => Cardinality(Off(k)') = Cardinality(Off(k)) - 1
        /\ c \notin Off(k) => Off(k)' = Off(k)
    BY <1>2, <2>6, Counting
  <2>8. /\ AllSay({k}, x)'
        /\ requests' + Cardinality(Off(k)') + Cardinality(Wrong(x)') <= 2 + 2 * Cardinality(joined')
    <3>1. CASE c \in Off(k)
      <4>1. Send(c, <<h>>)
        BY <1>2, <2>2, <2>6, <3>1 DEF TakesPlay
      <4>2. toServer' = [toServer EXCEPT ![c] = toServer[c] \o <<h>>] /\ requests' \in Nat /\ requests' <= requests + 1
        BY <2>5, <4>1, SentKinds
      <4>3. AllSay({k}, x)'
        BY <1>1, <2>1, <2>5, <4>2, TakesSay
      <4>4. requests' + Cardinality(Off(k)') + Cardinality(Wrong(x)) <= 2 + 2 * Cardinality(joined)
        BY <1>2, <2>1, <2>7, <3>1, <4>2
      <4> QED
        BY <1>1, <1>3, <4>3, <4>4
    <3>2. CASE c \notin Off(k)
      <4>1. Send(c, <<>>)
        BY <1>2, <2>2, <2>6, <3>2 DEF TakesPlay
      <4>2. toServer' = [toServer EXCEPT ![c] = toServer[c] \o <<>>] /\ requests' \in Nat /\ requests' <= requests + 0
        BY <2>5, <4>1, SentKinds
      <4>3. AllSay({k}, x)'
        BY <1>1, <2>1, <2>5, <4>2, TakesSay
      <4>4. requests' + Cardinality(Off(k)) + Cardinality(Wrong(x)) <= 2 + 2 * Cardinality(joined)
        BY <1>2, <2>1, <2>7, <4>2
      <4> QED
        BY <1>1, <1>3, <2>7, <3>2, <4>3, <4>4
    <3> QED
      BY <3>1, <3>2
  <2>9. joined' \cap legacy' = {}
    BY <1>1, <1>4 DEF ControlsEcho
  <2>10. ControlsEcho'
    BY <2>8, <2>9 DEF ControlsEcho, BoxRates
  <2> QED
    BY <2>10 DEF EchoInv
<1>5. CASE LegacyEchoes
  <2>1. PICK x \in BoxRates :
          /\ AllSay({Start, Stop}, x)
          /\ \A d \in Clients : signals[d] \in Seq({r \in AllRates \ {0} : Clamped(r) = x})
          /\ requests + Cardinality(Wrong(x)) <= 3 + Cardinality(joined)
    BY <1>5 DEF LegacyEchoes
  <2>2. UNCHANGED <<toServer, requests>>
    BY <1>1, <1>5 DEF LegacyEchoes, TakesPlay
  <2>3. AllSay({Start, Stop}, x)'
    BY <1>1, <2>1, <2>2, TakesSay
  <2>4. LegacyEchoes'
    BY <1>1, <1>3, <1>5, <2>1, <2>2, <2>3 DEF LegacyEchoes, BoxRates, AllRates, Clamped
  <2> QED
    BY <2>4 DEF EchoInv
<1> QED
  BY <1>4, <1>5 DEF EchoInv

(* A box is set to the rate x that all messages show: it sends x at most   *)
(* once, and is then not wrong.                                            *)
LEMMA ShownEcho ==
  ASSUME Types, NEW c \in Clients, c \in joined, NEW y \in AllRates \ {0}, Shown(c, y),
         UNCHANGED joined, NEW K \in SUBSET {Start, Stop}, NEW x, x = Clamped(y), AllSay(K, x)
  PROVE  /\ requests' + Cardinality(Wrong(x)') <= requests + Cardinality(Wrong(x))
         /\ requests' \in Nat /\ Cardinality(Wrong(x)') \in Nat /\ Cardinality(Wrong(x)) \in Nat
         /\ \E s \in Seq(Requests(K, x)) : toServer' = [toServer EXCEPT ![c] = toServer[c] \o s]
PROOF
<1>1. /\ joined \subseteq Clients /\ spin \in [Clients -> BoxRates] /\ requests \in Nat
  BY TypesParts
<1>2. x \in AllRates \ {0} /\ Clamped(x) = x
  BY ClampedFacts
<1>3. /\ spin' = [spin EXCEPT ![c] = x]
      /\ Send(c, IF spin[c] = x THEN <<>> ELSE <<Speed(x)>>)
  BY DEF Shown
<1>4. /\ <<Speed(x)>> \in Seq(Requests(K, x)) /\ Len(<<Speed(x)>>) = 1 /\ <<Speed(x)>> \in Seq(Messages)
      /\ <<>> \in Seq(Requests(K, x)) /\ Len(<<>>) = 0 /\ <<>> \in Seq(Messages)
  <2>1. Speed(x) \in Requests(K, x) /\ Speed(x) \in Messages
    BY <1>2, RequestKinds, MessageKinds
  <2> QED
    BY <2>1, EmptyAndOne
<1>5. Wrong(x) \in SUBSET joined /\ Wrong(x)' = Wrong(x) \ {c} /\ (c \in Wrong(x) <=> spin[c] # x)
  BY <1>1, <1>3 DEF Wrong
<1>6. /\ Cardinality(Wrong(x)) \in Nat /\ Cardinality(Wrong(x)') \in Nat
      /\ c \in Wrong(x) => Cardinality(Wrong(x)') = Cardinality(Wrong(x)) - 1
      /\ c \notin Wrong(x) => Wrong(x)' = Wrong(x)
  <2>1. Wrong(x)' \in SUBSET joined
    BY <1>5
  <2> QED
    BY <1>1, <1>5, <2>1, Counting
<1>7. CASE c \in Wrong(x)
  <2>1. Send(c, <<Speed(x)>>)
    BY <1>3, <1>5, <1>7
  <2>2. /\ toServer' = [toServer EXCEPT ![c] = toServer[c] \o <<Speed(x)>>]
        /\ requests' \in Nat /\ requests' <= requests + 1
    BY <1>4, <2>1, SentKinds
  <2>3. requests' + Cardinality(Wrong(x)') <= requests + Cardinality(Wrong(x))
    <3>1. requests \in Nat
      BY <1>1
    <3> QED
      BY <1>6, <1>7, <2>2, <3>1
  <2>4. \E s \in Seq(Requests(K, x)) : toServer' = [toServer EXCEPT ![c] = toServer[c] \o s]
    BY <1>4, <2>2
  <2> QED
    BY <1>6, <2>2, <2>3, <2>4
<1>8. CASE c \notin Wrong(x)
  <2>1. Send(c, <<>>)
    BY <1>3, <1>5, <1>8
  <2>2. /\ toServer' = [toServer EXCEPT ![c] = toServer[c] \o <<>>]
        /\ requests' \in Nat /\ requests' <= requests + 0
    BY <1>4, <2>1, SentKinds
  <2>3. requests' + Cardinality(Wrong(x)') <= requests + Cardinality(Wrong(x))
    <3>1. requests \in Nat
      BY <1>1
    <3> QED
      BY <1>6, <1>8, <2>2, <3>1
  <2>4. \E s \in Seq(Requests(K, x)) : toServer' = [toServer EXCEPT ![c] = toServer[c] \o s]
    BY <1>4, <2>2
  <2> QED
    BY <1>6, <2>2, <2>3, <2>4
<1> QED
  BY <1>7, <1>8

(* A client takes a rate: a control shows it, a legacy watcher signals it. *)
LEMMA TakesRateEcho ==
  ASSUME Types, EchoInv, NEW c \in Clients, NEW y \in AllRates \ {0}, TakesRate(c, y)
  PROVE  EchoInv'
PROOF
<1>1. /\ c \in joined /\ toClient[c] # <<>> /\ Speed(y) = Head(toClient[c])
      /\ toClient' = [toClient EXCEPT ![c] = Tail(toClient[c])]
      /\ UNCHANGED <<joined, legacy, paused>>
  BY DEF TakesRate, Takes
<1>2. /\ joined \subseteq Clients /\ requests \in Nat
      /\ signals \in [Clients -> Seq(AllRates \ {0})]
  BY TypesParts
<1>3. \A k : Off(k)' = Off(k)
  BY <1>1 DEF Off, Stop
<1>4. ASSUME NEW K \in SUBSET {Start, Stop}, NEW x, AllSay(K, x)
      PROVE  x = Clamped(y)
  <2>1. Head(toClient[c]) \in Requests(K, x)
    BY <1>1, <1>4, QueuesSay DEF AllSay
  <2>2. Speed(y) \in Requests(K, x)
    BY <1>1, <2>1
  <2> QED
    BY <2>2, SaidKinds
<1>5. CASE ControlsEcho
  <2>1. PICK k \in {Start, Stop}, x \in BoxRates :
          AllSay({k}, x) /\ requests + Cardinality(Off(k)) + Cardinality(Wrong(x)) <= 2 + 2 * Cardinality(joined)
    BY <1>5 DEF ControlsEcho
  <2>2. Shown(c, y)
    BY <1>1, <1>5 DEF ControlsEcho, TakesRate
  <2>3. x = Clamped(y)
    BY <1>4, <2>1
  <2>4. /\ requests' + Cardinality(Wrong(x)') <= requests + Cardinality(Wrong(x))
        /\ requests' \in Nat /\ Cardinality(Wrong(x)') \in Nat /\ Cardinality(Wrong(x)) \in Nat
        /\ \E s \in Seq(Requests({k}, x)) : toServer' = [toServer EXCEPT ![c] = toServer[c] \o s]
    BY <1>1, <2>1, <2>2, <2>3, ShownEcho
  <2>5. AllSay({k}, x)'
    BY <1>1, <2>1, <2>4, TakesSay
  <2>6. Cardinality(joined) \in Nat /\ Cardinality(Off(k)) \in Nat
    <3>1. Off(k) \in SUBSET joined
      BY DEF Off
    <3> QED
      BY <1>2, <3>1, Counting
  <2>7. requests' + Cardinality(Off(k)) + Cardinality(Wrong(x)') <= 2 + 2 * Cardinality(joined)
    <3>1. /\ requests + Cardinality(Off(k)) + Cardinality(Wrong(x)) <= 2 + 2 * Cardinality(joined)
          /\ requests' + Cardinality(Wrong(x)') <= requests + Cardinality(Wrong(x))
          /\ requests' \in Nat /\ Cardinality(Wrong(x)') \in Nat /\ Cardinality(Wrong(x)) \in Nat
      BY <2>1, <2>4
    <3>2. requests \in Nat
      BY <1>2
    <3> QED
      BY <2>6, <3>1, <3>2
  <2>8. joined' \cap legacy' = {}
    BY <1>1, <1>5 DEF ControlsEcho
  <2>9. ControlsEcho'
    BY <1>1, <1>3, <2>5, <2>7, <2>8 DEF ControlsEcho, BoxRates
  <2> QED
    BY <2>9 DEF EchoInv
<1>6. CASE LegacyEchoes
  <2>1. PICK x \in BoxRates :
          /\ AllSay({Start, Stop}, x)
          /\ \A d \in Clients : signals[d] \in Seq({r \in AllRates \ {0} : Clamped(r) = x})
          /\ requests + Cardinality(Wrong(x)) <= 3 + Cardinality(joined)
    BY <1>6 DEF LegacyEchoes
  <2>2. UNCHANGED <<spin, toServer, requests>> /\ signals' = [signals EXCEPT ![c] = Append(signals[c], y)]
    BY <1>1, <1>6 DEF LegacyEchoes, TakesRate
  <2>3. x = Clamped(y)
    BY <1>4, <2>1
  <2>4. AllSay({Start, Stop}, x)'
    BY <1>1, <2>1, <2>2, TakesSay
  <2>5. \A d \in Clients : signals'[d] \in Seq({r \in AllRates \ {0} : Clamped(r) = x})
    <3> DEFINE R == {r \in AllRates \ {0} : Clamped(r) = x}
    <3>1. y \in R
      BY <2>3
    <3> HIDE DEF R
    <3>2. Append(signals[c], y) \in Seq(R)
      BY <2>1, <3>1, QueuesSay DEF R
    <3>3. \A d \in Clients : signals'[d] \in Seq(R)
      BY <1>2, <2>1, <2>2, <3>2 DEF R
    <3> QED
      BY <3>3 DEF R
  <2>6. Wrong(x)' = Wrong(x)
    BY <1>1, <2>2 DEF Wrong
  <2>7. LegacyEchoes'
    BY <1>1, <1>6, <2>1, <2>2, <2>4, <2>5, <2>6 DEF LegacyEchoes, BoxRates, AllRates, Clamped
  <2> QED
    BY <2>7 DEF EchoInv
<1> QED
  BY <1>5, <1>6 DEF EchoInv

(* The windows of a legacy watcher show a rate.                            *)
LEMMA ShowsRateEcho ==
  ASSUME Types, EchoInv, NEW c \in Clients, NEW y \in AllRates \ {0}, ShowsRate(c, y)
  PROVE  EchoInv'
PROOF
<1>1. /\ c \in legacy /\ c \in joined /\ signals[c] # <<>> /\ y = Head(signals[c]) /\ Shown(c, y)
      /\ signals' = [signals EXCEPT ![c] = Tail(signals[c])]
      /\ UNCHANGED <<joined, legacy, toClient>>
  BY DEF ShowsRate
<1>2. /\ joined \subseteq Clients /\ requests \in Nat /\ signals \in [Clients -> Seq(AllRates \ {0})]
  BY TypesParts
<1>3. joined # {} /\ joined \subseteq legacy /\ LegacyEchoes
  BY <1>1 DEF EchoInv, ControlsEcho, LegacyEchoes
<1>4. PICK x \in BoxRates :
        /\ AllSay({Start, Stop}, x)
        /\ \A d \in Clients : signals[d] \in Seq({r \in AllRates \ {0} : Clamped(r) = x})
        /\ requests + Cardinality(Wrong(x)) <= 3 + Cardinality(joined)
  BY <1>3 DEF LegacyEchoes
<1>5. x = Clamped(y) /\ \A d \in Clients : signals'[d] \in Seq({r \in AllRates \ {0} : Clamped(r) = x})
  <2> DEFINE R == {r \in AllRates \ {0} : Clamped(r) = x}
  <2>1. \A d \in Clients : signals[d] \in Seq(R)
    BY <1>4
  <2>2. y \in R /\ Tail(signals[c]) \in Seq(R)
    <3> HIDE DEF R
    <3> QED
      BY <1>1, <2>1, QueuesSay
  <2>3. \A d \in Clients : signals'[d] \in Seq(R)
    <3> HIDE DEF R
    <3> QED
      BY <1>1, <1>2, <2>1, <2>2
  <2> QED
    BY <2>2, <2>3
<1>6. /\ requests' + Cardinality(Wrong(x)') <= requests + Cardinality(Wrong(x))
      /\ requests' \in Nat /\ Cardinality(Wrong(x)') \in Nat /\ Cardinality(Wrong(x)) \in Nat
      /\ \E s \in Seq(Requests({Start, Stop}, x)) : toServer' = [toServer EXCEPT ![c] = toServer[c] \o s]
  BY <1>1, <1>4, <1>5, ShownEcho
<1>7. AllSay({Start, Stop}, x)'
  BY <1>1, <1>4, <1>6, TakesSay
<1>8. Cardinality(joined) \in Nat
  BY <1>2, Counting
<1>9. requests' + Cardinality(Wrong(x)') <= 3 + Cardinality(joined)
  BY <1>2, <1>4, <1>6, <1>8
<1>10. LegacyEchoes'
  BY <1>1, <1>3, <1>5, <1>7, <1>9 DEF LegacyEchoes, BoxRates, AllRates, Clamped
<1> QED
  BY <1>10 DEF EchoInv

(* Nothing that EchoInv speaks of changes.                                 *)
LEMMA EchoStays ==
  ASSUME EchoInv, UNCHANGED <<joined, paused, spin, toServer, toClient, requests, legacy, signals>>
  PROVE  EchoInv'
PROOF
<1>1. /\ \A K, x : AllSay(K, x) => AllSay(K, x)'
      /\ \A k, x : Off(k)' = Off(k) /\ Wrong(x)' = Wrong(x)
  BY DEF AllSay, Off, Wrong, Requests, IsPlay, Relayed, Clamped, Messages, Start, Stop, Speed
<1>2. ControlsEcho => ControlsEcho'
  BY <1>1 DEF ControlsEcho, BoxRates
<1>3. LegacyEchoes => LegacyEchoes'
  BY <1>1 DEF LegacyEchoes, BoxRates, AllRates, Clamped
<1> QED
  BY <1>2, <1>3 DEF EchoInv

(* The recording ends: nobody is told, and nobody answers.                 *)
LEMMA EndEcho ==
  ASSUME EchoInv, EndsRecording
  PROVE  EchoInv'
BY EchoStays DEF EndsRecording

(* One action of a user makes the clients send few requests, when those    *)
(* that share the stream are of one kind.                                  *)
THEOREM EchoesStayBounded == Patient /\ ~ Mixed => (LegacySpec => []EchoesAreBounded)
PROOF
<1> SUFFICES ASSUME Patient, ~ Mixed PROVE LegacySpec => []EchoesAreBounded
  OBVIOUS
<1>1. LegacyInit => Types /\ EchoInv
  <2> SUFFICES ASSUME LegacyInit PROVE Types /\ EchoInv
    OBVIOUS
  <2>1. Types
    BY InitTypes
  <2>2. joined = {} /\ requests = 0 /\ \A c \in Clients : toServer[c] = <<>> /\ toClient[c] = <<>>
    BY DEF LegacyInit, InitWith
  <2>3. 1 \in BoxRates /\ AllSay({Start}, 1)
    BY <2>2, ClampedFacts, EmptyAndOne DEF AllSay
  <2>4. Cardinality(Off(Start)) = 0 /\ Cardinality(Wrong(1)) = 0 /\ Cardinality(joined) = 0
    <3>1. Off(Start) = {} /\ Wrong(1) = {} /\ joined = {}
      BY <2>2 DEF Off, Wrong
    <3> QED
      BY <3>1, FS_EmptySet
  <2>5. requests + Cardinality(Off(Start)) + Cardinality(Wrong(1)) <= 2 + 2 * Cardinality(joined)
    <3>1. requests = 0
      BY <2>2
    <3> QED
      BY <2>4, <3>1
  <2>6. ControlsEcho
    BY <2>2, <2>3, <2>5 DEF ControlsEcho
  <2> QED
    BY <2>1, <2>6 DEF EchoInv
<1>2. Types /\ EchoInv /\ [LegacyNext]_allVars => Types' /\ EchoInv'
  <2> SUFFICES ASSUME Types, EchoInv, [LegacyNext]_allVars
               PROVE  Types' /\ EchoInv'
    OBVIOUS
  <2>1. ASSUME NEW c \in Clients, Moves(c)
        PROVE  Types' /\ EchoInv'
    BY <2>1, TypesStep, AsksEcho, JoinsEcho, TakesPlayEcho, TakesRateEcho, ShowsRateEcho, ServesEcho DEF Moves
  <2>2. CASE UNCHANGED allVars
    <3>1. UNCHANGED <<joined, paused, spin, toServer, toClient, requests, legacy, signals>>
      BY <2>2 DEF allVars, vars, legacyVars, serverVars, rateVars, controlVars, history
    <3> QED
      BY <2>2, <3>1, StutterTypes, EchoStays
  <2>3. CASE EndsRecording
    BY <2>3, EndTypes, EndEcho
  <2> QED
    BY <2>1, <2>2, <2>3, StepsMove
<1>3. Types /\ EchoInv => EchoesAreBounded
  <2> SUFFICES ASSUME Types, EchoInv PROVE requests <= 2 + 2 * Cardinality(joined)
    BY DEF EchoesAreBounded
  <2>1. requests \in Nat /\ joined \subseteq Clients
    BY TypesParts
  <2>2. /\ Cardinality(joined) \in Nat /\ (joined # {} => Cardinality(joined) >= 1)
        /\ \A k, x : Cardinality(Off(k)) \in Nat /\ Cardinality(Wrong(x)) \in Nat
    <3>1. \A k, x : Off(k) \in SUBSET joined /\ Wrong(x) \in SUBSET joined
      BY DEF Off, Wrong
    <3> QED
      BY <2>1, <3>1, Counting
  <2>3. CASE ControlsEcho
    <3>1. PICK k \in {Start, Stop}, x \in BoxRates :
            requests + Cardinality(Off(k)) + Cardinality(Wrong(x)) <= 2 + 2 * Cardinality(joined)
      BY <2>3 DEF ControlsEcho
    <3> QED
      BY <2>1, <2>2, <3>1
  <2>4. CASE LegacyEchoes
    <3>1. PICK x \in BoxRates : requests + Cardinality(Wrong(x)) <= 3 + Cardinality(joined)
      BY <2>4 DEF LegacyEchoes
    <3>2. Cardinality(joined) >= 1
      BY <2>2, <2>4 DEF LegacyEchoes
    <3> QED
      BY <2>1, <2>2, <3>1, <3>2
  <2> QED
    BY <2>3, <2>4 DEF EchoInv
<1> QED
  BY <1>1, <1>2, <1>3, PTL DEF LegacySpec
=============================================================================
