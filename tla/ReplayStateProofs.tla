------------------------- MODULE ReplayStateProofs -------------------------
(***************************************************************************)
(* Theorems about ReplayState, for every table, speed, buffer size, step   *)
(* and number of waiting handlers: its invariant and what follows from it, *)
(* and that it implements PlaybackCursor.                                  *)
(***************************************************************************)
EXTENDS ReplayState, EventDBProofs

\* Speeds are nonzero integers, and the sign of a product says whether two
\* have the same direction (ReplayState::speed).
LEMMA SpeedsAreInt ==
  /\ Speeds \subseteq Int /\ 1 \in Speeds /\ 0 \notin Speeds
  /\ \A f, g \in Speeds : /\ (f * g < 0) <=> ((f >= 0) # (g >= 0))
                          /\ (f * g >= 0) <=> ((f >= 0) = (g >= 0))
<1>1. Speeds \subseteq Int \ {0} /\ 1 \in Speeds
  BY ReplayAssumption
<1>2. ASSUME NEW f \in Int \ {0}, NEW g \in Int \ {0}
      PROVE  /\ (f * g < 0) <=> ((f >= 0) # (g >= 0))
             /\ (f * g >= 0) <=> ((f >= 0) = (g >= 0))
  OBVIOUS
<1> QED
  BY <1>1, <1>2

\* Timestamps, query positions and the end of the recording are integers.
LEMMA PositionsAreInt ==
  /\ Positions \ {EOF} \subseteq Nat
  /\ Positions \union {EOF} \subseteq Int
  /\ 1 .. MaxTime \subseteq Positions \ {EOF}
  /\ 0 \in Positions \ {EOF}
  /\ SeekTimes \subseteq Positions
BY EventDBAssumption, ReplayAssumption DEF Positions, EOF

\* The order of playback depends on the sign of the speed only.
LEMMA BeforeSign ==
  ASSUME NEW f, NEW g, (f >= 0) = (g >= 0), NEW t, NEW u
  PROVE  Before(t, u, f) = Before(t, u, g)
BY DEF Before

(***************************************************************************)
(* What run() does to the queue, the position and the speed.               *)
(***************************************************************************)
LEMMA RunProperties ==
  ASSUME db \in SUBSET Row, IsFiniteSet(db),
         NEW q \in SUBSET db, NEW last \in Positions \ {EOF}, NEW f \in Speeds,
         run(q, last, f)
  PROVE  /\ events' \subseteq db
         /\ lastEvent' \in Positions \ {EOF}
         /\ ts' \in Positions \union {EOF}
         /\ speed' \in Speeds
         /\ (speed' >= 0) = (f >= 0)
         /\ armed' = TRUE
         /\ events' # {} =>
              /\ ts' \in Stamps(events')
              /\ \A r \in events' : ~ Before(r.ts, ts', f)
         /\ q # {} => events' = q /\ lastEvent' = last
         /\ q = {} =>
              /\ \A r \in events' : Before(last, r.ts, f) /\ ~ Before(lastEvent', r.ts, f)
              /\ \A r \in db : /\ Before(last, r.ts, f)
                               /\ ~ Before(lastEvent', r.ts, f)
                               => r \in events'
              /\ ~ Before(lastEvent', last, f)
<1> DEFINE batch == IF q = {} THEN getEvents(db, last, f, BufSize) ELSE q
<1>1. f \in Int /\ f # 0 /\ 1 \in Speeds /\ BufSize \in Nat /\ last \in Nat /\ last \in Int
  BY SpeedsAreInt, PositionsAreInt, ReplayAssumption
<1>2. batch \subseteq db /\ batch \in SUBSET Row
  BY GetEventsSelects, <1>1
<1>3. events' = batch /\ armed' = TRUE
  BY DEF run
<1>4. /\ speed' \in Speeds
      /\ (speed' >= 0) = (f >= 0)
  BY <1>1 DEF run
<1>5. ASSUME batch # {}
      PROVE  /\ FirstTs(batch, f) \in Stamps(batch)
             /\ FirstTs(batch, f) \in Positions \ {EOF}
             /\ LastTs(batch, f) \in Stamps(batch)
             /\ LastTs(batch, f) \in Positions \ {EOF}
             /\ \A r \in batch : ~ Before(r.ts, FirstTs(batch, f), f)
             /\ \A r \in batch : ~ Before(LastTs(batch, f), r.ts, f)
  <2>1. Stamps(batch) \subseteq Positions \ {EOF}
    BY <1>2, StampsFinite, PositionsAreInt
  <2> QED
    BY <1>1, <1>2, <1>5, <2>1, FirstTsProperties, LastTsProperties
<1>6. ts' = IF batch = {} THEN EOF ELSE FirstTs(batch, f)
  BY DEF run
<1>7. lastEvent' = IF q = {} /\ batch # {} THEN LastTs(batch, f) ELSE last
  BY DEF run
<1>8. ASSUME q = {}
      PROVE  /\ \A r \in batch : Before(last, r.ts, f) /\ ~ Before(lastEvent', r.ts, f)
             /\ \A r \in db : Before(last, r.ts, f) /\ ~ Before(lastEvent', r.ts, f) => r \in batch
             /\ ~ Before(lastEvent', last, f)
  <2>1. batch = getEvents(db, last, f, BufSize)
    BY <1>8
  <2>2. \A r \in batch : Before(last, r.ts, f)
    BY <2>1, <1>1, GetEventsSelects DEF Select
  <2>3. CASE batch = {}
    BY <2>3, <1>7, <1>1 DEF Before
  <2>4. CASE batch # {}
    <3>1. lastEvent' = LastTs(batch, f)
      BY <2>4, <1>7, <1>8
    <3>2. \A r \in batch : ~ Before(lastEvent', r.ts, f)
      BY <3>1, <1>5, <2>4
    <3>3. ASSUME NEW r \in db, Before(last, r.ts, f), ~ Before(lastEvent', r.ts, f)
          PROVE  r \in batch
      <4>1. r \in Select(db, last, f)
        BY <3>3 DEF Select
      <4>2. ~ Before(LastTs(getEvents(db, last, f, BufSize), f), r.ts, f)
        BY <3>3, <3>1, <2>1
      <4>3. getEvents(db, last, f, BufSize) # {}
        BY <2>4, <2>1
      <4> HIDE DEF batch
      <4> QED
        BY <4>1, <4>2, <4>3, <2>1, <1>1, GetEventsCovers
    <3>4. ~ Before(lastEvent', last, f)
      <4>1. PICK r \in batch : r.ts = lastEvent'
        BY <3>1, <1>5, <2>4 DEF Stamps
      <4>2. Before(last, r.ts, f)
        BY <4>1, <2>2
      <4>3. r.ts \in Int
        BY <4>1, <1>2, RowTime
      <4> QED
        BY <4>1, <4>2, <4>3, <1>1 DEF Before
    <3> QED
      BY <3>2, <3>3, <3>4, <2>2
  <2> QED
    BY <2>3, <2>4
<1> HIDE DEF batch
<1>9. lastEvent' \in Positions \ {EOF}
  BY <1>7, <1>5
<1>10. ts' \in Positions \union {EOF}
  BY <1>6, <1>5
<1>11. events' # {} => /\ ts' \in Stamps(events')
                       /\ \A r \in events' : ~ Before(r.ts, ts', f)
  BY <1>3, <1>5, <1>6
<1>12. q # {} => events' = q /\ lastEvent' = last
  BY <1>3, <1>7 DEF batch
<1> QED
  BY <1>2, <1>3, <1>4, <1>8, <1>9, <1>10, <1>11, <1>12

-----------------------------------------------------------------------------
(* The inductive invariant holds initially. *)
LEMMA InitEstablishes == Init => IInv
<1> SUFFICES ASSUME Init PROVE IInv
  OBVIOUS
<1> USE DEF Init, EventDBInit
<1>1. TypeOK
  <2>1. 0 \in Positions \ {EOF} /\ 0 \in Positions \union {EOF}
    BY PositionsAreInt
  <2>2. 1 \in Speeds /\ 0 \in 0 .. MaxExpired
    BY SpeedsAreInt, ReplayAssumption
  <2> QED
    BY <2>1, <2>2 DEF TypeOK
<1>2. IsFiniteSet(db)
  BY FS_EmptySet
<1>3. NeverStalls /\ PausedIsDisarmed /\ TsIsFront
  BY DEF NeverStalls, PausedIsDisarmed, TsIsFront
<1>4. WithinSegment /\ Gapless /\ QueueAfterSent
  BY DEF WithinSegment, Gapless, QueueAfterSent, Covered, Before
<1> QED
  BY <1>1, <1>2, <1>3, <1>4 DEF IInv

\* A step that changes nothing preserves the invariant.
LEMMA StutterPreserves == IInv /\ UNCHANGED vars => IInv'
BY DEF IInv, TypeOK, NeverStalls, PausedIsDisarmed, TsIsFront, WithinSegment, Gapless,
       QueueAfterSent, Covered, Stamps, Before, vars, engine, history

(***************************************************************************)
(* The parts of the invariant that speak of the segment, after run() was   *)
(* called on what is left of the queue.  `now` is what the segment has     *)
(* sent so far.                                                            *)
(***************************************************************************)
LEMMA RunKeepsSegment ==
  ASSUME IInv, connected, UNCHANGED db,
         NEW q \in SUBSET events, run(q, lastEvent, speed),
         origin' = origin, missed' = missed, connected' = connected,
         sent' = sent \union (events \ q),
         \A r \in events \ q, s \in q : Before(r.ts, s.ts, speed)
  PROVE  WithinSegment' /\ Gapless' /\ QueueAfterSent' /\ TsIsFront'
<1>1. /\ db \in SUBSET Row /\ IsFiniteSet(db)
      /\ q \in SUBSET db /\ speed \in Speeds /\ speed \in Int
      /\ lastEvent \in Positions \ {EOF} /\ lastEvent \in Int
      /\ origin \in Int
  BY SpeedsAreInt, PositionsAreInt DEF IInv, TypeOK
<1>2. /\ events' \subseteq db
      /\ lastEvent' \in Positions \ {EOF}
      /\ (speed' >= 0) = (speed >= 0)
      /\ events' # {} =>
           /\ ts' \in Stamps(events')
           /\ \A r \in events' : ~ Before(r.ts, ts', speed)
      /\ q # {} => events' = q /\ lastEvent' = lastEvent
      /\ q = {} =>
           /\ \A r \in events' : Before(lastEvent, r.ts, speed) /\ ~ Before(lastEvent', r.ts, speed)
           /\ \A r \in db : /\ Before(lastEvent, r.ts, speed)
                            /\ ~ Before(lastEvent', r.ts, speed)
                            => r \in events'
           /\ ~ Before(lastEvent', lastEvent, speed)
  BY <1>1, RunProperties
<1>3. \A t, u : Before(t, u, speed') = Before(t, u, speed)
  BY <1>2, BeforeSign
<1>4. lastEvent' \in Int
  BY <1>2, PositionsAreInt
<1>5. \A r \in db : r.ts \in Int
  BY <1>1, RowTime
<1>6. TsIsFront'
  BY <1>2, <1>3 DEF TsIsFront
<1>7. /\ ~ Before(lastEvent, origin, speed)
      /\ sent \union events \union missed \subseteq Covered
      /\ Covered = sent \union events \union missed
      /\ sent \intersect events = {}
      /\ missed \intersect (sent \union events) = {}
      /\ \A s \in sent, e \in events : Before(s.ts, e.ts, speed)
  BY DEF IInv, WithinSegment, Gapless, QueueAfterSent
<1>8. Covered' = {r \in db : Before(origin, r.ts, speed) /\ ~ Before(lastEvent', r.ts, speed)}
  BY <1>3 DEF Covered
<1>9. CASE q # {}
  <2>1. events' = q /\ lastEvent' = lastEvent
    BY <1>2, <1>9
  <2>2. Covered' = Covered
    BY <1>8, <2>1 DEF Covered
  <2>3. sent' \union events' \union missed' = sent \union events \union missed
    BY <2>1
  <2>4. WithinSegment'
    BY <2>1, <2>2, <2>3, <1>3, <1>7 DEF WithinSegment
  <2>5. Gapless'
    BY <2>1, <2>2, <2>3, <1>7 DEF Gapless
  <2>6. QueueAfterSent'
    BY <2>1, <1>3, <1>7 DEF QueueAfterSent
  <2> QED
    BY <2>4, <2>5, <2>6, <1>6
<1>10. CASE q = {}
  <2>1. /\ \A r \in events' : Before(lastEvent, r.ts, speed) /\ ~ Before(lastEvent', r.ts, speed)
        /\ \A r \in db : /\ Before(lastEvent, r.ts, speed)
                         /\ ~ Before(lastEvent', r.ts, speed)
                         => r \in events'
        /\ ~ Before(lastEvent', lastEvent, speed)
    BY <1>2, <1>10
  <2>2. sent' = sent \union events
    BY <1>10
  <2>3. \A r \in db : (r \in Covered' <=> r \in Covered \/ r \in events')
    <3>1. TAKE r \in db
    <3>2. r.ts \in Int /\ origin \in Int /\ lastEvent \in Int /\ lastEvent' \in Int
      BY <1>1, <1>4, <1>5
    <3>3. r \in Covered' <=> Before(origin, r.ts, speed) /\ ~ Before(lastEvent', r.ts, speed)
      BY <1>8
    <3>4. r \in Covered <=> Before(origin, r.ts, speed) /\ ~ Before(lastEvent, r.ts, speed)
      BY DEF Covered
    <3>5. r \in events' <=> Before(lastEvent, r.ts, speed) /\ ~ Before(lastEvent', r.ts, speed)
      BY <2>1
    <3>6. ~ Before(lastEvent, origin, speed) /\ ~ Before(lastEvent', lastEvent, speed)
      BY <1>7, <2>1
    <3>7. /\ Before(lastEvent, r.ts, speed) => Before(origin, r.ts, speed)
          /\ Before(lastEvent', r.ts, speed) => Before(lastEvent, r.ts, speed)
      BY <3>2, <3>6, <1>1 DEF Before
    <3> QED
      BY <3>3, <3>4, <3>5, <3>7
  <2>4. Covered' = Covered \union events'
    <3>1. Covered' \subseteq db /\ Covered \subseteq db
      BY <1>8 DEF Covered
    <3> QED
      BY <3>1, <2>3, <1>2
  <2>5. \A c \in Covered, e \in events' : Before(c.ts, e.ts, speed)
    <3>1. TAKE c \in Covered, e \in events'
    <3>2. ~ Before(lastEvent, c.ts, speed) /\ Before(lastEvent, e.ts, speed)
      BY <2>1 DEF Covered
    <3>3. c.ts \in Int /\ e.ts \in Int
      BY <1>2, <1>5 DEF Covered
    <3> QED
      BY <3>2, <3>3, <1>1 DEF Before
  <2>6. Covered \intersect events' = {}
    <3>1. \A r \in Covered : ~ Before(lastEvent, r.ts, speed)
      BY DEF Covered
    <3> QED
      BY <3>1, <2>1
  <2>7. ~ Before(lastEvent', origin, speed')
    BY <1>1, <1>3, <1>4, <1>7, <2>1 DEF Before
  <2>8. sent' \union events' \union missed' = Covered'
    BY <2>2, <2>4, <1>7
  <2>9. WithinSegment'
    BY <2>7, <2>8 DEF WithinSegment
  <2>10. Gapless'
    BY <2>2, <2>6, <2>8, <1>7 DEF Gapless
  <2>11. QueueAfterSent'
    BY <2>2, <2>5, <1>3, <1>7 DEF QueueAfterSent
  <2> QED
    BY <2>9, <2>10, <2>11, <1>6
<1> QED
  BY <1>9, <1>10

-----------------------------------------------------------------------------
\* What is popped comes before what stays in the queue.
LEMMA DueComesFirst ==
  ASSUME IInv, NEW r \in Due, NEW s \in events \ Due
  PROVE  Before(r.ts, s.ts, speed)
<1>1. PICK p \in events : ~ Before(s.ts, p.ts, speed) /\ ~ Near(p)
  BY DEF Due
<1>2. Before(r.ts, p.ts, speed)
  BY <1>1 DEF Due
<1>3. r \in Row /\ s \in Row /\ p \in Row
  BY DEF Due, IInv, TypeOK
<1>4. r.ts \in Int /\ s.ts \in Int /\ p.ts \in Int
  BY <1>3, RowTime
<1> QED
  BY <1>1, <1>2, <1>4 DEF Before

(* The timer expires. *)
LEMMA TimerExpiresPreserves == IInv /\ TimerExpires => IInv'
<1> SUFFICES ASSUME IInv, TimerExpires PROVE IInv'
  OBVIOUS
<1> USE DEF TimerExpires, history
<1>1. TypeOK' /\ IsFiniteSet(db)'
  <2>1. expired' \in 0 .. MaxExpired
    BY ReplayAssumption DEF IInv, TypeOK
  <2> QED
    BY <2>1 DEF IInv, TypeOK
<1>2. NeverStalls' /\ PausedIsDisarmed'
  BY DEF IInv, TypeOK, NeverStalls, PausedIsDisarmed
<1>3. TsIsFront' /\ WithinSegment' /\ Gapless' /\ QueueAfterSent'
  BY DEF IInv, TsIsFront, WithinSegment, Gapless, QueueAfterSent, Covered, Stamps, Before
<1> QED
  BY <1>1, <1>2, <1>3 DEF IInv

(* A handler that finds the playback paused. *)
LEMMA HandlerPausedPreserves == IInv /\ handlerPaused => IInv'
<1> SUFFICES ASSUME IInv, handlerPaused PROVE IInv'
  OBVIOUS
<1> USE DEF handlerPaused, history
<1>1. TypeOK' /\ IsFiniteSet(db)'
  <2>1. expired' \in 0 .. MaxExpired
    BY ReplayAssumption DEF IInv, TypeOK
  <2> QED
    BY <2>1 DEF IInv, TypeOK
<1>2. NeverStalls' /\ PausedIsDisarmed'
  BY DEF IInv, TypeOK, NeverStalls, PausedIsDisarmed
<1>3. TsIsFront' /\ WithinSegment' /\ Gapless' /\ QueueAfterSent'
  BY DEF IInv, TsIsFront, WithinSegment, Gapless, QueueAfterSent, Covered, Stamps, Before
<1> QED
  BY <1>1, <1>2, <1>3 DEF IInv

(* A handler that finds the stream gone: what it popped is lost, but then  *)
(* nothing more is claimed of the segment than that it stays in order.     *)
LEMMA HandlerDisconnectedPreserves == IInv /\ handlerDisconnected => IInv'
<1> SUFFICES ASSUME IInv, handlerDisconnected PROVE IInv'
  OBVIOUS
<1> USE DEF handlerDisconnected, history
<1>1. TypeOK' /\ IsFiniteSet(db)'
  <2>1. expired' \in 0 .. MaxExpired
    BY ReplayAssumption DEF IInv, TypeOK
  <2> QED
    BY <2>1 DEF IInv, TypeOK
<1>2. NeverStalls' /\ PausedIsDisarmed' /\ TsIsFront' /\ Gapless'
  BY DEF NeverStalls, PausedIsDisarmed, TsIsFront, Gapless
<1>3. WithinSegment' /\ QueueAfterSent'
  BY DEF IInv, WithinSegment, QueueAfterSent, Covered, Before
<1> QED
  BY <1>1, <1>2, <1>3 DEF IInv

(* A handler that sends what is due and runs on. *)
LEMMA HandlerSendsPreserves == IInv /\ handlerSends => IInv'
<1> SUFFICES ASSUME IInv, handlerSends PROVE IInv'
  OBVIOUS
<1>0. /\ expired > 0 /\ state = "running" /\ connected
      /\ sent' = sent \union Due
      /\ run(events \ Due, lastEvent, speed)
      /\ expired' = expired - 1
      /\ db' = db /\ state' = state /\ connected' = connected
      /\ origin' = origin /\ missed' = missed
  BY DEF handlerSends
<1>1. /\ db \in SUBSET Row /\ IsFiniteSet(db)
      /\ events \ Due \in SUBSET db /\ speed \in Speeds
      /\ lastEvent \in Positions \ {EOF}
      /\ Due \subseteq events
  BY DEF IInv, TypeOK, Due
<1>2. /\ events' \subseteq db
      /\ lastEvent' \in Positions \ {EOF}
      /\ ts' \in Positions \union {EOF}
      /\ speed' \in Speeds
      /\ armed' = TRUE
  BY <1>0, <1>1, RunProperties
<1>3. TypeOK' /\ IsFiniteSet(db)'
  BY <1>0, <1>1, <1>2, ReplayAssumption DEF IInv, TypeOK
<1>4. NeverStalls' /\ PausedIsDisarmed'
  BY <1>0, <1>2 DEF NeverStalls, PausedIsDisarmed
<1>5. sent' = sent \union (events \ (events \ Due))
  BY <1>0, <1>1
<1>6. \A r \in events \ (events \ Due), s \in events \ Due : Before(r.ts, s.ts, speed)
  BY DueComesFirst
<1>7. WithinSegment' /\ Gapless' /\ QueueAfterSent' /\ TsIsFront'
  BY <1>0, <1>5, <1>6, RunKeepsSegment
<1> QED
  BY <1>3, <1>4, <1>7 DEF IInv

(* play() *)
LEMMA PlayPreserves == IInv /\ play => IInv'
<1> SUFFICES ASSUME IInv, play PROVE IInv'
  OBVIOUS
<1>1. CASE state # "running"
  <2>0. /\ connected /\ state' = "running"
        /\ run(events, lastEvent, speed)
        /\ expired' = expired
        /\ db' = db /\ connected' = connected
        /\ origin' = origin /\ sent' = sent /\ missed' = missed
    BY <1>1 DEF play, history
  <2>1. /\ db \in SUBSET Row /\ IsFiniteSet(db)
        /\ events \in SUBSET db /\ speed \in Speeds
        /\ lastEvent \in Positions \ {EOF}
    BY DEF IInv, TypeOK
  <2>2. /\ events' \subseteq db
        /\ lastEvent' \in Positions \ {EOF}
        /\ ts' \in Positions \union {EOF}
        /\ speed' \in Speeds
        /\ armed' = TRUE
    BY <2>0, <2>1, RunProperties
  <2>3. TypeOK' /\ IsFiniteSet(db)'
    BY <2>0, <2>1, <2>2 DEF IInv, TypeOK
  <2>4. NeverStalls' /\ PausedIsDisarmed'
    BY <2>0, <2>2 DEF NeverStalls, PausedIsDisarmed
  <2>5. sent' = sent \union (events \ events)
    BY <2>0
  <2>6. WithinSegment' /\ Gapless' /\ QueueAfterSent' /\ TsIsFront'
    BY <2>0, <2>5, RunKeepsSegment
  <2> QED
    BY <2>3, <2>4, <2>6 DEF IInv
<1>2. CASE state = "running"
  BY <1>2, StutterPreserves DEF play, vars, engine, history
<1> QED
  BY <1>1, <1>2

(* pause() *)
LEMMA PausePreserves == IInv /\ pause => IInv'
<1> SUFFICES ASSUME IInv, pause PROVE IInv'
  OBVIOUS
<1> USE DEF pause, history
<1>1. TypeOK' /\ IsFiniteSet(db)'
  BY DEF IInv, TypeOK
<1>2. NeverStalls' /\ PausedIsDisarmed'
  BY DEF IInv, TypeOK, NeverStalls, PausedIsDisarmed
<1>3. TsIsFront' /\ WithinSegment' /\ Gapless' /\ QueueAfterSent'
  BY DEF IInv, TsIsFront, WithinSegment, Gapless, QueueAfterSent, Covered, Stamps, Before
<1> QED
  BY <1>1, <1>2, <1>3 DEF IInv

(* A segment that has just started, with an empty queue, is as claimed. *)
LEMMA FreshSegment ==
  ASSUME origin' = lastEvent', lastEvent' \in Int, events' = {}, sent' = {}, missed' = {},
         db \in SUBSET Row, db' = db
  PROVE  TsIsFront' /\ WithinSegment' /\ Gapless' /\ QueueAfterSent'
<1>1. \A r \in db : r.ts \in Int
  BY RowTime
<1>2. Covered' = {}
  BY <1>1 DEF Covered, Before
<1> QED
  BY <1>2 DEF TsIsFront, WithinSegment, Gapless, QueueAfterSent, Before

(* seek(t) *)
LEMMA SeekPreserves == ASSUME IInv, NEW t \in SeekTimes, seek(t) PROVE IInv'
<1> USE DEF seek, NewSegment
<1>0. db \in SUBSET Row /\ db' = db
  BY DEF IInv, TypeOK
<1>1. lastEvent' \in Positions \ {EOF}
  <2>1. CASE t = EOF /\ db = {}
    BY <2>1, PositionsAreInt DEF eventRange
  <2>2. CASE t = EOF /\ db # {}
    <3>1. LastTs(db, 1) \in Stamps(db)
      BY <2>2, <1>0, LastTsProperties
    <3>2. LastTs(db, 1) \in 1 .. MaxTime
      BY <3>1, <1>0, StampsFinite
    <3> QED
      BY <2>2, <3>2, PositionsAreInt DEF eventRange
  <2>3. CASE t # EOF
    BY <2>3, PositionsAreInt
  <2> QED
    BY <2>1, <2>2, <2>3
<1>2. TypeOK' /\ IsFiniteSet(db)'
  <2>1. ts' \in Positions \union {EOF}
    BY PositionsAreInt
  <2> QED
    BY <1>1, <2>1 DEF IInv, TypeOK
<1>3. NeverStalls' /\ PausedIsDisarmed'
  BY DEF IInv, NeverStalls, PausedIsDisarmed
<1>4. TsIsFront' /\ WithinSegment' /\ Gapless' /\ QueueAfterSent'
  BY <1>0, <1>1, PositionsAreInt, FreshSegment
<1> QED
  BY <1>2, <1>3, <1>4 DEF IInv

(* speed(f), same direction *)
LEMMA SpeedSamePreserves == ASSUME IInv, NEW f \in Speeds, speedSame(f) PROVE IInv'
<1> USE DEF speedSame, history
<1>1. TypeOK' /\ IsFiniteSet(db)'
  BY DEF IInv, TypeOK
<1>2. NeverStalls' /\ PausedIsDisarmed'
  BY DEF IInv, NeverStalls, PausedIsDisarmed
<1>3. (speed' >= 0) = (speed >= 0)
  BY SpeedsAreInt DEF IInv, TypeOK
<1>4. \A t, u : Before(t, u, speed') = Before(t, u, speed)
  BY <1>3, BeforeSign
<1>5. Covered' = Covered
  BY <1>4 DEF Covered
<1>6. TsIsFront' /\ WithinSegment' /\ Gapless' /\ QueueAfterSent'
  BY <1>4, <1>5 DEF IInv, TsIsFront, WithinSegment, Gapless, QueueAfterSent, Stamps
<1> QED
  BY <1>1, <1>2, <1>6 DEF IInv

(* speed(f), the other direction *)
LEMMA SpeedTurnPreserves == ASSUME IInv, NEW f \in Speeds, speedTurn(f) PROVE IInv'
<1> DEFINE last == IF ts \in {0, EOF} THEN lastEvent ELSE ts
<1>1. last \in Positions \ {EOF} /\ last \in Int
  BY PositionsAreInt DEF IInv, TypeOK
<1>2. /\ db \in SUBSET Row /\ IsFiniteSet(db) /\ db' = db
      /\ origin' = last /\ sent' = {} /\ missed' = {}
      /\ state' = state /\ expired' = expired /\ connected' = connected /\ connected
  BY DEF speedTurn, IInv, TypeOK
<1>3. CASE state # "running"
  <2>1. events' = {} /\ lastEvent' = last /\ speed' = f /\ ts' = ts /\ armed' = armed
    BY <1>3 DEF speedTurn
  <2> HIDE DEF last
  <2>2. TypeOK' /\ IsFiniteSet(db)'
    BY <1>1, <1>2, <2>1 DEF IInv, TypeOK
  <2>3. NeverStalls' /\ PausedIsDisarmed'
    BY <1>2, <2>1 DEF IInv, NeverStalls, PausedIsDisarmed
  <2>4. TsIsFront' /\ WithinSegment' /\ Gapless' /\ QueueAfterSent'
    BY <1>1, <1>2, <2>1, FreshSegment
  <2> QED
    BY <2>2, <2>3, <2>4 DEF IInv
<1>4. CASE state = "running"
  <2>1. run({}, last, f)
    BY <1>4 DEF speedTurn
  <2> HIDE DEF last
  <2>2. /\ events' \subseteq db
        /\ lastEvent' \in Positions \ {EOF}
        /\ ts' \in Positions \union {EOF}
        /\ speed' \in Speeds
        /\ (speed' >= 0) = (f >= 0)
        /\ armed' = TRUE
        /\ events' # {} =>
             /\ ts' \in Stamps(events')
             /\ \A r \in events' : ~ Before(r.ts, ts', f)
        /\ \A r \in events' : Before(last, r.ts, f) /\ ~ Before(lastEvent', r.ts, f)
        /\ \A r \in db : Before(last, r.ts, f) /\ ~ Before(lastEvent', r.ts, f) => r \in events'
        /\ ~ Before(lastEvent', last, f)
    BY <1>1, <1>2, <2>1, RunProperties
  <2>3. \A t, u : Before(t, u, speed') = Before(t, u, f)
    BY <2>2, BeforeSign
  <2>4. TypeOK' /\ IsFiniteSet(db)'
    BY <1>1, <1>2, <2>2 DEF IInv, TypeOK
  <2>5. NeverStalls' /\ PausedIsDisarmed'
    BY <1>2, <1>4, <2>2 DEF NeverStalls, PausedIsDisarmed
  <2>6. TsIsFront'
    BY <2>2, <2>3 DEF TsIsFront
  <2>7. Covered' = events'
    BY <1>2, <2>2, <2>3 DEF Covered
  <2>8. WithinSegment' /\ Gapless' /\ QueueAfterSent'
    BY <1>2, <2>2, <2>3, <2>7 DEF WithinSegment, Gapless, QueueAfterSent
  <2> QED
    BY <2>4, <2>5, <2>6, <2>8 DEF IInv
<1> QED
  BY <1>3, <1>4

(* A message is recorded. *)
LEMMA StorePreserves == ASSUME IInv, NEW r \in Row, Store(r) PROVE IInv'
<1>0. /\ db' = db \union {r} /\ r \notin db
      /\ missed' = IF Before(origin, r.ts, speed) /\ ~ Before(lastEvent, r.ts, speed)
                     THEN missed \union {r} ELSE missed
      /\ UNCHANGED <<events, ts, lastEvent, speed, state, armed, expired, connected, origin, sent>>
  BY DEF Store, storeEvent, engine
<1>1. TypeOK' /\ IsFiniteSet(db)'
  <2>1. IsFiniteSet(db \union {r})
    BY FS_AddElement DEF IInv
  <2> QED
    BY <1>0, <2>1 DEF IInv, TypeOK
<1>2. NeverStalls' /\ PausedIsDisarmed' /\ TsIsFront' /\ QueueAfterSent'
  BY <1>0 DEF IInv, NeverStalls, PausedIsDisarmed, TsIsFront, QueueAfterSent, Stamps, Before
<1>3. Covered' = Covered \union (missed' \ missed)
  <2>1. Covered' = {q \in db \union {r} :
                      Before(origin, q.ts, speed) /\ ~ Before(lastEvent, q.ts, speed)}
    BY <1>0 DEF Covered, Before
  <2>2. r \notin missed
    BY <1>0 DEF IInv, TypeOK
  <2> QED
    BY <1>0, <2>1, <2>2 DEF Covered
<1>4. missed' = missed \union (missed' \ missed) /\ missed' \ missed \subseteq {r}
  BY <1>0
<1>5. r \notin sent \union events
  BY <1>0 DEF IInv, TypeOK
<1>6. WithinSegment'
  BY <1>0, <1>3, <1>4 DEF IInv, WithinSegment, Before
<1>7. Gapless'
  BY <1>0, <1>3, <1>4, <1>5 DEF IInv, Gapless
<1> QED
  BY <1>1, <1>2, <1>6, <1>7 DEF IInv

(* The stream goes away. *)
LEMMA StreamDiesPreserves == IInv /\ StreamDies => IInv'
<1> SUFFICES ASSUME IInv, StreamDies PROVE IInv'
  OBVIOUS
<1> USE DEF StreamDies, history
<1>1. TypeOK' /\ IsFiniteSet(db)'
  BY DEF IInv, TypeOK
<1>2. NeverStalls' /\ PausedIsDisarmed' /\ TsIsFront' /\ Gapless'
  BY DEF IInv, NeverStalls, PausedIsDisarmed, TsIsFront, Gapless
<1>3. WithinSegment' /\ QueueAfterSent'
  BY DEF IInv, WithinSegment, QueueAfterSent, Covered, Before
<1> QED
  BY <1>1, <1>2, <1>3 DEF IInv

-----------------------------------------------------------------------------
\* Every step of the engine preserves the invariant: one case per action.
LEMMA NextPreserves == IInv /\ [Next]_vars => IInv'
<1> SUFFICES ASSUME IInv, [Next]_vars PROVE IInv'
  OBVIOUS
<1>1. CASE play
  BY <1>1, PlayPreserves
<1>2. CASE pause
  BY <1>2, PausePreserves
<1>3. CASE \E t \in SeekTimes : seek(t)
  BY <1>3, SeekPreserves
<1>4. CASE \E f \in Speeds : speedSame(f) \/ speedTurn(f)
  BY <1>4, SpeedSamePreserves, SpeedTurnPreserves
<1>5. CASE TimerExpires
  BY <1>5, TimerExpiresPreserves
<1>6. CASE timer_handler
  BY <1>6, HandlerPausedPreserves, HandlerSendsPreserves, HandlerDisconnectedPreserves
     DEF timer_handler
<1>7. CASE \E r \in Row : Store(r)
  BY <1>7, StorePreserves
<1>8. CASE StreamDies
  BY <1>8, StreamDiesPreserves
<1>9. CASE UNCHANGED vars
  BY <1>9, StutterPreserves
<1> QED
  BY <1>1, <1>2, <1>3, <1>4, <1>5, <1>6, <1>7, <1>8, <1>9 DEF Next, Control

(***************************************************************************)
(* The inductive invariant holds in every state the engine reaches.        *)
(***************************************************************************)
THEOREM Invariance == Spec => []IInv
BY InitEstablishes, NextPreserves, PTL DEF Spec

(***************************************************************************)
(* Type correctness: the queue, what was sent and what was missed are rows *)
(* of the table, and the query position is never the end-of-file mark.     *)
(***************************************************************************)
THEOREM TypeCorrectness == Spec => []TypeOK
BY Invariance, PTL DEF IInv

(***************************************************************************)
(* A running playback always has a timer armed or a handler waiting,       *)
(* however calls and expiries interleave.                                  *)
(***************************************************************************)
THEOREM TimerCorrectness == Spec => []NeverStalls
BY Invariance, PTL DEF IInv

(***************************************************************************)
(* A paused playback has no timer armed: what still comes is a handler     *)
(* that was waiting already.                                               *)
(***************************************************************************)
THEOREM NoTimerWhilePaused == Spec => []PausedIsDisarmed
BY Invariance, PTL DEF IInv

(***************************************************************************)
(* Every message of the segment up to the last one retrieved is sent or in *)
(* the queue, once, unless it was recorded too late for a query.           *)
(***************************************************************************)
THEOREM ExactlyOnce == Spec => []Gapless
BY Invariance, PTL DEF IInv

(***************************************************************************)
(* Messages leave in the order of their timestamps.                        *)
(***************************************************************************)
THEOREM InOrder == Spec => []QueueAfterSent
BY Invariance, PTL DEF IInv

(***************************************************************************)
(* The position that is reported is that of the next message to be sent.   *)
(***************************************************************************)
THEOREM PositionIsNext == Spec => []TsIsFront
BY Invariance, PTL DEF IInv

(***************************************************************************)
(* What was sent, is queued or came too late lies between the start of the *)
(* segment and the last message retrieved, through every seek and change.  *)
(***************************************************************************)
THEOREM PositionInSegment == Spec => []WithinSegment
BY Invariance, PTL DEF IInv

(***************************************************************************)
(* A paused playback sends nothing.                                        *)
(***************************************************************************)
THEOREM PauseIsEffective == Spec => PausedIsSilent
<1>1. ASSUME [Next]_vars, state = "paused"
      PROVE  sent' \subseteq sent
  <2>1. CASE UNCHANGED vars
    BY <2>1 DEF vars, history
  <2>2. CASE timer_handler
    BY <2>2, <1>1 DEF timer_handler, handlerPaused, handlerSends, handlerDisconnected, history
  <2>3. CASE Control
    BY <2>3 DEF Control, play, pause, seek, NewSegment, speedSame, speedTurn, history
  <2>4. CASE TimerExpires \/ StreamDies \/ \E r \in Row : Store(r)
    BY <2>4 DEF TimerExpires, StreamDies, Store, history
  <2> QED
    BY <1>1, <2>1, <2>2, <2>3, <2>4 DEF Next
<1>2. [Next]_vars => [state = "paused" => sent' \subseteq sent]_vars
  BY <1>1
<1> QED
  BY <1>2, PTL DEF Spec, PausedIsSilent
-----------------------------------------------------------------------------
(***************************************************************************)
(* Two more invariants.  A playback whose queue is empty, and which is not *)
(* at the end of the recording, has not sent anything in this segment; and *)
(* a query position other than the start of the segment is the timestamp   *)
(* of a recorded message.                                                  *)
(***************************************************************************)
DrainedIsEOF == connected /\ events = {} /\ ts # EOF => sent = {}
LastEventRecorded == lastEvent # origin => lastEvent \in Stamps(db)
PositionInv == DrainedIsEOF /\ LastEventRecorded

\* run() moves the query position to a recorded message only, and reports the end
\* when nothing is left.
LEMMA RunPosition ==
  ASSUME db \in SUBSET Row, db' = db,
         NEW q \in SUBSET db, NEW last, NEW f \in Speeds, run(q, last, f)
  PROVE  /\ events' = {} => ts' = EOF
         /\ lastEvent' # last => lastEvent' \in Stamps(db)
<1> DEFINE batch == IF q = {} THEN getEvents(db, last, f, BufSize) ELSE q
<1>1. /\ events' = batch
      /\ ts' = IF batch = {} THEN EOF ELSE FirstTs(batch, f)
      /\ lastEvent' = IF q = {} /\ batch # {} THEN LastTs(batch, f) ELSE last
  BY DEF run
<1>2. f \in Int /\ BufSize \in Nat
  BY SpeedsAreInt, ReplayAssumption
<1>3. batch \subseteq db /\ batch \in SUBSET Row
  BY <1>2, GetEventsSelects
<1> HIDE DEF batch
<1>4. batch # {} => LastTs(batch, f) \in Stamps(db)
  BY <1>2, <1>3, LastTsProperties DEF Stamps
<1> QED
  BY <1>1, <1>4

\* The invariants of positions hold at the start.
LEMMA InitPosition == Init => PositionInv
BY DEF Init, PositionInv, DrainedIsEOF, LastEventRecorded

\* Every step keeps it.
LEMMA NextPosition == IInv /\ PositionInv /\ [Next]_vars => PositionInv'
<1> SUFFICES ASSUME IInv, PositionInv, [Next]_vars PROVE PositionInv'
  OBVIOUS
<1> USE DEF PositionInv, DrainedIsEOF, LastEventRecorded
<1>0. db \in SUBSET Row /\ events \in SUBSET db /\ speed \in Speeds
  BY DEF IInv, TypeOK
<1>1. CASE play
  <2>1. CASE state # "running"
    <3>1. /\ run(events, lastEvent, speed)
          /\ db' = db /\ origin' = origin /\ sent' = sent
      BY <1>1, <2>1 DEF play, history
    <3>2. /\ events' = {} => ts' = EOF
          /\ lastEvent' # lastEvent => lastEvent' \in Stamps(db)
      BY <1>0, <3>1, RunPosition
    <3> QED
      BY <3>1, <3>2 DEF Stamps
  <2>2. CASE state = "running"
    BY <1>1, <2>2 DEF play, history, Stamps
  <2> QED
    BY <2>1, <2>2
<1>2. CASE pause
  BY <1>2 DEF pause, history, Stamps
<1>3. CASE \E t \in SeekTimes : seek(t)
  BY <1>3 DEF seek, NewSegment
<1>4. CASE \E f \in Speeds : speedSame(f)
  BY <1>4 DEF speedSame, history, Stamps
<1>5. ASSUME NEW f \in Speeds, speedTurn(f) PROVE PositionInv'
  <2> DEFINE last == IF ts \in {0, EOF} THEN lastEvent ELSE ts
  <2>1. origin' = last /\ sent' = {} /\ db' = db
    BY <1>5 DEF speedTurn
  <2>2. CASE state # "running"
    BY <1>5, <2>1, <2>2 DEF speedTurn
  <2>3. CASE state = "running"
    <3>1. run({}, last, f)
      BY <1>5, <2>3 DEF speedTurn
    <3> HIDE DEF last
    <3>2. lastEvent' # last => lastEvent' \in Stamps(db)
      BY <1>0, <2>1, <3>1, RunPosition
    <3> QED
      BY <2>1, <3>2 DEF Stamps
  <2> QED
    BY <2>2, <2>3
<1>6. CASE TimerExpires
  BY <1>6 DEF TimerExpires, history, Stamps
<1>7. CASE handlerPaused
  BY <1>7 DEF handlerPaused, history, Stamps
<1>8. CASE handlerSends
  <2>1. /\ run(events \ Due, lastEvent, speed)
        /\ db' = db /\ origin' = origin
    BY <1>8 DEF handlerSends
  <2>2. /\ events' = {} => ts' = EOF
        /\ lastEvent' # lastEvent => lastEvent' \in Stamps(db)
    BY <1>0, <2>1, RunPosition
  <2> QED
    BY <2>1, <2>2 DEF Stamps
<1>9. CASE handlerDisconnected
  BY <1>9 DEF handlerDisconnected, history, Stamps
<1>10. CASE \E r \in Row : Store(r)
  BY <1>10 DEF Store, storeEvent, engine, Stamps
<1>11. CASE StreamDies
  BY <1>11 DEF StreamDies, history, Stamps
<1>12. CASE UNCHANGED vars
  BY <1>12 DEF vars, engine, history, Stamps
<1> QED
  BY <1>1, <1>2, <1>3, <1>4, <1>5, <1>6, <1>7, <1>8, <1>9, <1>10, <1>11, <1>12
     DEF Next, Control, timer_handler

\* So every reachable state has both invariants.
LEMMA PositionInvariance == Spec => [](IInv /\ PositionInv)
<1>1. Spec => []IInv
  BY Invariance
<1>2. Init => PositionInv
  BY InitPosition
<1>3. IInv /\ PositionInv /\ [Next]_vars => PositionInv'
  BY NextPosition
<1> QED
  BY <1>1, <1>2, <1>3, PTL DEF Spec

-----------------------------------------------------------------------------
\* Only speedTurn changes the sign of the speed.
LEMMA OnlyTurnsChangeSign ==
  ASSUME IInv, [Next]_vars
  PROVE  \/ \E f \in Speeds : speedTurn(f)
         \/ (speed' >= 0) = (speed >= 0)
<1>0. /\ db \in SUBSET Row /\ IsFiniteSet(db) /\ events \in SUBSET db /\ speed \in Speeds
      /\ lastEvent \in Positions \ {EOF}
  BY DEF IInv, TypeOK
<1>1. CASE play
  <2>1. CASE state # "running"
    <3>1. run(events, lastEvent, speed)
      BY <1>1, <2>1 DEF play
    <3> QED
      BY <1>0, <3>1, RunProperties
  <2>2. CASE state = "running"
    BY <1>1, <2>2 DEF play
  <2> QED
    BY <2>1, <2>2
<1>2. CASE handlerSends
  <2>1. run(events \ Due, lastEvent, speed) /\ events \ Due \in SUBSET db
    BY <1>0, <1>2 DEF handlerSends
  <2> QED
    BY <1>0, <2>1, RunProperties
<1>3. CASE \E f \in Speeds : speedSame(f)
  <2>1. PICK f \in Speeds : speedSame(f)
    BY <1>3
  <2>2. speed * f >= 0 /\ speed' = f
    BY <2>1 DEF speedSame
  <2> QED
    BY <1>0, <2>2, SpeedsAreInt
<1>4. CASE pause \/ (\E t \in SeekTimes : seek(t)) \/ TimerExpires \/ handlerPaused
           \/ handlerDisconnected \/ (\E r \in Row : Store(r)) \/ StreamDies \/ UNCHANGED vars
  BY <1>4 DEF pause, seek, TimerExpires, handlerPaused, handlerDisconnected, Store, StreamDies,
              vars, engine
<1> QED
  BY <1>1, <1>2, <1>3, <1>4 DEF Next, Control, timer_handler

\* What a call of speed(f) in the other direction does to the segment.
LEMMA TurnProperties ==
  ASSUME IInv, NEW f \in Speeds, speedTurn(f)
  PROVE  /\ connected
         /\ origin' = IF ts \in {0, EOF} THEN lastEvent ELSE ts
         /\ origin' \in Positions \ {EOF}
         /\ sent' = {} /\ missed' = {} /\ db' = db
         /\ (speed' >= 0) # (speed >= 0)
<1> DEFINE last == IF ts \in {0, EOF} THEN lastEvent ELSE ts
<1>1. /\ connected /\ speed * f < 0
      /\ origin' = last /\ sent' = {} /\ missed' = {} /\ db' = db
  BY DEF speedTurn
<1>2. /\ db \in SUBSET Row /\ IsFiniteSet(db) /\ speed \in Speeds
      /\ last \in Positions \ {EOF}
  BY DEF IInv, TypeOK
<1>3. (speed' >= 0) = (f >= 0)
  <2>1. CASE state = "running"
    <3>1. run({}, last, f)
      BY <2>1 DEF speedTurn
    <3> HIDE DEF last
    <3> QED
      BY <1>2, <3>1, RunProperties
  <2>2. CASE state # "running"
    BY <2>2 DEF speedTurn
  <2> QED
    BY <2>1, <2>2
<1>4. (speed >= 0) # (f >= 0)
  BY <1>1, <1>2, SpeedsAreInt
<1> QED
  BY <1>1, <1>2, <1>3, <1>4

(***************************************************************************)
(* A change of direction turns around where playback is: all that was sent *)
(* in the segment lies ahead afterwards, and nothing that was queued does. *)
(***************************************************************************)
THEOREM TurnsWherePlaybackIs == Spec => TurnsAtPosition
<1>1. ASSUME IInv, PositionInv, [Next]_vars, speed * speed' < 0
      PROVE  /\ \A r \in sent : Before(origin', r.ts, speed') \/ (ts = EOF /\ r.ts = origin')
             /\ \A r \in events : ~ Before(origin', r.ts, speed')
  <2>1. /\ speed \in Speeds /\ sent \in SUBSET Row /\ events \in SUBSET Row
        /\ lastEvent \in Int /\ ts \in Int /\ origin \in Int
    BY <1>1, PositionsAreInt DEF IInv, TypeOK
  <2>2. (speed' >= 0) # (speed >= 0)
    <3>1. CASE \E f \in Speeds : speedTurn(f)
      BY <1>1, <3>1, TurnProperties
    <3>2. CASE (speed' >= 0) = (speed >= 0) /\ ~ \E f \in Speeds : speedTurn(f)
      <4>1. speed' \in Speeds
        BY <1>1, NextPreserves DEF IInv, TypeOK
      <4> QED
        BY <1>1, <2>1, <4>1, SpeedsAreInt
    <3> QED
      BY <1>1, <3>1, <3>2, OnlyTurnsChangeSign
  <2>3. PICK f \in Speeds : speedTurn(f)
    BY <1>1, <2>2, OnlyTurnsChangeSign
  <2>4. /\ connected
        /\ origin' = IF ts \in {0, EOF} THEN lastEvent ELSE ts
    BY <1>1, <2>3, TurnProperties
  <2>5. /\ sent \union events \subseteq Covered
        /\ \A s \in sent, e \in events : Before(s.ts, e.ts, speed)
        /\ events # {} => /\ ts \in Stamps(events)
                          /\ \A r \in events : ~ Before(r.ts, ts, speed)
        /\ events = {} /\ ts # EOF => sent = {}
    BY <1>1, <2>4
       DEF IInv, WithinSegment, QueueAfterSent, TsIsFront, PositionInv, DrainedIsEOF
  <2>6. \A r \in sent \union events : r.ts \in Int /\ r.ts > 0
    <3>1. \A r \in sent \union events : r.ts \in 1 .. MaxTime
      BY <2>1, RowTime
    <3> QED
      BY <3>1, EventDBAssumption
  <2>7. events # {} => ts \notin {0, EOF}
    BY <2>5, <2>6 DEF Stamps, EOF
  <2>8. ASSUME NEW r \in events PROVE ~ Before(origin', r.ts, speed')
    <3>1. origin' = ts /\ ~ Before(r.ts, ts, speed)
      BY <2>4, <2>5, <2>7, <2>8
    <3> QED
      BY <3>1, <2>1, <2>2, <2>6 DEF Before
  <2>9. ASSUME NEW r \in sent
        PROVE  Before(origin', r.ts, speed') \/ (ts = EOF /\ r.ts = origin')
    <3>1. CASE events # {}
      <4>1. PICK e \in events : e.ts = ts
        BY <2>5, <3>1 DEF Stamps
      <4>2. Before(r.ts, ts, speed) /\ origin' = ts
        BY <2>4, <2>5, <2>7, <3>1, <4>1
      <4> QED
        BY <4>2, <2>1, <2>2, <2>6 DEF Before
    <3>2. CASE events = {}
      <4>1. ts = EOF /\ origin' = lastEvent
        BY <2>4, <2>5, <2>9, <3>2 DEF EOF
      <4>2. ~ Before(lastEvent, r.ts, speed)
        BY <2>5 DEF Covered
      <4> QED
        BY <4>1, <4>2, <2>1, <2>2, <2>6 DEF Before
    <3> QED
      BY <3>1, <3>2
  <2> QED
    BY <2>8, <2>9
<1>2. IInv /\ PositionInv /\ [Next]_vars =>
        [ speed * speed' < 0 =>
            /\ \A r \in sent : Before(origin', r.ts, speed') \/ (ts = EOF /\ r.ts = origin')
            /\ \A r \in events : ~ Before(origin', r.ts, speed') ]_vars
  BY <1>1
<1> QED
  BY <1>2, PositionInvariance, PTL DEF Spec, TurnsAtPosition

-----------------------------------------------------------------------------
(***************************************************************************)
(* The refinement.  The abstract direction is the sign of the speed, so    *)
(* the two modules order timestamps alike.                                 *)
(***************************************************************************)
Dir == IF speed >= 0 THEN 1 ELSE -1

\* The cursor and the engine order timestamps alike.
LEMMA CursorOrder ==
  /\ \A t, u : Cursor!Before(t, u, Dir) = Before(t, u, speed)
  /\ Cursor!Row = Row
  /\ \A r : Cursor!Ahead(r) = Before(origin, r.ts, speed)
BY DEF Cursor!Before, Before, Cursor!Row, Row, Cursor!Ahead, Dir

\* A step that leaves the segment alone is a stutter of the cursor.
LEMMA SegmentStutter ==
  ASSUME db' = db, origin' = origin, sent' = sent, missed' = missed,
         (speed' >= 0) = (speed >= 0)
  PROVE  UNCHANGED Cursor!cursorVars
BY DEF Cursor!cursorVars

\* A new segment is a restart of the cursor.
LEMMA SegmentRestart ==
  ASSUME db' = db, origin' \in Positions \ {EOF}, sent' = {}, missed' = {}
  PROVE  Cursor!Restart
BY DEF Cursor!Restart

\* A handler that sends shows the next messages.
LEMMA SendsShows ==
  ASSUME IInv, [Next]_vars, handlerSends, Due # {}
  PROVE  Due \in SUBSET Cursor!ToShow /\ Cursor!Show(Due)
<1>1. /\ connected /\ sent' = sent \union Due
      /\ db' = db /\ origin' = origin /\ missed' = missed
      /\ events \ Due \in SUBSET db /\ run(events \ Due, lastEvent, speed)
  BY DEF handlerSends, IInv, TypeOK
<1>2. /\ db \in SUBSET Row /\ IsFiniteSet(db) /\ events \subseteq db
      /\ speed \in Speeds /\ lastEvent \in Positions \ {EOF} /\ lastEvent \in Int
      /\ Due \subseteq events
  BY PositionsAreInt DEF IInv, TypeOK, Due
<1>3. /\ Covered = sent \union events \union missed
      /\ sent \intersect events = {}
      /\ missed \intersect (sent \union events) = {}
  BY <1>1 DEF IInv, Gapless
<1>4. Cursor!ToShow = {r \in db : Before(origin, r.ts, speed)} \ (sent \union missed)
  BY CursorOrder DEF Cursor!ToShow
<1>5. Due \in SUBSET Cursor!ToShow
  <2>1. ASSUME NEW r \in Due PROVE r \in Cursor!ToShow
    <3>1. r \in events /\ r \in Covered /\ r \notin sent /\ r \notin missed
      BY <1>2, <1>3
    <3> QED
      BY <3>1, <1>4 DEF Covered
  <2> QED
    BY <2>1
<1>6. ASSUME NEW b \in Due, NEW q \in Cursor!ToShow \ Due
      PROVE  Before(b.ts, q.ts, speed)
  <2>1. q \in db /\ Before(origin, q.ts, speed) /\ q \notin sent /\ q \notin missed
    BY <1>4
  <2>2. CASE q \in events
    BY <2>2, DueComesFirst
  <2>3. CASE q \notin events
    <3>1. q \notin Covered
      BY <2>1, <2>3, <1>3
    <3>2. Before(lastEvent, q.ts, speed)
      BY <3>1, <2>1 DEF Covered
    <3>3. ~ Before(lastEvent, b.ts, speed)
      BY <1>2, <1>3 DEF Covered
    <3>4. b \in Row /\ q \in Row
      BY <1>2, <2>1
    <3>5. b.ts \in Int /\ q.ts \in Int
      BY <3>4, RowTime
    <3> QED
      BY <3>2, <3>3, <3>5, <1>2 DEF Before
  <2> QED
    BY <2>2, <2>3
<1>7. (speed' >= 0) = (speed >= 0)
  BY <1>1, <1>2, RunProperties
<1>8. \A b \in Due, q \in Cursor!ToShow \ Due : Cursor!Before(b.ts, q.ts, Dir)
  BY <1>6, CursorOrder
<1> QED
  BY <1>1, <1>5, <1>7, <1>8 DEF Cursor!Show, Dir

\* A message that is stored is recorded, and missed only when it may be.
LEMMA StoreRecords ==
  ASSUME IInv, PositionInv, NEW r \in Row, Store(r)
  PROVE  Cursor!Record(r)
<1>1. /\ storeEvent(r)
      /\ missed' = IF Before(origin, r.ts, speed) /\ ~ Before(lastEvent, r.ts, speed)
                     THEN missed \union {r} ELSE missed
      /\ speed' = speed /\ origin' = origin /\ sent' = sent
  BY DEF Store, engine
<1>2. Cursor!storeEvent(r)
  BY <1>1, Zenon DEF storeEvent, Cursor!storeEvent, Cardinality, Cursor!Cardinality
<1>3. ASSUME missed' # missed
      PROVE  /\ Cursor!Ahead(r)
             /\ \E q \in db : Cursor!Ahead(q) /\ ~ Cursor!Before(q.ts, r.ts, Dir)
             /\ missed' = missed \union {r}
  <2>1. /\ Before(origin, r.ts, speed) /\ ~ Before(lastEvent, r.ts, speed)
        /\ missed' = missed \union {r}
    BY <1>1, <1>3
  <2>2. lastEvent # origin
    BY <2>1
  <2>3. PICK q \in db : q.ts = lastEvent
    BY <2>2 DEF PositionInv, LastEventRecorded, Stamps
  <2>4. origin \in Int /\ lastEvent \in Int /\ r.ts \in Int
    BY PositionsAreInt, RowTime DEF IInv, TypeOK
  <2>5. Before(origin, q.ts, speed) /\ ~ Before(q.ts, r.ts, speed)
    BY <2>1, <2>3, <2>4 DEF Before
  <2> QED
    BY <2>1, <2>5, CursorOrder
<1> QED
  BY <1>1, <1>2, <1>3 DEF Cursor!Record, Dir

\* Every step of the engine is a step of the cursor or a stutter.
LEMMA StepRefines ==
  ASSUME IInv, PositionInv, [Next]_vars
  PROVE  [Cursor!CursorNext]_Cursor!cursorVars
<1>1. CASE \E f \in Speeds : speedTurn(f)
  BY <1>1, TurnProperties, SegmentRestart DEF Cursor!CursorNext
<1>2. CASE ~ \E f \in Speeds : speedTurn(f)
  <2>0. (speed' >= 0) = (speed >= 0)
    BY <1>2, OnlyTurnsChangeSign
  <2>1. CASE \E t \in SeekTimes : seek(t)
    <3>1. PICK t \in SeekTimes : seek(t)
      BY <2>1
    <3>2. origin' = lastEvent' /\ sent' = {} /\ missed' = {} /\ db' = db
      BY <3>1 DEF seek, NewSegment
    <3>3. origin' \in Positions \ {EOF}
      BY <3>2, NextPreserves DEF IInv, TypeOK
    <3> QED
      BY <3>2, <3>3, SegmentRestart DEF Cursor!CursorNext
  <2>2. CASE handlerSends
    <3>1. CASE Due # {}
      BY <2>2, <3>1, SendsShows DEF Cursor!CursorNext
    <3>2. CASE Due = {}
      BY <2>0, <2>2, <3>2, SegmentStutter DEF handlerSends
    <3> QED
      BY <3>1, <3>2
  <2>3. CASE \E r \in Row : Store(r)
    BY <2>3, StoreRecords, CursorOrder DEF Cursor!CursorNext
  <2>4. CASE play \/ pause \/ (\E f \in Speeds : speedSame(f)) \/ TimerExpires
             \/ handlerPaused \/ handlerDisconnected \/ StreamDies \/ UNCHANGED vars
    <3>1. db' = db /\ origin' = origin /\ sent' = sent /\ missed' = missed
      BY <2>4 DEF play, pause, speedSame, TimerExpires, handlerPaused, handlerDisconnected,
                  StreamDies, vars, history
    <3> QED
      BY <2>0, <3>1, SegmentStutter
  <2> QED
    BY <1>2, <2>1, <2>2, <2>3, <2>4 DEF Next, Control, timer_handler
<1> QED
  BY <1>1, <1>2

\* The engine starts where the cursor does.
LEMMA InitRefines == Init => Cursor!CursorInit
BY PositionsAreInt DEF Init, EventDBInit, Cursor!CursorInit

(***************************************************************************)
(* The playback engine, with its prefetching, its timer and its races,     *)
(* implements the abstract playback cursor.                                *)
(***************************************************************************)
THEOREM Refinement == Spec => ImplementsCursor
<1>1. IInv /\ PositionInv /\ [Next]_vars => [Cursor!CursorNext]_Cursor!cursorVars
  BY StepRefines
<1> QED
  BY <1>1, InitRefines, PositionInvariance, PTL DEF Spec, ImplementsCursor, Cursor!CursorSpec
=============================================================================
