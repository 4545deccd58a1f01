---------------------------- MODULE ReplayState ----------------------------
(***************************************************************************)
(* The playback engine of watcherd (src/src/watcherd/replayState.cpp): one *)
(* object per shared stream, which prefetches recorded messages into a     *)
(* queue, waits on a timer until the next is due, sends what is due to the *)
(* stream and arms the timer again.                                        *)
(*                                                                         *)
(* Every member function but tell() and speed() const holds `lock` from    *)
(* its first statement to its last, so each call is one action.  What      *)
(* interleaves is the timer: it expires at any moment, its handler then    *)
(* waits in the io_service with a success code that a later cancel() does  *)
(* not take back, and calls of other threads may come in between.  A       *)
(* handler with operation_aborted changes nothing and is not modelled.     *)
(*                                                                         *)
(* The deque is kept as the set of its rows: it is filled by one query and *)
(* emptied from the front, and cleared before a query in the other         *)
(* direction, so the rows and the sign of the speed determine the order.   *)
(* Delays are not modelled: an armed timer may expire at any time.         *)
(***************************************************************************)
EXTENDS EventDB

CONSTANTS
  Speeds,      \* the speeds clients ask for; 1 is the recorded pace
  SeekTimes,   \* the offsets clients seek to; -1 is the end of the recording
  BufSize,     \* bufsiz: the number of rows to prefetch
  Step,        \* step: messages closer than this are sent together
  MaxExpired   \* a bound on the handlers waiting in the io_service

EOF == -1      \* the ts of a playback that has run out of messages

ASSUME ReplayAssumption ==
  /\ Speeds \subseteq Int \ {0}  \* SharedStream::speed turns 0 into a stop
  /\ 1 \in Speeds
  /\ SeekTimes \subseteq Nat \union {EOF}
  /\ BufSize \in Nat \ {0}
  /\ Step \in Nat \ {0}
  /\ MaxExpired \in Nat

VARIABLES
  events,     \* the prefetched rows that were not sent yet
  ts,         \* the effective time
  lastEvent,  \* last_event: where the next query starts
  speed,
  state,      \* "paused" or "running"
  armed,      \* an asynchronous wait on the timer is outstanding
  expired,    \* the handlers waiting in the io_service with a success code
  connected,  \* the weak pointer conn can be locked: the stream exists
  \* History: the segment of playback since the last seek or turn.
  origin,     \* where its first query starts
  sent,       \* the rows sent to the stream
  missed      \* the rows stored behind lastEvent, which no query will return

engine  == <<events, ts, lastEvent, speed, state, armed, expired, connected>>
history == <<origin, sent, missed>>
vars    == <<db, engine, history>>

\* The loop of timer_handler: rows are popped off the front until one lies a
\* step or more from the effective time.
Near(r) == IF r.ts >= ts THEN r.ts - ts < Step ELSE ts - r.ts < Step
Due == {r \in events : \A q \in events : Before(r.ts, q.ts, speed) \/ Near(q)}

-----------------------------------------------------------------------------
Init ==
  /\ EventDBInit
  /\ events = {}
  /\ ts = 0
  /\ lastEvent = 0
  /\ speed = 1
  /\ state = "paused"
  /\ armed = FALSE
  /\ expired = 0
  /\ connected = TRUE
  /\ origin = 0
  /\ sent = {}
  /\ missed = {}

\* Mutant of run: last_event is not moved past the rows that were fetched.
run_keepsLast(q, last, f) ==
  LET batch == IF q = {} THEN getEvents(db, last, f, BufSize) ELSE q IN
  /\ events' = batch
  /\ lastEvent' = last
  /\ ts' = IF batch = {} THEN EOF ELSE FirstTs(batch, f)
  /\ speed' = IF batch = {} /\ f > 0 THEN 1 ELSE f
  /\ armed' = TRUE

\* Mutant of run: the timer is not armed at the end of the recording.
run_stopsAtEOF(q, last, f) ==
  LET batch == IF q = {} THEN getEvents(db, last, f, BufSize) ELSE q IN
  /\ events' = batch
  /\ lastEvent' = IF q = {} /\ batch # {} THEN LastTs(batch, f) ELSE last
  /\ ts' = IF batch = {} THEN EOF ELSE FirstTs(batch, f)
  /\ speed' = IF batch = {} /\ f > 0 THEN 1 ELSE f
  /\ armed' = (batch # {})

(***************************************************************************)
(* run(): fetch when the queue q is empty, then either take the time of    *)
(* the next message as the effective time or, at the end of the recording, *)
(* fall back to speed 1 and look again later.  Arming the timer cancels    *)
(* the wait that was outstanding.  The parameters are the values the       *)
(* caller has given events, last_event and speed.                          *)
(***************************************************************************)
run(q, last, f) ==
  LET batch == IF q = {} THEN getEvents(db, last, f, BufSize) ELSE q IN
  /\ events' = batch
  /\ lastEvent' = IF q = {} /\ batch # {} THEN LastTs(batch, f) ELSE last
  /\ ts' = IF batch = {} THEN EOF ELSE FirstTs(batch, f)
  /\ speed' = IF batch = {} /\ f > 0 THEN 1 ELSE f
  /\ armed' = TRUE

\* A query will start from another position or go in the other direction.
NewSegment ==
  /\ origin' = lastEvent'
  /\ sent' = {}
  /\ missed' = {}

play ==
  /\ connected
  /\ \/ /\ state # "running"
        /\ state' = "running"
        /\ run(events, lastEvent, speed)
     \/ /\ state = "running"
        /\ UNCHANGED <<events, ts, lastEvent, speed, state, armed>>
  /\ UNCHANGED <<db, expired, connected, history>>

\* Mutant of pause: the timer is not cancelled.
pause_noCancel ==
  /\ connected
  /\ state' = "paused"
  /\ UNCHANGED <<db, events, ts, lastEvent, speed, armed, expired, connected, history>>

pause ==
  /\ connected
  /\ state' = "paused"
  /\ armed' = (armed /\ state = "paused")
  /\ UNCHANGED <<db, events, ts, lastEvent, speed, expired, connected, history>>

\* Mutant of seek: the queue is not cleared.
seek_keepsQueue(t) ==
  /\ connected
  /\ ts' = t
  /\ lastEvent' = IF t = EOF THEN eventRange(db).last ELSE t
  /\ NewSegment
  /\ UNCHANGED <<db, events, speed, state, armed, expired, connected>>

seek(t) ==
  /\ connected
  /\ events' = {}
  /\ ts' = t
  /\ lastEvent' = IF t = EOF THEN eventRange(db).last ELSE t
  /\ NewSegment
  /\ UNCHANGED <<db, speed, state, armed, expired, connected>>

(* speed(f) with the sign of the current speed: only the pace changes. *)
speedSame(f) ==
  /\ connected
  /\ speed * f >= 0
  /\ speed' = f
  /\ UNCHANGED <<db, events, ts, lastEvent, state, armed, expired, connected, history>>

\* Mutant of speedTurn: the timer is cancelled and run() is not called.
speedTurn_noRun(f) ==
  LET last == IF ts \in {0, EOF} THEN lastEvent ELSE ts IN
  /\ connected
  /\ speed * f < 0
  /\ events' = {}
  /\ lastEvent' = last
  /\ speed' = f
  /\ armed' = FALSE
  /\ NewSegment
  /\ UNCHANGED <<db, ts, state, expired, connected>>

\* Mutant of speedTurn: last_event is not set back to the effective time.
speedTurn_noRewind(f) ==
  /\ connected
  /\ speed * f < 0
  /\ \/ /\ state = "running"
        /\ run({}, lastEvent, f)
     \/ /\ state # "running"
        /\ events' = {}
        /\ lastEvent' = lastEvent
        /\ speed' = f
        /\ UNCHANGED <<ts, armed>>
  /\ origin' = lastEvent
  /\ sent' = {}
  /\ missed' = {}
  /\ UNCHANGED <<db, state, expired, connected>>

(* speed(f) with the other sign: the queue is discarded and, when the      *)
(* timer is running, refilled from the effective time the other way.       *)
speedTurn(f) ==
  LET last == IF ts \in {0, EOF} THEN lastEvent ELSE ts IN
  /\ connected
  /\ speed * f < 0
  /\ \/ /\ state = "running"
        /\ run({}, last, f)
     \/ /\ state # "running"
        /\ events' = {}
        /\ lastEvent' = last
        /\ speed' = f
        /\ UNCHANGED <<ts, armed>>
  /\ origin' = last
  /\ sent' = {}
  /\ missed' = {}
  /\ UNCHANGED <<db, state, expired, connected>>

Control ==
  \/ play
  \/ pause
  \/ \E t \in SeekTimes : seek(t)
  \/ \E f \in Speeds : speedSame(f) \/ speedTurn(f)

-----------------------------------------------------------------------------
(* The timer expires: its handler is queued with a success code. *)
TimerExpires ==
  /\ armed
  /\ expired < MaxExpired
  /\ armed' = FALSE
  /\ expired' = expired + 1
  /\ UNCHANGED <<db, events, ts, lastEvent, speed, state, connected, history>>

(* timer_handler after a pause() that came too late to cancel it. *)
handlerPaused ==
  /\ expired > 0
  /\ state = "paused"
  /\ expired' = expired - 1
  /\ UNCHANGED <<db, events, ts, lastEvent, speed, state, armed, connected, history>>

\* Mutant of handlerSends: the state is not looked at.
handlerSends_unchecked ==
  /\ expired > 0
  /\ connected
  /\ sent' = sent \union Due
  /\ run(events \ Due, lastEvent, speed)
  /\ expired' = expired - 1
  /\ UNCHANGED <<db, state, connected, origin, missed>>

(* timer_handler: what is due is sent to the stream and run() goes on. *)
handlerSends ==
  /\ expired > 0
  /\ state = "running"
  /\ connected
  /\ sent' = sent \union Due
  /\ run(events \ Due, lastEvent, speed)
  /\ expired' = expired - 1
  /\ UNCHANGED <<db, state, connected, origin, missed>>

(* timer_handler when the stream is gone: the popped messages go nowhere. *)
handlerDisconnected ==
  /\ expired > 0
  /\ state = "running"
  /\ ~ connected
  /\ events' = events \ Due
  /\ state' = "paused"
  /\ expired' = expired - 1
  /\ UNCHANGED <<db, ts, lastEvent, speed, armed, connected, history>>

timer_handler == handlerPaused \/ handlerSends \/ handlerDisconnected

-----------------------------------------------------------------------------
(* A feeder's message is recorded by another thread.  When a query has     *)
(* already gone past its timestamp the segment will not show it.           *)
Store(r) ==
  /\ storeEvent(r)
  /\ missed' = IF Before(origin, r.ts, speed) /\ ~ Before(lastEvent, r.ts, speed)
                 THEN missed \union {r} ELSE missed
  /\ UNCHANGED <<engine, origin, sent>>

(* The last shared_ptr to the SharedStream goes away. *)
StreamDies ==
  /\ connected
  /\ connected' = FALSE
  /\ UNCHANGED <<db, events, ts, lastEvent, speed, state, armed, expired, history>>

Next ==
  \/ Control
  \/ TimerExpires
  \/ timer_handler
  \/ \E r \in Row : Store(r)
  \/ StreamDies

Spec == Init /\ [][Next]_vars

(***************************************************************************)
(* A timer that is armed expires, and the threads of the io_service run    *)
(* the handlers that wait.                                                 *)
(***************************************************************************)
FairSpec == Spec /\ WF_vars(TimerExpires) /\ WF_vars(timer_handler)

-----------------------------------------------------------------------------
Positions == 0 .. MaxTime \union SeekTimes

TypeOK ==
  /\ db \subseteq Row
  /\ events \subseteq db
  /\ ts \in Positions \union {EOF}
  /\ lastEvent \in Positions \ {EOF}
  /\ speed \in Speeds
  /\ state \in {"paused", "running"}
  /\ armed \in BOOLEAN
  /\ expired \in 0 .. MaxExpired
  /\ connected \in BOOLEAN
  /\ origin \in Positions \ {EOF}
  /\ sent \subseteq db
  /\ missed \subseteq db

(***************************************************************************)
(* Playback never stalls: while it is running, either the timer is armed   *)
(* or a handler waits.  There is one way to leave running on purpose, and  *)
(* every other path through the code has to arm the timer again.           *)
(***************************************************************************)
NeverStalls == state = "running" => armed \/ expired > 0

(***************************************************************************)
(* A pause takes effect: as long as there is a stream, no timer is armed   *)
(* for a paused playback.                                                  *)
(***************************************************************************)
PausedIsDisarmed == connected /\ state = "paused" => ~ armed

(***************************************************************************)
(* The position tell() reports is that of the next message to be sent, so  *)
(* that a handler with messages to send always sends at least one, and a   *)
(* change of direction starts from the right place.                        *)
(***************************************************************************)
TsIsFront ==
  connected /\ events # {} =>
    /\ ts \in Stamps(events)
    /\ \A r \in events : ~ Before(r.ts, ts, speed)

(***************************************************************************)
(* Exactly once, nothing skipped: the messages between the start of the    *)
(* segment and the last one retrieved are those that were sent, those in   *)
(* the queue and those recorded too late, and these are disjoint.          *)
(* ("save timestamp of last event retrieved to avoid duplication")         *)
(***************************************************************************)
Covered == {r \in db : Before(origin, r.ts, speed) /\ ~ Before(lastEvent, r.ts, speed)}

Gapless ==
  connected =>
    /\ Covered = sent \union events \union missed
    /\ sent \intersect events = {}
    /\ missed \intersect (sent \union events) = {}

(***************************************************************************)
(* Nothing of an earlier segment is left over: what was sent, is queued or *)
(* was missed lies between the start of the current segment and the last   *)
(* row retrieved, which is never behind that start.                        *)
(***************************************************************************)
WithinSegment ==
  /\ ~ Before(lastEvent, origin, speed)
  /\ sent \union events \union missed \subseteq Covered

(***************************************************************************)
(* In order: a message in the queue comes after all that were sent.        *)
(***************************************************************************)
QueueAfterSent == \A s \in sent, e \in events : Before(s.ts, e.ts, speed)

(***************************************************************************)
(* The inductive invariant.  Gapless alone is not inductive: that a fetch  *)
(* continues it needs lastEvent to be at or after the start of the segment *)
(* and, for the order, that all that was sent lies within it.              *)
(***************************************************************************)
IInv ==
  /\ TypeOK
  /\ IsFiniteSet(db)
  /\ NeverStalls
  /\ PausedIsDisarmed
  /\ TsIsFront
  /\ WithinSegment
  /\ Gapless
  /\ QueueAfterSent

(***************************************************************************)
(* A paused playback sends nothing, even when a handler was already on its *)
(* way when pause() was called.                                            *)
(***************************************************************************)
PausedIsSilent == [][state = "paused" => sent' \subseteq sent]_vars

(***************************************************************************)
(* A change of direction turns around at the current position: what the    *)
(* segment has sent lies ahead in the new one, and what it had still in    *)
(* the queue does not.  At the end of the recording the messages of the    *)
(* last millisecond, just sent, are not repeated.                          *)
(***************************************************************************)
TurnsAtPosition ==
  [][ speed * speed' < 0 =>
        /\ \A r \in sent : Before(origin', r.ts, speed') \/ (ts = EOF /\ r.ts = origin')
        /\ \A r \in events : ~ Before(origin', r.ts, speed') ]_vars

(***************************************************************************)
(* The engine implements the abstract playback cursor.                     *)
(***************************************************************************)
Cursor == INSTANCE PlaybackCursor WITH
  from <- origin,
  dir <- IF speed >= 0 THEN 1 ELSE -1,
  shown <- sent,
  Positions <- Positions \ {EOF}

ImplementsCursor == Cursor!CursorSpec

(***************************************************************************)
(* Every recorded message of the segment is sent in the end.  A message    *)
(* that playback still has to come to does not stay so: it is sent, unless *)
(* a client's call or the end of the stream intervenes.  Nothing is        *)
(* claimed when clients never stop calling, since each call may start over.*)
(***************************************************************************)
Playing(r) ==
  /\ state = "running" /\ connected
  /\ r \in db \ (sent \union missed)
  /\ Before(origin, r.ts, speed)

EveryMessagePlayed ==
  \A r \in Row : []<><<Control>>_vars \/ (Playing(r) ~> ~ Playing(r))
=============================================================================
