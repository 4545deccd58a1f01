---------------------------- MODULE StreamLocks ----------------------------
(***************************************************************************)
(* The locks of watcherd's shared streams, and the order in which its      *)
(* handlers take them: allStreamsLock of the Watcherd object, and for each *)
(* stream its lock_ (SharedStream) and the lock of its playback engine     *)
(* (ReplayState).                                                          *)
(*                                                                         *)
(* A handler moves from place to place in its code, and the place          *)
(* determines which locks it holds and which one it waits for.  Of the     *)
(* data only what the handlers branch on is kept: whether a stream plays.  *)
(* Whether a client is the last one to unsubscribe, whether messages are   *)
(* due and whether a stream id is known is left open.                      *)
(*                                                                         *)
(* The threads of the io_service run handlers concurrently; those of one   *)
(* connection are serialised by its strand, but there may be more          *)
(* connections than threads, and a timer handler is in no strand, so that  *)
(* any thread may run any handler at any time.                             *)
(***************************************************************************)
EXTENDS Integers, FiniteSets

CONSTANTS
  Threads,   \* the threads of the io_service
  Streams,   \* the shared streams
  Handlers   \* the handlers that run

\* The control messages that are relayed to the subscribers in the end.
Relayed == {"start", "stop", "speed", "description"}
\* The handlers by which a connection leaves a stream.
Leaving == {"read_error", "subscribeToStream"}

ASSUME HandlersAssumption ==
  Handlers \subseteq Relayed \union Leaving \union {"seek", "firstControl", "listStreams", "timer_handler"}

VARIABLES
  call,       \* the handler a thread runs, and its streams
  pc,         \* the place in its code
  todo,       \* the streams listStreams has still to visit
  isPlaying,  \* the streams with isPlaying_
  running,    \* the streams whose engine is in state running
  barred      \* the shared mutexes that let no further reader in

vars == <<call, pc, todo, isPlaying, running, barred>>

\* s is the stream of the connection or of the timer, n another one it moves to.
Calls == [op : Handlers, s : Streams, n : Streams]
NoCall == [op |-> "none"]

\* lock_ and allStreamsLock are boost::shared_mutex, the engine's a mutex.
allStreamsLock == <<"allStreamsLock">>
lock_(s)       == <<"lock_", s>>
lock(s)        == <<"lock", s>>
Locks == {allStreamsLock} \union {lock_(s) : s \in Streams} \union {lock(s) : s \in Streams}

Shared(l) == [mode |-> "shared", lock |-> l]
Unique(l) == [mode |-> "unique", lock |-> l]

-----------------------------------------------------------------------------
(* The places where a handler waits for a lock, and where it is then.  The *)
(* call of the first message is "in" for subscribe(), and so on.           *)
Taken == [enter |-> "in", engine |-> "inEngine", unlist |-> "unlisting", relay |-> "relaying",
          add |-> "adding", find |-> "finding", enterNew |-> "inNew",
          list |-> "listing", describe |-> "describing",
          timer |-> "inTimer", timerRelay |-> "timerRelaying"]

Places == DOMAIN Taken \union {Taken[p] : p \in DOMAIN Taken} \union {"idle", "leave", "timerRun"}

Wants(t) ==
  LET s == call[t].s IN
  CASE pc[t] = "enter"                   -> Unique(lock_(s))
    [] pc[t] = "enterNew"                -> Unique(lock_(call[t].n))
    [] pc[t] \in {"relay", "describe", "timerRelay"} -> Shared(lock_(s))
    [] pc[t] \in {"engine", "timer"}     -> Unique(lock(s))
    [] pc[t] \in {"unlist", "add"}       -> Unique(allStreamsLock)
    [] pc[t] \in {"find", "list"}        -> Shared(allStreamsLock)

\* Mutant of Holds: a message is relayed inside the scope that holds lock_.
Holds_relayInScope(t) ==
  LET s == call[t].s IN
  CASE pc[t] \in {"in", "engine", "unlist", "leave", "relay"} -> {Unique(lock_(s))}
    [] pc[t] = "inEngine"      -> {Unique(lock_(s)), Unique(lock(s))}
    [] pc[t] = "unlisting"     -> {Unique(lock_(s)), Unique(allStreamsLock)}
    [] pc[t] = "relaying"      -> {Shared(lock_(s))}
    [] pc[t] = "adding"        -> {Unique(allStreamsLock)}
    [] pc[t] = "inNew"         -> {Unique(lock_(call[t].n))}
    [] pc[t] \in {"finding", "listing", "describe"} -> {Shared(allStreamsLock)}
    [] pc[t] = "describing"    -> {Shared(allStreamsLock), Shared(lock_(s))}
    [] pc[t] \in {"inTimer", "timerRelay", "timerRun"} -> {Unique(lock(s))}
    [] pc[t] = "timerRelaying" -> {Unique(lock(s)), Shared(lock_(s))}
    [] OTHER                   -> {}

Holds(t) ==
  LET s == call[t].s IN
  CASE pc[t] \in {"in", "engine", "unlist", "leave"} -> {Unique(lock_(s))}
    [] pc[t] = "inEngine"      -> {Unique(lock_(s)), Unique(lock(s))}
    [] pc[t] = "unlisting"     -> {Unique(lock_(s)), Unique(allStreamsLock)}
    [] pc[t] = "relaying"      -> {Shared(lock_(s))}
    [] pc[t] = "adding"        -> {Unique(allStreamsLock)}
    [] pc[t] = "inNew"         -> {Unique(lock_(call[t].n))}
    [] pc[t] \in {"finding", "listing", "describe"} -> {Shared(allStreamsLock)}
    [] pc[t] = "describing"    -> {Shared(allStreamsLock), Shared(lock_(s))}
    [] pc[t] \in {"inTimer", "timerRelay", "timerRun"} -> {Unique(lock(s))}
    [] pc[t] = "timerRelaying" -> {Unique(lock(s)), Shared(lock_(s))}
    [] OTHER                   -> {}

Holders(l) == {t \in Threads : Shared(l) \in Holds(t) \/ Unique(l) \in Holds(t)}

\* What boost::shared_mutex and boost::mutex grant at this moment.
Granted(t) ==
  LET l == Wants(t).lock IN
  IF Wants(t).mode = "unique"
    THEN Holders(l) = {}
    ELSE l \notin barred /\ \A u \in Threads : Unique(l) \notin Holds(u)

-----------------------------------------------------------------------------
Init ==
  /\ call = [t \in Threads |-> NoCall]
  /\ pc = [t \in Threads |-> "idle"]
  /\ todo = [t \in Threads |-> {}]
  /\ isPlaying = {}
  /\ running = {}
  /\ barred = {}

\* Mutant of Entry: getStream looks the stream up without allStreamsLock.
Entry_unlockedLookUp(op) ==
  CASE op = "subscribeToStream" -> "finding"
    [] op = "listStreams"       -> "list"
    [] op = "timer_handler"     -> "timer"
    [] OTHER                    -> "enter"

(* Where a handler starts. *)
Entry(op) ==
  CASE op = "subscribeToStream" -> "find"
    [] op = "listStreams"       -> "list"
    [] op = "timer_handler"     -> "timer"
    [] OTHER                    -> "enter"

Begin(t) ==
  /\ pc[t] = "idle"
  /\ \E c \in Calls :
       /\ c.s # c.n <=> c.op = "subscribeToStream"
       /\ call' = [call EXCEPT ![t] = c]
       /\ pc' = [pc EXCEPT ![t] = Entry(c.op)]
       /\ todo' = [todo EXCEPT ![t] = IF c.op = "listStreams" THEN Streams ELSE {}]
  /\ UNCHANGED <<isPlaying, running, barred>>

(* The lock a thread waits for is granted. *)
Take(t) ==
  /\ pc[t] \in DOMAIN Taken
  /\ Granted(t)
  /\ pc' = [pc EXCEPT ![t] = Taken[pc[t]]]
  /\ UNCHANGED <<call, todo, isPlaying, running, barred>>

(* A writer that has to wait bars further readers ... *)
Wait(t) ==
  /\ pc[t] \in DOMAIN Taken
  /\ Wants(t).mode = "unique"
  /\ Holders(Wants(t).lock) # {}
  /\ barred' = barred \union {Wants(t).lock}
  /\ UNCHANGED <<call, pc, todo, isPlaying, running>>

(* ... until the last holder lets go. *)
Go(t, place) ==
  /\ pc' = [pc EXCEPT ![t] = place]
  /\ call' = IF place = "idle" THEN [call EXCEPT ![t] = NoCall] ELSE call
  /\ barred' = {l \in barred : Holders(l)' # {}}
  /\ UNCHANGED todo

Playing(s, on) == isPlaying' = IF on THEN isPlaying \union {s} ELSE isPlaying \ {s}

\* Mutant of inStream: start() does not set isPlaying_.
inStream_startUnmarked(t) ==
  LET op == call[t].op
      s  == call[t].s
  IN
  /\ pc[t] = "in"
  /\ \/ op \in {"seek", "speed"} /\ UNCHANGED isPlaying /\ Go(t, "engine")
     \/ op = "start" /\ s \notin isPlaying /\ UNCHANGED isPlaying /\ Go(t, "engine")
     \/ op = "start" /\ s \in isPlaying /\ UNCHANGED isPlaying /\ Go(t, "leave")
     \/ op = "stop" /\ s \in isPlaying /\ UNCHANGED isPlaying /\ Go(t, "engine")
     \/ op = "stop" /\ s \notin isPlaying /\ UNCHANGED isPlaying /\ Go(t, "leave")
     \/ op \in Leaving \union {"description", "firstControl"} /\ UNCHANGED isPlaying /\ Go(t, "leave")
     \/ op \in Leaving /\ Playing(s, FALSE) /\ Go(t, "unlist")
  /\ UNCHANGED running

(* The body of a SharedStream operation, up to a call of the engine.  A    *)
(* speed message with speed 0 is handled as a stop.                        *)
inStream(t) ==
  LET op == call[t].op
      s  == call[t].s
  IN
  /\ pc[t] = "in"
  /\ \/ op \in {"seek", "speed"} /\ UNCHANGED isPlaying /\ Go(t, "engine")
     \/ op = "start" /\ s \notin isPlaying /\ Playing(s, TRUE) /\ Go(t, "engine")
     \/ op = "start" /\ s \in isPlaying /\ UNCHANGED isPlaying /\ Go(t, "leave")
     \/ op = "stop" /\ s \in isPlaying /\ UNCHANGED isPlaying /\ Go(t, "engine")
     \/ op = "stop" /\ s \notin isPlaying /\ UNCHANGED isPlaying /\ Go(t, "leave")
     \/ op \in Leaving \union {"description", "firstControl"} /\ UNCHANGED isPlaying /\ Go(t, "leave")
     \* The last client: removeStream, then the engine is paused.
     \/ op \in Leaving /\ Playing(s, FALSE) /\ Go(t, "unlist")
  /\ UNCHANGED running

removeStream(t) ==
  /\ pc[t] = "unlisting"
  /\ Go(t, "engine")
  /\ UNCHANGED <<isPlaying, running>>

(* play(), pause(), seek() or speed() of the engine. *)
inEngine(t) ==
  LET op == call[t].op
      s  == call[t].s
  IN
  /\ pc[t] = "inEngine"
  /\ \/ op \in {"seek", "speed"} /\ UNCHANGED <<isPlaying, running>>
     \/ op = "start" /\ running' = running \union {s} /\ UNCHANGED isPlaying
     \/ op \in Leaving \union {"stop"} /\ running' = running \ {s} /\ Playing(s, FALSE)
  /\ Go(t, "leave")

(* lock_ is released; what a handler does after it. *)
leaveStream(t) ==
  LET op == call[t].op IN
  /\ pc[t] = "leave"
  /\ \/ op \in {"seek", "read_error"} /\ Go(t, "idle")
     \/ op \in Relayed /\ Go(t, "relay")
     \/ op = "firstControl" /\ Go(t, "add")
     \/ op = "subscribeToStream" /\ Go(t, "enterNew")
  /\ UNCHANGED <<isPlaying, running>>

(* sendMessage, addStream or subscribe() was the last thing to do. *)
return(t) ==
  /\ pc[t] \in {"relaying", "adding", "inNew", "timerRun"}
  /\ Go(t, "idle")
  /\ UNCHANGED <<isPlaying, running>>

(* getStream: the stream is known, or not. *)
getStream(t) ==
  /\ pc[t] = "finding"
  /\ Go(t, "idle") \/ Go(t, "enter")
  /\ UNCHANGED <<isPlaying, running>>

(* listStreams calls getDescription of one stream after the other. *)
listStreams(t) ==
  /\ \/ /\ pc[t] = "listing"
        /\ \E s \in todo[t] :
             /\ call' = [call EXCEPT ![t].s = s]
             /\ todo' = [todo EXCEPT ![t] = @ \ {s}]
        /\ pc' = [pc EXCEPT ![t] = "describe"]
        /\ UNCHANGED barred
     \/ pc[t] = "listing" /\ todo[t] = {} /\ Go(t, "idle")
     \/ pc[t] = "describing" /\ Go(t, "listing")
  /\ UNCHANGED <<isPlaying, running>>

(* timer_handler: paused or nothing due; or messages go to the stream. *)
timer_handler(t) ==
  /\ \/ pc[t] = "inTimer" /\ Go(t, "timerRun")
     \/ pc[t] = "inTimer" /\ call[t].s \in running /\ Go(t, "timerRelay")
     \/ pc[t] = "timerRelaying" /\ Go(t, "timerRun")
  /\ UNCHANGED <<isPlaying, running>>

Proceed(t) ==
  \/ inStream(t)
  \/ removeStream(t)
  \/ inEngine(t)
  \/ leaveStream(t)
  \/ return(t)
  \/ getStream(t)
  \/ listStreams(t)
  \/ timer_handler(t)

Next == \E t \in Threads : Begin(t) \/ Take(t) \/ Wait(t) \/ Proceed(t)

Spec == Init /\ [][Next]_vars

(***************************************************************************)
(* A thread goes on when it can.  No order among waiting threads is        *)
(* assumed: boost's mutexes promise none.                                  *)
(***************************************************************************)
FairSpec == Spec /\ \A t \in Threads : WF_vars(Take(t) \/ Proceed(t))

-----------------------------------------------------------------------------
Types ==
  /\ call \in [Threads -> Calls \union {NoCall}]
  /\ pc \in [Threads -> Places]
  /\ todo \in [Threads -> SUBSET Streams]
  /\ isPlaying \subseteq Streams
  /\ running \subseteq Streams
  /\ barred \subseteq Locks
  /\ \A t \in Threads : pc[t] = "idle" <=> call[t] = NoCall

\* A lock that is held for writing is held by one thread only.
Exclusion ==
  \A t, u \in Threads : \A l \in Locks :
    t # u /\ Unique(l) \in Holds(t) => Unique(l) \notin Holds(u) /\ Shared(l) \notin Holds(u)

(***************************************************************************)
(* The types, and the states that a lock can be in: no handler gets to a   *)
(* place under a lock past another one that holds it for writing.          *)
(***************************************************************************)
TypeOK == Types /\ Exclusion

(***************************************************************************)
(* The stream's view of its engine: outside the scope of lock_ a stream    *)
(* is marked as playing exactly when its engine runs.                      *)
(***************************************************************************)
PlayingAgrees ==
  \A s \in Streams :
    (s \in isPlaying <=> s \in running) \/ \E t \in Threads : Unique(lock_(s)) \in Holds(t)

\* The threads that keep t from the lock it waits for: those that hold it
\* and, for a reader, the writers that wait for it.
Waiting(t) == pc[t] \in DOMAIN Taken /\ ~ Granted(t)
KeptBy(t, u) ==
  LET l == Wants(t).lock IN
  \/ u \in Holders(l)
  \/ Wants(t).mode = "shared" /\ Waiting(u) /\ Wants(u) = Unique(l)

(***************************************************************************)
(* No deadlock among any of the threads, also while others go on: there is *)
(* no set of threads each of which waits for one of the set.               *)
(***************************************************************************)
NoCircularWait ==
  \A T \in SUBSET Threads :
    T # {} => \E t \in T : Waiting(t) => \A u \in T : ~ KeptBy(t, u)

(***************************************************************************)
(* Every handler returns.  Since the locks are not fair to those that wait *)
(* nothing is claimed while new handlers go on to be called.               *)
(***************************************************************************)
NewCalls == \E t \in Threads : Begin(t)
EveryHandlerReturns ==
  \A t \in Threads : []<><<NewCalls>>_vars \/ (pc[t] # "idle" ~> pc[t] = "idle")
=============================================================================
