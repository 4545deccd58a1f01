------------------------- MODULE StreamLocksProofs -------------------------
(***************************************************************************)
(* For every number of threads and of streams: the locks exclude, a        *)
(* stream and its engine agree on whether it plays, and there is no        *)
(* deadlock unless one of two pairs of handlers meet, namely the timer's   *)
(* with one that calls the running engine, and the list of streams with    *)
(* one that removes a stream.                                              *)
(***************************************************************************)
EXTENDS StreamLocks, TLAPS

\* The places of each handler that the argument tells apart.
PlaceOfHandler ==
  \A t \in Threads :
    /\ pc[t] \in {"timer", "inTimer", "timerRelay", "timerRelaying", "timerRun"}
         => call[t].op = "timer_handler"
    /\ pc[t] \in {"list", "listing", "describe", "describing"} => call[t].op = "listStreams"
    /\ pc[t] \in {"unlist", "unlisting"} => call[t].op \in Leaving
    /\ pc[t] \in {"engine", "inEngine"}
         => call[t].op \in Leaving \union {"seek", "start", "stop", "speed"}

\* A thread that has set isPlaying_ and not yet called the engine, or is about
\* to pause it.
Changing(t, s) ==
  /\ pc[t] \in {"unlist", "unlisting", "engine", "inEngine"}
  /\ call[t].s = s
  /\ call[t].op \in Leaving \union {"start"}

Agreement ==
  \A s \in Streams : (s \in isPlaying <=> s \in running) \/ \E t \in Threads : Changing(t, s)

\* start() finds the engine paused; the timer that sends finds it running.
EngineState ==
  \A t \in Threads :
    /\ pc[t] \in {"engine", "inEngine"} /\ call[t].op = "start"
         => call[t].s \in isPlaying \ running
    /\ pc[t] \in {"timerRelay", "timerRelaying"} => call[t].s \in running

IInv == Types /\ PlaceOfHandler /\ Exclusion /\ Agreement /\ EngineState

-----------------------------------------------------------------------------
\* The locks of different streams, and of different kinds, are different.
LEMMA LocksDiffer ==
  ASSUME NEW s, NEW n
  PROVE  /\ lock_(s) = lock_(n) <=> s = n
         /\ lock(s) = lock(n) <=> s = n
         /\ lock_(s) # lock(n)
         /\ lock_(s) # allStreamsLock
         /\ lock(s) # allStreamsLock
  BY DEF lock_, lock, allStreamsLock

\* Two holds are the same when their modes and locks are.
LEMMA ModesDiffer ==
  ASSUME NEW l, NEW k
  PROVE  /\ Shared(l) = Shared(k) <=> l = k
         /\ Unique(l) = Unique(k) <=> l = k
         /\ Shared(l) # Unique(k)
         /\ Shared(l).mode = "shared" /\ Shared(l).lock = l
         /\ Unique(l).mode = "unique" /\ Unique(l).lock = l
  BY DEF Shared, Unique

\* A call in progress has its streams.
LEMMA CallTyped ==
  ASSUME Types, NEW t \in Threads, pc[t] # "idle"
  PROVE  call[t] \in Calls /\ call[t].op \in Handlers /\ call[t].s \in Streams /\ call[t].n \in Streams
  BY DEF Types, Calls

\* The places after a step: Take goes on by the table.
LEMMA TakenIsPlace ==
  ASSUME NEW p \in DOMAIN Taken
  PROVE  Taken[p] \in Places /\ Taken[p] # "idle"
  BY DEF Taken, Places

-----------------------------------------------------------------------------
(* What a step does to the locks a thread holds.                           *)

\* Go moves one thread and keeps the calls of the others.
LEMMA GoMoves ==
  ASSUME Types, NEW t \in Threads, NEW p \in Places, Go(t, p),
         pc[t] # "idle"
  PROVE  /\ pc' = [pc EXCEPT ![t] = p]
         /\ pc'[t] = p
         /\ p # "idle" => call' = call
         /\ p = "idle" => call' = [call EXCEPT ![t] = NoCall]
         /\ \A u \in Threads : u # t => pc'[u] = pc[u] /\ call'[u] = call[u]
         /\ todo' = todo
         /\ barred' \subseteq barred
  BY DEF Types, Go

\* A thread whose place and call do not change holds what it held.
LEMMA SamePlaceSameLocks ==
  ASSUME NEW u \in Threads, pc'[u] = pc[u], call'[u] = call[u]
  PROVE  Holds(u)' = Holds(u)
  BY DEF Holds

\* Begin: nothing is held at the start of a handler.
LEMMA BeginHolds ==
  ASSUME Types, NEW t \in Threads, Begin(t)
  PROVE  Holds(t)' = {} /\ \A u \in Threads : u # t => Holds(u)' = Holds(u)
<1>1. pc'[t] \in {"enter", "find", "list", "timer"}
  BY DEF Types, Begin, Entry
<1>2. Holds(t)' = {}
  BY <1>1 DEF Holds
<1>3. \A u \in Threads : u # t => pc'[u] = pc[u] /\ call'[u] = call[u]
  BY DEF Types, Begin
<1> QED BY <1>2, <1>3, SamePlaceSameLocks

\* Take: the thread holds what it held and what it waited for.
LEMMA TakeHolds ==
  ASSUME Types, NEW t \in Threads, Take(t)
  PROVE  Holds(t)' = Holds(t) \union {Wants(t)} /\ \A u \in Threads : u # t => Holds(u)' = Holds(u)
<1>1. /\ pc'[t] = Taken[pc[t]]
      /\ call' = call
      /\ \A u \in Threads : u # t => pc'[u] = pc[u]
  BY DEF Types, Take
<1>2. Holds(t)' = Holds(t) \union {Wants(t)}
  <2>1. CASE pc[t] \in {"enter", "enterNew", "relay", "add", "find", "list", "timer"}
    BY <1>1, <2>1 DEF Holds, Wants, Taken
  <2>2. CASE pc[t] \in {"engine", "unlist"}
    BY <1>1, <2>2 DEF Holds, Wants, Taken
  <2>3. CASE pc[t] \in {"describe", "timerRelay"}
    BY <1>1, <2>3 DEF Holds, Wants, Taken
  <2> QED BY <2>1, <2>2, <2>3 DEF Take, Taken
<1> QED BY <1>1, <1>2, SamePlaceSameLocks

\* Any other step of a handler lets go of locks or keeps them.
LEMMA ProceedHolds ==
  ASSUME Types, NEW t \in Threads, Proceed(t)
  PROVE  Holds(t)' \subseteq Holds(t) /\ \A u \in Threads : u # t => Holds(u)' = Holds(u)
<1>1. \A u \in Threads : u # t => pc'[u] = pc[u] /\ call'[u] = call[u]
  BY DEF Types, Proceed, inStream, removeStream, inEngine, leaveStream, return, getStream,
         listStreams, timer_handler, Go
<1>2. Holds(t)' \subseteq Holds(t)
  <2>1. CASE inStream(t)
    BY <2>1 DEF Types, inStream, Go, Holds
  <2>2. CASE removeStream(t)
    BY <2>2 DEF Types, removeStream, Go, Holds
  <2>3. CASE inEngine(t)
    BY <2>3 DEF Types, inEngine, Go, Holds
  <2>4. CASE leaveStream(t)
    BY <2>4 DEF Types, leaveStream, Go, Holds
  <2>5. CASE return(t)
    BY <2>5 DEF Types, return, Go, Holds
  <2>6. CASE getStream(t)
    BY <2>6 DEF Types, getStream, Go, Holds
  <2>7. CASE listStreams(t)
    BY <2>7 DEF Types, listStreams, Go, Holds
  <2>8. CASE timer_handler(t)
    BY <2>8 DEF Types, timer_handler, Go, Holds
  <2> QED BY <2>1, <2>2, <2>3, <2>4, <2>5, <2>6, <2>7, <2>8 DEF Proceed
<1> QED BY <1>1, <1>2, SamePlaceSameLocks

-----------------------------------------------------------------------------
(* The parts of the invariant.                                             *)

\* What a thread waits for is a lock.
LEMMA WantsLock ==
  ASSUME Types, NEW t \in Threads, pc[t] \in DOMAIN Taken
  PROVE  /\ Wants(t).lock \in Locks
         /\ Wants(t).mode \in {"shared", "unique"}
         /\ Wants(t) = IF Wants(t).mode = "unique" THEN Unique(Wants(t).lock) ELSE Shared(Wants(t).lock)
<1>1. call[t].s \in Streams /\ call[t].n \in Streams
  BY CallTyped DEF Taken
<1>2. /\ lock_(call[t].s) \in Locks
      /\ lock_(call[t].n) \in Locks
      /\ lock(call[t].s) \in Locks
      /\ allStreamsLock \in Locks
  BY <1>1 DEF Locks
<1>3. \/ Wants(t) \in {Unique(lock_(call[t].s)), Unique(lock_(call[t].n)),
                       Unique(lock(call[t].s)), Unique(allStreamsLock)}
      \/ Wants(t) \in {Shared(lock_(call[t].s)), Shared(allStreamsLock)}
  BY DEF Wants, Taken
<1> QED BY <1>2, <1>3, ModesDiffer

\* Every step preserves the types.
LEMMA TypePreserved ==
  ASSUME Types, [Next]_vars
  PROVE  Types'
<1>1. CASE UNCHANGED vars
  BY <1>1 DEF Types, vars
<1>2. ASSUME NEW t \in Threads, Begin(t) PROVE Types'
  <2>1. PICK c \in Calls :
          /\ call' = [call EXCEPT ![t] = c]
          /\ pc' = [pc EXCEPT ![t] = Entry(c.op)]
          /\ todo' = [todo EXCEPT ![t] = IF c.op = "listStreams" THEN Streams ELSE {}]
    BY <1>2 DEF Begin
  <2>2. Entry(c.op) \in Places /\ Entry(c.op) # "idle" /\ c # NoCall
    BY DEF Entry, Places, Taken, Calls, NoCall
  <2> QED BY <1>2, <2>1, <2>2 DEF Types, Begin
<1>3. ASSUME NEW t \in Threads, Take(t) PROVE Types'
  <2>1. Taken[pc[t]] \in Places /\ Taken[pc[t]] # "idle" /\ pc[t] # "idle"
    BY <1>3, TakenIsPlace DEF Take, Taken
  <2> QED BY <1>3, <2>1 DEF Types, Take
<1>4. ASSUME NEW t \in Threads, Wait(t) PROVE Types'
  BY <1>4, WantsLock DEF Types, Wait
<1>5. ASSUME NEW t \in Threads, Proceed(t) PROVE Types'
  <2>1. pc[t] # "idle"
    BY <1>5 DEF Proceed, inStream, removeStream, inEngine, leaveStream, return, getStream,
                listStreams, timer_handler
  <2>2. call[t] \in Calls /\ call[t].s \in Streams
    BY <2>1, CallTyped
  <2>3. ASSUME NEW p \in Places, Go(t, p), isPlaying' \subseteq Streams, running' \subseteq Streams
        PROVE  Types'
    BY <2>1, <2>2, <2>3 DEF Types, Go
  <2>4. CASE inStream(t)
    <3>1. isPlaying' \subseteq Streams /\ running' \subseteq Streams
      BY <2>2, <2>4 DEF Types, inStream, Playing
    <3> QED BY <2>3, <2>4, <3>1 DEF inStream, Places, Taken
  <2>5. CASE removeStream(t)
    BY <2>3, <2>5 DEF Types, removeStream, Places, Taken
  <2>6. CASE inEngine(t)
    <3>1. isPlaying' \subseteq Streams /\ running' \subseteq Streams
      BY <2>2, <2>6 DEF Types, inEngine, Playing
    <3> QED BY <2>3, <2>6, <3>1 DEF inEngine, Places
  <2>7. CASE leaveStream(t)
    BY <2>3, <2>7 DEF Types, leaveStream, Places, Taken
  <2>8. CASE return(t)
    BY <2>3, <2>8 DEF Types, return, Places
  <2>9. CASE getStream(t)
    BY <2>3, <2>9 DEF Types, getStream, Places, Taken
  <2>10. CASE listStreams(t)
    <3>1. CASE /\ pc[t] = "listing"
               /\ \E s \in todo[t] :
                    /\ call' = [call EXCEPT ![t].s = s]
                    /\ todo' = [todo EXCEPT ![t] = @ \ {s}]
               /\ pc' = [pc EXCEPT ![t] = "describe"]
               /\ UNCHANGED <<barred, isPlaying, running>>
      <4>1. PICK s \in todo[t] :
              /\ call' = [call EXCEPT ![t].s = s]
              /\ todo' = [todo EXCEPT ![t] = @ \ {s}]
        BY <3>1
      <4>2. s \in Streams
        BY DEF Types
      <4>3. call'[t] \in Calls /\ call'[t] # NoCall
        BY <2>2, <4>1, <4>2 DEF Types, Calls, NoCall
      <4>4. "describe" \in Places
        BY DEF Places, Taken
      <4> QED BY <3>1, <4>1, <4>3, <4>4 DEF Types
    <3>2. CASE \/ pc[t] = "listing" /\ todo[t] = {} /\ Go(t, "idle") /\ UNCHANGED <<isPlaying, running>>
               \/ pc[t] = "describing" /\ Go(t, "listing") /\ UNCHANGED <<isPlaying, running>>
      BY <2>3, <3>2 DEF Types, Places, Taken
    <3> QED BY <2>10, <3>1, <3>2 DEF listStreams
  <2>11. CASE timer_handler(t)
    BY <2>3, <2>11 DEF Types, timer_handler, Places, Taken
  <2> QED BY <1>5, <2>4, <2>5, <2>6, <2>7, <2>8, <2>9, <2>10, <2>11 DEF Proceed
<1> QED BY <1>1, <1>2, <1>3, <1>4, <1>5 DEF Next

\* Every step keeps to the places of its handler.
LEMMA PlacePreserved ==
  ASSUME Types, PlaceOfHandler, [Next]_vars
  PROVE  PlaceOfHandler'
<1>1. CASE UNCHANGED vars
  BY <1>1 DEF PlaceOfHandler, vars
<1>2. ASSUME NEW t \in Threads, Begin(t) PROVE PlaceOfHandler'
  BY <1>2 DEF Types, PlaceOfHandler, Begin, Entry
<1>3. ASSUME NEW t \in Threads, Take(t) PROVE PlaceOfHandler'
  BY <1>3 DEF Types, PlaceOfHandler, Take, Taken
<1>4. ASSUME NEW t \in Threads, Wait(t) PROVE PlaceOfHandler'
  BY <1>4 DEF PlaceOfHandler, Wait
<1>5. ASSUME NEW t \in Threads, Proceed(t) PROVE PlaceOfHandler'
  <2>1. CASE inStream(t)
    BY <2>1 DEF Types, PlaceOfHandler, inStream, Go
  <2>2. CASE removeStream(t)
    BY <2>2 DEF Types, PlaceOfHandler, removeStream, Go
  <2>3. CASE inEngine(t) \/ leaveStream(t) \/ return(t) \/ getStream(t)
    <3>1. PICK p \in {"leave", "idle", "relay", "add", "enter", "enterNew"} : Go(t, p)
      BY <2>3 DEF inEngine, leaveStream, return, getStream
    <3>2. pc'[t] = p /\ \A u \in Threads : u # t => pc'[u] = pc[u] /\ call'[u] = call[u]
      BY <3>1 DEF Types, Go
    <3> QED BY <3>1, <3>2 DEF PlaceOfHandler
  <2>4. CASE listStreams(t)
    <3>1. \A u \in Threads : u # t => pc'[u] = pc[u] /\ call'[u] = call[u]
      BY <2>4 DEF Types, listStreams, Go
    <3>2. pc'[t] \in {"idle", "listing", "describe"}
      BY <2>4 DEF Types, listStreams, Go
    <3>3. pc'[t] # "idle" => call'[t].op = "listStreams"
      <4>1. call[t] \in Calls /\ call[t].op = "listStreams"
        BY <2>4, CallTyped DEF PlaceOfHandler, listStreams
      <4> QED BY <2>4, <4>1 DEF Types, listStreams, Go, Calls
    <3> QED BY <3>1, <3>2, <3>3 DEF PlaceOfHandler
  <2>5. CASE timer_handler(t)
    BY <2>5 DEF Types, PlaceOfHandler, timer_handler, Go
  <2> QED BY <1>5, <2>1, <2>2, <2>3, <2>4, <2>5 DEF Proceed
<1> QED BY <1>1, <1>2, <1>3, <1>4, <1>5 DEF Next

\* A thread that is granted a lock shares it with readers only, or with none.
LEMMA ExclusionPreserved ==
  ASSUME Types, Exclusion, [Next]_vars
  PROVE  Exclusion'
<1>1. CASE UNCHANGED vars
  BY <1>1, SamePlaceSameLocks DEF Exclusion, vars
<1>2. ASSUME NEW t \in Threads, Holds(t)' \subseteq Holds(t),
             \A u \in Threads : u # t => Holds(u)' = Holds(u)
      PROVE  Exclusion'
  <2>1. \A u \in Threads : Holds(u)' \subseteq Holds(u)
    BY <1>2
  <2>2. Locks' = Locks
    BY DEF Locks, lock_, lock, allStreamsLock
  <2> QED BY <2>1, <2>2 DEF Exclusion, Shared, Unique
<1>3. ASSUME NEW t \in Threads, Take(t) PROVE Exclusion'
  <2> DEFINE w == Wants(t)
  <2>1. Holds(t)' = Holds(t) \union {w} /\ \A u \in Threads : u # t => Holds(u)' = Holds(u)
    BY <1>3, TakeHolds
  <2>2. w.mode \in {"shared", "unique"}
        /\ w = IF w.mode = "unique" THEN Unique(w.lock) ELSE Shared(w.lock)
    BY <1>3, WantsLock DEF Take
  <2>3. \A u \in Threads : Unique(w.lock) \notin Holds(u)
    BY <1>3 DEF Take, Granted, Holders
  <2>4. w.mode = "unique" => \A u \in Threads : Shared(w.lock) \notin Holds(u)
    BY <1>3 DEF Take, Granted, Holders
  <2> HIDE DEF w
  <2>5. SUFFICES ASSUME NEW v \in Threads, NEW u \in Threads, NEW l \in Locks,
                        v # u, Unique(l) \in Holds(v)'
                 PROVE  Unique(l) \notin Holds(u)' /\ Shared(l) \notin Holds(u)'
    BY DEF Exclusion, Shared, Unique, Locks, lock_, lock, allStreamsLock
  <2>6. CASE v = t
    <3>1. Holds(u)' = Holds(u)
      BY <2>1, <2>5, <2>6
    <3>2. CASE Unique(l) \in Holds(t)
      BY <2>5, <2>6, <3>1, <3>2 DEF Exclusion
    <3>3. CASE Unique(l) = w
      BY <2>2, <2>3, <2>4, <3>1, <3>3, ModesDiffer
    <3> QED BY <2>1, <2>5, <2>6, <3>2, <3>3
  <2>7. CASE v # t
    <3>1. Unique(l) \in Holds(v)
      BY <2>1, <2>5, <2>7
    <3>2. Unique(l) \notin Holds(u) /\ Shared(l) \notin Holds(u)
      BY <2>5, <3>1 DEF Exclusion
    <3>3. w # Unique(l) /\ w # Shared(l)
      BY <2>2, <2>3, <3>1, ModesDiffer
    <3> QED BY <2>1, <3>2, <3>3
  <2> QED BY <2>6, <2>7
<1>4. ASSUME NEW t \in Threads, Begin(t) PROVE Exclusion'
  BY <1>2, <1>4, BeginHolds
<1>5. ASSUME NEW t \in Threads, Wait(t) PROVE Exclusion'
  <2>1. \A u \in Threads : Holds(u)' = Holds(u)
    BY <1>5, SamePlaceSameLocks DEF Wait
  <2> QED BY <1>2, <2>1
<1>6. ASSUME NEW t \in Threads, Proceed(t) PROVE Exclusion'
  BY <1>2, <1>6, ProceedHolds
<1> QED BY <1>1, <1>3, <1>4, <1>5, <1>6 DEF Next

\* The locks that go with the places the argument uses.
LEMMA PlaceHolds ==
  ASSUME Types, NEW t \in Threads
  PROVE  /\ pc[t] \in {"in", "engine", "inEngine", "unlist", "unlisting", "leave"}
              => Unique(lock_(call[t].s)) \in Holds(t)
         /\ pc[t] \in {"inEngine", "timerRelay", "timerRelaying"}
              => Unique(lock(call[t].s)) \in Holds(t)
  BY DEF Holds

\* Two threads are not inside the same stream, nor inside the same engine.
LEMMA AloneInStream ==
  ASSUME Types, Exclusion, NEW t \in Threads, NEW u \in Threads, t # u,
         pc[t] # "idle", call[t].s = call[u].s
  PROVE  /\ pc[t] \in {"in", "engine", "inEngine", "unlist", "unlisting", "leave"}
              => pc[u] \notin {"in", "engine", "inEngine", "unlist", "unlisting", "leave"}
         /\ pc[t] = "inEngine" => pc[u] \notin {"timerRelay", "timerRelaying"}
<1>1. lock_(call[t].s) \in Locks /\ lock(call[t].s) \in Locks
  BY CallTyped DEF Locks
<1> QED BY <1>1, PlaceHolds DEF Exclusion

\* What a step does to isPlaying and running.
LEMMA PlayingChanges ==
  ASSUME Types, NEW t \in Threads, Proceed(t)
  PROVE  \/ UNCHANGED <<isPlaying, running>>
         \/ /\ pc[t] = "in" /\ call[t].op = "start" /\ call[t].s \notin isPlaying
            /\ isPlaying' = isPlaying \union {call[t].s} /\ running' = running
            /\ Go(t, "engine")
         \/ /\ pc[t] = "in" /\ call[t].op \in Leaving
            /\ isPlaying' = isPlaying \ {call[t].s} /\ running' = running
            /\ Go(t, "unlist")
         \/ /\ pc[t] = "inEngine" /\ call[t].op = "start"
            /\ isPlaying' = isPlaying /\ running' = running \union {call[t].s}
            /\ Go(t, "leave")
         \/ /\ pc[t] = "inEngine" /\ call[t].op \in Leaving \union {"stop"}
            /\ isPlaying' = isPlaying \ {call[t].s} /\ running' = running \ {call[t].s}
            /\ Go(t, "leave")
<1>1. CASE inStream(t)
  BY <1>1 DEF inStream, Playing
<1>2. CASE inEngine(t)
  BY <1>2 DEF inEngine, Playing
<1>3. CASE removeStream(t) \/ leaveStream(t) \/ return(t) \/ getStream(t) \/ listStreams(t) \/ timer_handler(t)
  BY <1>3 DEF removeStream, leaveStream, return, getStream, listStreams, timer_handler
<1> QED BY <1>1, <1>2, <1>3 DEF Proceed

\* A stream whose engine is out of step is being changed by some thread.
LEMMA AgreementPreserved ==
  ASSUME IInv, [Next]_vars
  PROVE  Agreement'
<1> USE DEF IInv
<1>1. CASE UNCHANGED vars
  BY <1>1 DEF Agreement, Changing, vars
<1>2. ASSUME UNCHANGED <<isPlaying, running>>,
             \A u \in Threads, s \in Streams : Changing(u, s) => Changing(u, s)'
      PROVE  Agreement'
  BY <1>2 DEF Agreement
<1>3. ASSUME NEW t \in Threads, Begin(t) PROVE Agreement'
  <2>1. \A u \in Threads : u # t => pc'[u] = pc[u] /\ call'[u] = call[u]
    BY <1>3 DEF Types, Begin
  <2>2. \A u \in Threads, s \in Streams : Changing(u, s) => Changing(u, s)'
    BY <1>3, <2>1 DEF Begin, Changing
  <2> QED BY <1>2, <1>3, <2>2 DEF Begin
<1>4. ASSUME NEW t \in Threads, Take(t) PROVE Agreement'
  <2>1. \A u \in Threads, s \in Streams : Changing(u, s) => Changing(u, s)'
    BY <1>4 DEF Types, Take, Taken, Changing
  <2> QED BY <1>2, <1>4, <2>1 DEF Take
<1>5. ASSUME NEW t \in Threads, Wait(t) PROVE Agreement'
  BY <1>2, <1>5 DEF Wait, Changing
<1>6. ASSUME NEW t \in Threads, Proceed(t) PROVE Agreement'
  <2> DEFINE a == call[t].s
  <2>1. pc[t] # "idle"
    BY <1>6 DEF Proceed, inStream, removeStream, inEngine, leaveStream, return, getStream,
                listStreams, timer_handler
  <2>2. \A u \in Threads : u # t => pc'[u] = pc[u] /\ call'[u] = call[u]
    BY <1>6 DEF Types, Proceed, inStream, removeStream, inEngine, leaveStream, return, getStream,
                listStreams, timer_handler, Go
  <2>3. \A u \in Threads, s \in Streams : u # t /\ Changing(u, s) => Changing(u, s)'
    BY <2>2 DEF Changing
  <2>4. ASSUME NEW p \in Places \ {"idle"}, Go(t, p)
        PROVE  pc'[t] = p /\ call'[t] = call[t]
    BY <2>1, <2>4, GoMoves
  <2>5. CASE UNCHANGED <<isPlaying, running>>
    <3>1. ASSUME NEW s \in Streams, Changing(t, s)
          PROVE  Changing(t, s)' \/ (s \in isPlaying' <=> s \in running')
      <4>1. CASE pc[t] = "unlisting"
        <5>1. Go(t, "engine")
          BY <1>6, <4>1 DEF Proceed, inStream, removeStream, inEngine, leaveStream, return,
                            getStream, listStreams, timer_handler
        <5>2. pc'[t] = "engine" /\ call'[t] = call[t]
          BY <2>4, <5>1 DEF Places, Taken
        <5> QED BY <3>1, <5>2 DEF Changing
      <4>2. CASE pc[t] = "inEngine"
        <5>1. \/ call[t].op = "start" /\ running' = running \union {a} /\ UNCHANGED isPlaying
              \/ running' = running \ {a} /\ isPlaying' = isPlaying \ {a}
          BY <1>6, <3>1, <4>2 DEF Changing, Proceed, inStream, removeStream, inEngine, leaveStream,
               return, getStream, listStreams, timer_handler, Playing, Leaving
        <5>2. call[t].op = "start" => a \in isPlaying
          BY <4>2 DEF EngineState
        <5> QED BY <3>1, <5>1, <5>2 DEF Changing
      <4>3. pc[t] \notin {"unlist", "engine"}
        BY <1>6 DEF Proceed, inStream, removeStream, inEngine, leaveStream, return,
                    getStream, listStreams, timer_handler
      <4> QED BY <3>1, <4>1, <4>2, <4>3 DEF Changing
    <3> QED BY <2>3, <2>5, <3>1 DEF Agreement
  <2>6. CASE /\ pc[t] = "in" /\ call[t].op = "start" /\ a \notin isPlaying
             /\ isPlaying' = isPlaying \union {a} /\ running' = running
             /\ Go(t, "engine")
    <3>1. pc'[t] = "engine" /\ call'[t] = call[t]
      BY <2>4, <2>6 DEF Places, Taken
    <3>2. \A s \in Streams : (s = a => Changing(t, s)') /\ ~ Changing(t, s)
      BY <2>6, <3>1 DEF Changing
    <3> QED BY <2>3, <2>6, <3>2 DEF Agreement
  <2>7. CASE /\ pc[t] = "in" /\ call[t].op \in Leaving
             /\ isPlaying' = isPlaying \ {a} /\ running' = running
             /\ Go(t, "unlist")
    <3>1. pc'[t] = "unlist" /\ call'[t] = call[t]
      BY <2>4, <2>7 DEF Places, Taken
    <3>2. \A s \in Streams : (s = a => Changing(t, s)') /\ ~ Changing(t, s)
      BY <2>7, <3>1 DEF Changing
    <3> QED BY <2>3, <2>7, <3>2 DEF Agreement
  <2>8. CASE /\ pc[t] = "inEngine" /\ call[t].op = "start"
             /\ isPlaying' = isPlaying /\ running' = running \union {a}
    <3>1. a \in isPlaying
      BY <2>8 DEF EngineState
    <3>2. \A s \in Streams : s # a => ~ Changing(t, s)
      BY DEF Changing
    <3> QED BY <2>3, <2>8, <3>1, <3>2 DEF Agreement
  <2>9. CASE /\ pc[t] = "inEngine"
             /\ isPlaying' = isPlaying \ {a} /\ running' = running \ {a}
    <3>1. \A s \in Streams : s # a => ~ Changing(t, s)
      BY DEF Changing
    <3> QED BY <2>3, <2>9, <3>1 DEF Agreement
  <2> QED BY <1>6, <2>5, <2>6, <2>7, <2>8, <2>9, PlayingChanges
<1> QED BY <1>1, <1>3, <1>4, <1>5, <1>6 DEF Next

\* start() finds the engine paused and the sending timer finds it running,
\* since nobody else is inside the stream, or inside the engine.
LEMMA EngineStatePreserved ==
  ASSUME IInv, [Next]_vars
  PROVE  EngineState'
<1> USE DEF IInv
<1>1. CASE UNCHANGED vars
  BY <1>1 DEF EngineState, vars
<1>2. ASSUME NEW t \in Threads, Begin(t) PROVE EngineState'
  BY <1>2 DEF Types, EngineState, Begin, Entry
<1>3. ASSUME NEW t \in Threads, Take(t) PROVE EngineState'
  BY <1>3 DEF Types, EngineState, Take, Taken
<1>4. ASSUME NEW t \in Threads, Wait(t) PROVE EngineState'
  BY <1>4 DEF EngineState, Wait
<1>5. ASSUME NEW t \in Threads, Proceed(t) PROVE EngineState'
  <2> DEFINE a == call[t].s
             OK(u) == /\ pc[u] \in {"engine", "inEngine"} /\ call[u].op = "start"
                           => call[u].s \in isPlaying \ running
                      /\ pc[u] \in {"timerRelay", "timerRelaying"} => call[u].s \in running
  <2>1. pc[t] # "idle" /\ a \in Streams
    <3>1. pc[t] # "idle"
      BY <1>5 DEF Proceed, inStream, removeStream, inEngine, leaveStream, return, getStream,
                  listStreams, timer_handler
    <3> QED BY <3>1, CallTyped
  <2>2. ASSUME NEW u \in Threads, u # t PROVE OK(u)'
    <3>1. pc'[u] = pc[u] /\ call'[u] = call[u]
      BY <1>5, <2>2 DEF Types, Proceed, inStream, removeStream, inEngine, leaveStream, return,
                        getStream, listStreams, timer_handler, Go
    <3>2. OK(u)
      BY DEF EngineState
    <3>3. CASE pc[t] \notin {"in", "inEngine"} \/ call[u].s # a
      BY <1>5, <3>1, <3>2, <3>3, PlayingChanges
    <3>4. CASE pc[t] \in {"in", "inEngine"} /\ call[u].s = a
      <4>1. pc[u] \notin {"engine", "inEngine"}
        BY <2>1, <2>2, <3>4, AloneInStream
      <4>2. pc[t] = "inEngine" => pc[u] \notin {"timerRelay", "timerRelaying"}
        BY <2>1, <2>2, <3>4, AloneInStream
      <4>3. pc[t] = "in" => running' = running
        BY <1>5, PlayingChanges
      <4> QED BY <3>1, <3>2, <3>4, <4>1, <4>2, <4>3
    <3> QED BY <3>3, <3>4
  <2>3. OK(t)'
    <3>1. CASE pc'[t] \notin {"engine", "timerRelay"}
      <4>1. pc'[t] \notin {"inEngine", "timerRelaying"}
        BY <1>5 DEF Types, Proceed, inStream, removeStream, inEngine, leaveStream, return,
                    getStream, listStreams, timer_handler, Go
      <4> QED BY <3>1, <4>1
    <3>2. CASE pc'[t] = "timerRelay"
      BY <1>5, <3>2 DEF Types, Proceed, inStream, removeStream, inEngine, leaveStream, return,
                        getStream, listStreams, timer_handler, Go
    <3>3. CASE pc'[t] = "engine" /\ call'[t].op = "start"
      <4>1. pc[t] = "in" \/ pc[t] = "unlisting"
        BY <1>5, <3>3 DEF Types, Proceed, inStream, removeStream, inEngine, leaveStream, return,
                          getStream, listStreams, timer_handler, Go
      <4>2. call' = call
        BY <1>5, <3>3, <4>1 DEF Types, Proceed, inStream, removeStream, inEngine, leaveStream,
             return, getStream, listStreams, timer_handler, Go
      <4>3. pc[t] = "in"
        BY <3>3, <4>1, <4>2 DEF PlaceOfHandler, Leaving
      <4>4. a \notin isPlaying /\ isPlaying' = isPlaying \union {a} /\ running' = running
        BY <1>5, <3>3, <4>2, <4>3 DEF Types, Proceed, inStream, removeStream, inEngine,
             leaveStream, return, getStream, listStreams, timer_handler, Playing, Leaving, Go
      <4>5. \A u \in Threads : ~ Changing(u, a)
        BY <2>1, <4>3, AloneInStream DEF Changing
      <4>6. a \notin running
        BY <2>1, <4>4, <4>5 DEF Agreement
      <4> QED BY <3>3, <4>2, <4>4, <4>6
    <3> QED BY <3>1, <3>2, <3>3
  <2> QED BY <2>2, <2>3 DEF EngineState
<1> QED BY <1>1, <1>2, <1>3, <1>4, <1>5 DEF Next

-----------------------------------------------------------------------------
(* Deadlock.                                                               *)

\* A thread that waits and holds a lock is at one of four places.
LEMMA WaitingHolder ==
  ASSUME NEW u \in Threads, pc[u] \in DOMAIN Taken, NEW l, u \in Holders(l)
  PROVE  \/ pc[u] \in {"engine", "unlist"} /\ l = lock_(call[u].s)
         \/ pc[u] = "describe" /\ l = allStreamsLock
         \/ pc[u] = "timerRelay" /\ l = lock(call[u].s)
<1>1. Shared(l) \in Holds(u) \/ Unique(l) \in Holds(u)
  BY DEF Holders
<1>2. CASE pc[u] \in {"engine", "unlist"}
  <2>1. Holds(u) = {Unique(lock_(call[u].s))}
    BY <1>2 DEF Holds
  <2> QED BY <1>1, <1>2, <2>1, ModesDiffer
<1>3. CASE pc[u] = "describe"
  <2>1. Holds(u) = {Shared(allStreamsLock)}
    BY <1>3 DEF Holds
  <2> QED BY <1>1, <1>3, <2>1, ModesDiffer
<1>4. CASE pc[u] = "timerRelay"
  <2>1. Holds(u) = {Unique(lock(call[u].s))}
    BY <1>4 DEF Holds
  <2> QED BY <1>1, <1>4, <2>1, ModesDiffer
<1>5. CASE pc[u] \notin {"engine", "unlist", "describe", "timerRelay"}
  BY <1>1, <1>5 DEF Holds, Taken
<1> QED BY <1>2, <1>3, <1>4, <1>5

\* What each waiting place wants, with the lock named.
LEMMA WantedLock ==
  ASSUME NEW t \in Threads, pc[t] \in DOMAIN Taken
  PROVE  /\ pc[t] = "enter" => Wants(t) = Unique(lock_(call[t].s))
         /\ pc[t] = "enterNew" => Wants(t) = Unique(lock_(call[t].n))
         /\ pc[t] \in {"relay", "describe", "timerRelay"} => Wants(t) = Shared(lock_(call[t].s))
         /\ pc[t] \in {"engine", "timer"} => Wants(t) = Unique(lock(call[t].s))
         /\ pc[t] \in {"unlist", "add"} => Wants(t) = Unique(allStreamsLock)
         /\ pc[t] \in {"find", "list"} => Wants(t) = Shared(allStreamsLock)
  BY DEF Wants

\* The handlers that can call a running engine, or change it.
EngineUsers == Leaving \union {"seek", "stop", "speed"}

\* Without the two pairs of handlers the invariant excludes a circular wait.
LEMMA NoCircle ==
  ASSUME IInv,
         "timer_handler" \notin Handlers \/ Handlers \cap EngineUsers = {},
         "listStreams" \notin Handlers \/ Handlers \cap Leaving = {}
  PROVE  NoCircularWait
<1> USE DEF IInv
<1>1. SUFFICES ASSUME NEW T \in SUBSET Threads, T # {},
                      \A t \in T : Waiting(t) /\ \E u \in T : KeptBy(t, u)
               PROVE  FALSE
  BY DEF NoCircularWait
<1>2. \A t \in T : pc[t] \in DOMAIN Taken /\ pc[t] # "idle"
  BY <1>1 DEF Waiting, Taken
<1>3. ASSUME NEW t \in T, pc[t] = "engine" PROVE FALSE
  <2>1. Wants(t).mode = "unique" /\ Wants(t).lock = lock(call[t].s)
    BY <1>2, <1>3, WantedLock, ModesDiffer
  <2>2. PICK u \in T : u \in Holders(lock(call[t].s))
    BY <1>1, <2>1 DEF KeptBy
  <2>3. pc[u] = "timerRelay" /\ call[u].s = call[t].s
    BY <1>2, <2>2, WaitingHolder, LocksDiffer
  <2>4. call[u].op = "timer_handler" /\ call[u].op \in Handlers /\ call[t].op \in Handlers
    BY <1>2, <2>3, CallTyped DEF PlaceOfHandler
  <2>5. call[t].op = "start"
    BY <1>3, <2>4 DEF PlaceOfHandler, EngineUsers
  <2> QED BY <1>3, <2>3, <2>5 DEF EngineState
<1>4. ASSUME NEW t \in T, pc[t] = "unlist" PROVE FALSE
  <2>1. Wants(t).mode = "unique" /\ Wants(t).lock = allStreamsLock
    BY <1>2, <1>4, WantedLock, ModesDiffer
  <2>2. PICK u \in T : u \in Holders(allStreamsLock)
    BY <1>1, <2>1 DEF KeptBy
  <2>3. pc[u] = "describe"
    BY <1>2, <2>2, WaitingHolder, LocksDiffer
  <2> QED BY <1>2, <1>4, <2>3, CallTyped DEF PlaceOfHandler
<1>5. ASSUME NEW t \in T, pc[t] \in {"enter", "enterNew"} PROVE FALSE
  <2>1. PICK s : Wants(t).mode = "unique" /\ Wants(t).lock = lock_(s)
    BY <1>2, <1>5, WantedLock, ModesDiffer
  <2>2. PICK u \in T : u \in Holders(lock_(s))
    BY <1>1, <2>1 DEF KeptBy
  <2>3. pc[u] \in {"engine", "unlist"}
    BY <1>2, <2>2, WaitingHolder, LocksDiffer
  <2> QED BY <1>3, <1>4, <2>3
<1>6. ASSUME NEW t \in T, pc[t] \in {"relay", "describe", "timerRelay"} PROVE FALSE
  <2>1. Wants(t).lock = lock_(call[t].s)
    BY <1>2, <1>6, WantedLock, ModesDiffer
  <2>2. PICK u \in T : u \in Holders(lock_(call[t].s)) \/ Wants(u) = Unique(lock_(call[t].s))
    BY <1>1, <2>1 DEF KeptBy
  <2>3. CASE u \in Holders(lock_(call[t].s))
    <3>1. pc[u] \in {"engine", "unlist"}
      BY <1>2, <2>3, WaitingHolder, LocksDiffer
    <3> QED BY <1>3, <1>4, <3>1
  <2>4. CASE Wants(u) = Unique(lock_(call[t].s))
    <3>1. pc[u] \in {"enter", "enterNew"}
      BY <1>2, <2>4, WantedLock, ModesDiffer, LocksDiffer DEF Taken
    <3> QED BY <1>5, <3>1
  <2> QED BY <2>2, <2>3, <2>4
<1>7. ASSUME NEW t \in T, NEW u \in T, u \in Holders(allStreamsLock) PROVE FALSE
  BY <1>2, <1>6, <1>7, WaitingHolder, LocksDiffer
<1>8. ASSUME NEW t \in T, pc[t] = "add" PROVE FALSE
  <2>1. Wants(t).mode = "unique" /\ Wants(t).lock = allStreamsLock
    BY <1>2, <1>8, WantedLock, ModesDiffer
  <2> QED BY <1>1, <1>7, <2>1 DEF KeptBy
<1>9. ASSUME NEW t \in T, pc[t] \in {"find", "list"} PROVE FALSE
  <2>1. Wants(t).lock = allStreamsLock
    BY <1>2, <1>9, WantedLock, ModesDiffer
  <2>2. PICK u \in T : Wants(u) = Unique(allStreamsLock)
    BY <1>1, <1>7, <2>1 DEF KeptBy
  <2>3. pc[u] \in {"unlist", "add"}
    BY <1>2, <2>2, WantedLock, ModesDiffer, LocksDiffer DEF Taken
  <2> QED BY <1>4, <1>8, <2>3
<1>10. ASSUME NEW t \in T, pc[t] = "timer" PROVE FALSE
  <2>1. Wants(t).mode = "unique" /\ Wants(t).lock = lock(call[t].s)
    BY <1>2, <1>10, WantedLock, ModesDiffer
  <2>2. PICK u \in T : u \in Holders(lock(call[t].s))
    BY <1>1, <2>1 DEF KeptBy
  <2>3. pc[u] = "timerRelay"
    BY <1>2, <2>2, WaitingHolder, LocksDiffer
  <2> QED BY <1>6, <2>3
<1>11. PICK t \in T : TRUE
  BY <1>1
<1> QED BY <1>2, <1>3, <1>4, <1>5, <1>6, <1>8, <1>9, <1>10, <1>11 DEF Taken

-----------------------------------------------------------------------------
\* The invariant holds in every reachable state, whatever handlers run.
THEOREM Invariance == Spec => []IInv
<1>1. Init => IInv
  BY DEF Init, IInv, Types, PlaceOfHandler, Exclusion, Agreement, EngineState, Holds, Places
<1>2. IInv /\ [Next]_vars => IInv'
  BY TypePreserved, PlacePreserved, ExclusionPreserved, AgreementPreserved, EngineStatePreserved
     DEF IInv
<1> QED BY <1>1, <1>2, PTL DEF Spec

\* Type correctness of the handlers and their places; and no handler is under a
\* lock past another one that holds it for writing.
THEOREM TypeCorrectness == Spec => []TypeOK
<1>1. IInv => TypeOK
  BY DEF IInv, TypeOK
<1> QED BY <1>1, Invariance, PTL

\* A stream that nobody is changing is marked as playing exactly when its
\* engine runs (SharedStream::start, stop, speed and unsubscribe).
THEOREM StreamAndEngineAgree == Spec => []PlayingAgrees
<1>1. IInv => PlayingAgrees
  BY PlaceHolds DEF IInv, Agreement, Changing, PlayingAgrees
<1> QED BY <1>1, Invariance, PTL

\* There is no deadlock when timer_handler does not meet a handler that calls
\* the running engine under lock_, and listStreams does not meet one that
\* removes a stream.  Both conditions are needed: see StreamLockClaims.
THEOREM NoDeadlock ==
  ASSUME "timer_handler" \notin Handlers \/ Handlers \cap EngineUsers = {},
         "listStreams" \notin Handlers \/ Handlers \cap Leaving = {}
  PROVE  Spec => []NoCircularWait
<1>1. IInv => NoCircularWait
  BY NoCircle
<1> QED BY <1>1, Invariance, PTL
=============================================================================
