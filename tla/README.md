# Watcher in TLA+

Watcher shows the state of a mobile network as it changes.  *Feeders* on the
network's nodes send messages (positions, links, labels) to the daemon
`watcherd`, which records them in an SQLite database; *GUI clients* connect to
the same daemon and are sent the recording, live or replayed from any point, in
either direction and at any speed.  Clients may share one replay, a *stream*,
so that what one of them does (start, stop, speed) all of them see.

This directory holds TLA+ specifications of the parts of that program where
concurrency and ordering matter, the configurations TLC checks them with, and
theorems about them with proofs for TLAPS.  `PROJECT.json` lists components,
runs, mutants, the source lines behind every definition, the hazards the
properties are for, and the theorems.  Paths below are relative to `src/src/`.

Contents: [the system](#the-system), [the modules](#the-modules),
[the runs](#the-runs), [bounds](#bounds-and-why-they-are-enough),
[fairness](#fairness), [proofs](#proofs),
[where the code differs from its documents](#where-the-code-differs-from-its-documents),
[what is not modelled](#what-is-not-modelled), [plan](#plan).

## The system

### Components and their state

| component | source | state | operations |
|---|---|---|---|
| event database | `watcherd/sqliteDatabase.cpp`, `database.cpp` | table `events(ts, data)`; a handle per thread | `storeEvent`, `getEvents(cb, t, dir, count)`, `eventRange` |
| event recording | `watcherd/writeDBMessageHandler.cpp` | none | store every message of a feeder |
| playback engine | `watcherd/replayState.cpp` | queue of prefetched events, effective time `ts`, query position `last_event`, speed, paused/running, a timer | `play`, `pause`, `seek`, `speed`, `timer_handler`, `run` |
| shared stream | `watcherd/sharedStream.cpp` | list of clients, `isPlaying_`, description, an engine | `subscribe`, `unsubscribe`, `start`, `stop`, `seek`, `speed`, `range`, relay to all clients |
| registry of streams | `watcherd/watcherd.cpp` | `allStreams` | `addStream`, `removeStream`, `getStream`, `listStreams` |
| server connection | `watcherd/serverConnection.cpp` | kind (unknown, feeder, gui), its stream, filters, buffers being written | read header, read payload, dispatch, write, `read_error`, `handle_write` |
| accept loop, thread pool | `watcherd/server.cpp` | the connection to be accepted | accept, run, stop |
| client connection | `libwatcher/clientConnection.cpp`, `connection.cpp` | `connected`, handlers | connect, send, read, close |
| message stream, reactor | `libwatcher/messageStream.cpp`, `messageStreamReactor.cpp` | cache of messages, `readReady` | get next message, clear, reconnect, callbacks |
| message filters | `libwatcher/messageStreamFilter.cpp` | layers, types, regions | pass or not |
| marshalling | `libwatcher/dataMarshaller.cpp`, `marshalYAML.cpp` | none | header of length and count, YAML payload |
| watcher graph | `libwatcher/watcherGraph.cpp`, `watcherLayerData.cpp` | nodes, layers, edges, labels in arrays of fixed size | apply a message, expire, change direction |
| stream control | `clients/messageStreamControl/`, `clients/legacyWatcher/` | what the GUI shows of the stream | send and follow start, stop, speed |
| GUIs, feeders | `clients/` | windows, drawings | |
| utilities | `util/`, `logger/`, `sqlite_wrapper/` | configuration, loggers, SQLite handles | |

### How they interact

* One `io_service` is run by a pool of threads (`server.cpp:66-82`).  Handlers
  of one connection's reads are serialised by its strand; its write handler is
  in another strand; a timer handler is in none.
* A control message goes connection -> shared stream -> engine, with the
  stream's `lock_` held while the engine takes its own `lock`.  Afterwards the
  stream relays the message to its clients, under a shared `lock_`.
* The timer goes the other way: engine, with `lock` held -> stream -> its
  clients.
* A stream that loses its last client is removed from the registry, with
  `lock_` held while `allStreamsLock` is taken; listing the streams goes the
  other way.
* Feeders' connections record messages in the database while engines query it.
* The stream owns its engine; the engine has a weak pointer to the stream.

### What is hard, and what makes it correct

* **Database**: rows of one millisecond must not be divided by the limit on
  rows, because the next query starts after that millisecond.  Correct:
  paging by the last timestamp returns every row once, in order.
* **Engine**: a timer that has expired cannot be cancelled, so its handler may
  come after a pause, a seek or a change of direction.  Correct: every message
  of a segment of playback is sent once and in order, nothing is sent while
  paused, playback does not stall, a change of direction continues where
  playback is.
* **Locks**: three kinds of locks, one of them a shared mutex in which a
  waiting writer holds up further readers.  Correct: no circular wait, every
  handler returns.
* **Shared streams**: relays run after the lock was released; a stream is
  looked up, left and joined in separate steps; the end of a connection is seen
  by a read, by a write, or by both.  Correct: a connection is a client of its
  own stream only, a stream plays when its engine runs, a stream nobody uses is
  gone.
* **Connection**: messages of several threads are written to one socket, in
  parts, while requests are read from it; a protocol error ends the reading.
  Correct: the client gets what was sent to it, whole and in order.
* **Client**: the application connects and sends, the io thread reads into a
  cache, a third thread takes messages out; watcherd may stop at any point and
  start again.  Correct: no wakeup is lost, a connected client is read, no
  message is heard twice or out of order, the client finds its way back.
* **Watcher graph**: nodes and layers get indices for good, in arrays of a
  fixed size; an edge and its expiration are in two matrices; the direction of
  time changes what "expired" means.  Correct: indices stay in the arrays and
  name one thing, and the graph is what an observer without indices would
  keep.
* **Controls of playback**: every request is relayed to everybody, the sender
  too, and controls answer relays with requests.  Correct: they stop answering,
  and show what the stream does.

## The modules

| module | models | over |
|---|---|---|
| `EventDB` | the table, `getEvents`, `eventRange`, `storeEvent` | |
| `EventDBReference` | `getEvents`' loop statement by statement, paging, and the properties of queries | `EventDB` |
| `PlaybackCursor` | abstract: what a client is promised of a replay | `EventDB` |
| `ReplayState` | the playback engine; implements `PlaybackCursor` | `EventDB` |
| `ReplayClaims` | a promise of the documents that playback does not keep | `ReplayState` |
| `StreamLocks` | who takes which lock, in what order | |
| `StreamLockClaims` | a promise that a deadlock breaks | `StreamLocks` |
| `SharedStream` | streams, their clients and the connections' handlers | |
| `ServerConnection` | one connection: reading, filtering, writing in parts, and the client's end | |
| `ClientStream` | the client's side: socket, cache, callbacks, and watcherd coming and going | |
| `EdgeLifetimes` | abstract: which edges there are between named nodes, and until when | |
| `WatcherGraph` | the graph of the GUIs; implements `EdgeLifetimes` | |
| `StreamControl` | the playback control of the GUIs, several of them on one stream | |
| `LegacyControl` | the legacy watcher as another client of that stream | `StreamControl` |
| `EventDBProofs` (also of `EventDBReference`), `ReplayStateProofs`, `StreamLocksProofs`, `SharedStreamProofs`, `WatcherGraphProofs`, `ClientStreamProofs`, `ServerConnectionProofs`, `LegacyControlProofs` (also of `StreamControl`) | proofs | the module they name |
| `MC...` | instances for TLC | |

Definitions keep the names of the source.  An operator `f_bug` that stands
before an operator `f` is a *mutant*: `f` with a plausible mistake, which the
properties are tested with.  No specification uses a mutant.

**EventDB.**  The table is a set of rows: a timestamp and an opaque message.
The rows a query passes to its callback come in the order of their timestamps,
so the set of them and the direction say all that a caller can observe.
`getEvents` says which rows these are; `EventDBReference` has the loop as
written in the source, over every order SQLite may return rows of one
millisecond in, and `LoopAgrees` says that the two are the same.

**ReplayState.**  Every public function but `tell` and `speed() const` holds
the engine's lock from the first statement to the last and is one action;
`run`, which the others call, is an operator of the state it is called in.
`TimerExpires` moves the timer's handler to the queue of the `io_service`
with a success code, where `pause`'s cancel does not reach it; `handlerSends`,
`handlerPaused` and `handlerDisconnected` are the three ways through
`timer_handler`.  `Store` is a message recorded by another thread.  Three
history variables follow the *segment* of playback since the last seek or
change of direction: where it started, what it has sent, and what was recorded
behind the query position and will not be sent.  With them `PlaybackCursor` is
implemented by a mapping that renames variables.

**StreamLocks.**  A handler is a walk through places; the place says which
locks are held and which one is waited for (`Holds`, `Wants`).  Kept of the
data is whether a stream plays and whether its engine runs.  `Wait` is the step
in which a writer that cannot be granted the shared mutex begins to hold up
readers, as `boost::shared_mutex` does.  Any thread may run any handler at any
time, which is what the strands permit when there are more connections than
threads.

**SharedStream.**  Here a scope of `lock_` is one step, and the steps of a
handler are told apart where the code holds no lock between them: looking a
stream up, leaving the old one, assigning the pointer, joining, reading the
speed, telling it, relaying.  A relay shares the lock, so relays of several
connections interleave client by client, while steps that need `lock_` for
themselves wait (`Exclusive`).  `handle_write` runs at any time.  A connection's
state `refused` is that after a protocol error: the handler returns, nothing
reads from the connection any more, and it stays subscribed.

**ServerConnection.**  The other view of a connection: what requests do to the
stream is `SharedStream`'s, here it is only subscribed or not.  A frame is a
header with the number of its messages, cut to `Width` bits, and the messages;
`async_write` gives the socket the parts it has room for, `WriteOn` more of any
write under way once there is room, and `WriteFails` is `handle_write` with an
error.  `sendMessage` and `sendMessages` filter by opposite rules, as the code
does.  The client's end (`ReadHeader`, `ReadPart`) reads a header, and then
as many parts as it names; if these are not messages it is deaf.  A payload
from the client may hold a message that is none (`UnparsablePayload`), which
ends the reading and nothing else, or be no YAML (`ParserThrows`): the parser
throws (`dataMarshaller.cpp:110`), nothing up to the thread of the pool catches
that, and watcherd is `terminated`.

**ClientStream.**  Three threads, each with a place: `at` for the application in
`connectStream()`, the completions that wait for the io thread (`reading`, `errors`,
`closing`), and `running`, `held` for the reactor.  `connected` is
tested and set without a lock, so `tryConnect` and `run` are two steps and so are the two
statements of `doClose()`.  watcherd is external: it sends frames, some
without sense, stops with what was under way cut anywhere (`Partial`), and
starts again.  `early` distinguishes the two GUIs: ogreWatcher registers its
callbacks before it connects, messageStreamControl each time after.  `aborted` is
the exception of the synchronous read that nothing catches.

**WatcherGraph.**  The arrays, the two maps from names to indices, the matrix
of edges and that of expirations, and the labels of each place, as functions
over indices.  A message is applied whole (`updateGraph`): the calls that give
out indices precede each change, and the one that finds no room for a node or
a layer ends the program (`exited`).  Slot 0, the physical layer's, is in no
map, as in the code: a message that names this layer gives it a second slot.
`doMaintanence` expires what is in active layers,
`setTimeDirectionForward` clears, and `viewClears` does so without turning:
everything (the menu, the slider, and `paintGL` while there is no connection),
the edges, which leaves their labels, or the labels.  `EdgeLifetimes` has edges between
names and no second matrix; the mapping reads an edge's life off both.

**StreamControl, LegacyControl.** Clients with a queue to the server and one
back. A control (messageStreamControl's) is its flag, rate and spin box;
setting the box to another value signals a change, which sends a request
(`HandleSpeed`). The engine may set its own speed to 1 while it plays forward
(`EndOfRecording`, `replayState.cpp:300-301`) and tells nobody; the clients
that were there are `unaware` until a speed is relayed again. The legacy
watcher does not answer starts and stops, its pause button is a toggle that
its other buttons press first, and its thread of messages hands speeds to the
windows' thread in queued signals (`signals`, `ShowRate`). The server applies
and relays in one step here: how relays interleave is `SharedStream`'s.
`Patient` says that users act only when nothing is under way, `Mixed` that
clients of both kinds share the stream.

## The runs

| run | shows |
|---|---|
| `eventdb` | over every table of up to four rows, query times and limits: the loop and its characterisation agree, paging returns every row once and in order, the limit is exceeded only within a millisecond (forward), and no millisecond is divided |
| `replay` | the engine's invariants under every interleaving of calls, expiries, waiting handlers, recording and the end of the stream; that it implements the cursor; and that with fair timers every message ahead in the segment is sent, unless calls never stop |
| `locks_connections` | control messages, subscriptions and disconnections: locks exclude, no circular wait, stream and engine agree, every handler returns |
| `locks_timer` | the timer and the listing, with the handlers that do not conflict with them: no circular wait |
| `shared_stream` | membership, playing state and the registry stay consistent, and a closed connection leaves its stream |
| `connection` | while writes do not overlap, the client gets what was sent, once and in order and in the end all of it; of a frame that holds more messages than its header counts it loses the last ones, and only those |
| `client_stream` | no wakeup is lost, a connection is read or given up, messages are heard once and in order over reconnections, nodes are announced once, the client comes back and the cache is emptied |
| `graph` | indices, expirations and labels stay consistent under messages, expiry, changes of direction, clearing and toggled layers, to the limits of the arrays, and the graph implements `EdgeLifetimes` |
| `control` | patient users, three controls or two legacy watchers: once nothing is under way all agree with the server on playing and on the rate (except that those who were there when the engine set its own rate show the last one relayed, a limit of the code), a legacy graph runs in the direction of the stream, and one action is answered a bounded number of times |
| `replay_same_ms`, `locks_stop`, `control_storm` | violations; see [below](#where-the-code-differs-from-its-documents) |

What a system state may stop in is checked where it can go wrong: deadlock
checking is off in all runs, because recording, clients and connections really
come to an end within the bounds; `NoCircularWait`, `NeverStalls` and the
liveness properties say what must not stop.

### Bounds, and why they are enough

* `eventdb`: two messages per millisecond, timestamps 1..4, up to four rows,
  query times before, within and after them, limits 0..3.  A divided
  millisecond needs two rows in it and a limit that falls between them.
* `replay`: two messages per millisecond, timestamps 1..3, up to three rows
  and a prefetch of 2, so that the queue runs dry with rows left; a step of 2,
  so that neighbouring milliseconds are sent together and others are not;
  speeds -1, 1, 2 (two directions, two paces); seeks to the start, a message
  and the end (-1).  `MaxExpired = 2` handlers wait at once: two pauses and
  plays around a waiting handler are the case that can arm twice.  More than
  two expire only by repeating this.
* `locks_connections`: two threads and two streams; `locks_timer`: three
  threads, with symmetry, as it checks an invariant only.  The theorem
  `NoDeadlock` is for any number of both.
* `shared_stream`: two connections and three messages in all: one stream is
  created by each, one joins the other, and one message is left to be relayed,
  refused or to cross another.  Speeds 0 (a stop) and 2.
* `connection`: a header of two bits counts to 3, and one of the batches has 5
  messages, of which 1 is counted; a socket of two parts is full in the middle of a frame; three
  frames, so that two overlap and one follows.
* `client_stream`: three frames, one stop of watcherd, one failed write and
  one hasty attempt to connect, that is, one made before the io thread has run
  what waits for it.  An attempt takes a round trip to the server, and what the
  io thread has to run takes none, so haste is rare, not impossible; without a
  bound a client that is always faster never comes back.
* `graph`: two nodes in as many slots, and three names of layers for the two
  slots beside slot 0, so that nodes fill their array and a layer finds no
  room; times 1 and 3 with a lifetime of 1 and an unlimited one, so
  that an edge may expire between them in either direction.
* `control`: three controls, so that two others answer an action and each
  other; two legacy watchers; the box goes to 1 and rates to 2, so that the
  box clamps.  `control_storm` needs a single control and two actions.

`MaxRows`, `MaxExpired`, `MaxMsgs`, `MaxFrames`, `MaxStops`, `MaxErrors`,
`MaxHasty`, `RateBound` and `MaxActions` bound what TLC explores and appear as
guards of actions; the theorems hold for every value of them.

### Fairness

* `ReplayState!FairSpec`: an armed timer expires, and the pool runs handlers
  that wait; both are what an `io_service` with a running thread does.  Clients'
  calls are not fair, and `EveryMessagePlayed` claims nothing when they never
  stop, since each seek starts over.
* `StreamLocks!FairSpec`: a thread takes a lock that is granted for good and
  goes on in its code.  No order among waiters is assumed, as boost's mutexes
  promise none, and `EveryHandlerReturns` claims nothing while new handlers go
  on being started.
* `SharedStream!FairSpec`: the handler of a connection goes on, the read of a
  closed connection fails in the end (TCP reports it), and the handler of a
  failed write is run.  Clients need not send, close, or be written to.
* `ClientStream!FairSpec`: each of the three threads goes on while it has
  something to do, and watcherd is started again.  It need not send anything.
* `StreamControl!FairSpec`, `LegacyControl!FairLegacySpec`: the server and the
  clients read what has arrived.  Users need not act, and a recording need not
  end (`EndOfRecording` has no fairness).

## Proofs

Every invariant and every safety property that the passing runs check is a
theorem.  Each holds for every value of the constants that satisfies the named
assumption of its module (`EventDBAssumption`, `ReplayAssumption`, ...):
timestamps and sizes are naturals, speeds are nonzero integers with 1 among
them, handlers and message types are those the source has, there are finitely
many clients, times that are queried lie between 0 and the largest timestamp,
and 2 to the width of the header's count is a positive natural number (a fact,
which is named only because the prover knows nothing of powers).  Nothing else is
assumed of the constants; two theorems say for which values they hold
(`Patient`, `Mixed`).

Some operators compute with recursive functions: the query loop, paging, the
filter of a batch, the flattening of what headers count.  For each it is first shown that
the function exists (values for the first *n* arguments extend to *n* + 1), and
then what it computes, by induction over a set of naturals that has 0 and
*n* + 1 with each *n*: `NatSetInduction`, which rests on the well-foundedness of
the subsets of a finite set.

* `EventDBProofs!MillisecondsWhole`: a forward or reverse query that returns one
  row of a millisecond returns all of them.  It rests on lemmas on the least
  and greatest timestamp of a finite set and on what `getEvents` covers.
  `QueriesKeepMillisecondsWhole` and `QueriesKeepTheLimit` derive from it two of
  the properties of the run, for every table and limit.
* `EventDBProofs!LoopPassesOnThePage`: what the loop of the source passes on is
  what `getEvents` says.  After *i* iterations the loop has passed on the first
  *k* rows, where *k* is *i* or the place of the row it broke at, and no row
  before makes it break (`LoopIs`).  Forward, the first row of a millisecond has
  as many earlier rows as its place says, so it makes the loop break exactly
  when the characterisation leaves it out; in reverse only the first row can.
* `EventDBProofs!PagingIsComplete`: paging returns every selected row once, in
  playback order.  The recursion ends because a page's last timestamp is nearer
  to the end of the times (`Rank`); over this distance it is shown that the
  pages from a time on partition what is selected after it.
* `ReplayStateProofs!Invariance`: the invariant `IInv` of the engine.  The
  properties are not inductive alone: that nothing is skipped needs that the
  queue lies between what was sent and `last_event`, that in turn that the
  queue is in the segment, and that the effective time is that of the queue's
  front; that playback does not stall needs that `pause` leaves no timer armed.
  `RunProperties` says once what `run` does; there is a lemma per action.
  From `IInv`: `TypeCorrectness`, `TimerCorrectness`, `NoTimerWhilePaused`,
  `ExactlyOnce`, `InOrder`, `PositionIsNext`, `PositionInSegment` and
  `PauseIsEffective`.  All invariants that `replay` checks are proved.
* `ReplayStateProofs!Refinement`: the engine implements `PlaybackCursor`; every
  step maps to showing, recording, a restart or a stutter.  Two more invariants
  are needed: a playback whose queue is empty before the end of the recording
  has sent nothing in its segment, and a query position is the start of the
  segment or the timestamp of a recorded message.  `TurnsWherePlaybackIs` uses
  the same.
* `StreamLocksProofs!Invariance`: the invariant of the locks: they exclude
  (`Exclusion`, a part of `TypeOK`), and each place implies which handler is
  there and what state it has found.
  `StreamAndEngineAgree` needs a disjunct for the thread that has set
  `isPlaying_` and not yet called the engine, and that this thread is alone in
  the stream.  `NoDeadlock` orders the locks: a handler waits for
  `allStreamsLock` after `lock_`, for the engine's `lock` after `lock_`, and
  for nothing with the others, so that the chain of waits ends, provided that
  neither the timer meets a handler that calls a running engine with `lock_`
  held nor the listing one that leaves a stream.  `locks_stop` shows that the
  first proviso is needed; so is the second (see below).
* `SharedStreamProofs!Invariance`: connections and streams.  `NothingLeftBehind`
  is not inductive: a connection that changes streams has left the old one and
  still points at it (place `switch`), so that assigning the pointer would have
  to leave something behind.  `UnusedIsLeft` claims more: already connections at
  `switch` use their stream no longer.  That the last one to leave is also the
  last client needs that clients use the stream (`ClientOfOwnStream`,
  `DoneLeft`), and that in turn needs `GuiHasStream` (a connection without a
  stream is in no list when it creates one) and `Switching` (the stream to go
  to is that of the request).  From it: `OwnStreamOnly`, `StreamPlaysAsMarked`,
  `LeftBehindNothing`.  The relays need no part of the invariant, as they change
  only what clients are told.
* `WatcherGraphProofs!Invariance`: the four invariants of the run are inductive
  together: an edge is found again after new indices were given out only
  because edges have indices that were given out before, and a new layer is
  empty only because slots without a layer are.  `Refinement` maps every message,
  expiry, change of direction and clearing to a step of `EdgeLifetimes`: the maps being
  inverse to each other, an edge between indices is one between names, and one that is
  gone has no expiration that could come back.
* `ClientStreamProofs!Invariance`: that a connected client is read needs that a
  handler of the stream is registered from the first attempt to connect on
  (`OneHandler`): a message without a handler would end the reading of a
  connection that stays connected.  `CallbacksInOrder` carries the order over
  the whole way, callbacks, reactor, cache and wire, and past a reconnection,
  after which the numbers on the wire are greater than any before.
* `ClientStreamProofs!NodesAreAnnounced`: the nodes that were announced are
  among those seen, and a client that registers its callbacks before it
  connects keeps its reactor, so that for it the nodes seen, heard and
  announced are the same (`AnnounceInv`).
* `ServerConnectionProofs!StreamStaysIntact`: while writes do not overlap
  there is a number of frames that the client has read whole, and what it still
  expects, what is in the socket and what the one write has left lead part by
  part from there to the end of the last frame (`StreamInv`).  The length in a
  header covers every part of its frame, so that the chain goes on behind a
  frame with more messages than were counted; what the client has got is what
  the headers of the frames it has read count (`CountedFrames`).
* `LegacyControlProofs!ClientsComeToAgree`: what clients show when nothing is
  under way follows from what is true before (`AgreeInv`): the last rate in a
  client's queue is the one due to it or, when there is none, the client shows it
  (`Due`: the last one relayed if the client is unaware, else the engine's); the
  last start or stop in the queue is what the server does or, when there is none,
  the client shows that, or a start or a stop is on its way to the server; and a
  graph runs with the rate shown.  It holds for patient users, and also when
  both kinds of clients share the stream, which the run leaves out because their
  answers need not end.
* `LegacyControlProofs!EchoesStayBounded`: what a patient user did sets the pace:
  from then on all that is under way says the same, and the requests sent and
  the answers still to come (clients that show something else) never grow
  together (`EchoInv`).  It holds for clients of one kind; `control_storm` shows
  that `Patient` is needed, and both kinds together that `Mixed` is excluded for a
  reason (see below).  Every step of both modules is first shown to be one of
  seven kinds (`StepsMove`), and each invariant has a lemma per kind.  The types
  (`TypeCorrectness`, which needs no patience) say beyond `TypeOK` that no rate of
  0 is relayed and that only clients of the stream are sent anything.

Model-checked only: the liveness properties `EveryMessagePlayed`,
`EveryHandlerReturns`, `ClosedLeaves`, `AnswersEnd`, `ComesBack` and
`CacheIsDrained`, since fairness and ENABLED are beyond the prover, and the
violations, which are counterexamples.

## Where the code differs from its documents

Checked by runs that TLC finds violated:

* `replay_same_ms`: a message recorded in the millisecond that a query has just
  read is never sent, although no later message exists.  `README.changelog:70-72`
  reports losses at one timestamp as fixed.
* `locks_stop`: `stop()` and `timer_handler()` take the stream's and the
  engine's lock in opposite orders and can wait for each other for ever; the
  stop is not relayed (`sharedStream.cpp:127`).
* `control_storm`: a user presses two of pause and play before the first has
  come back; the control answers each relay with the other request and starts
  and stops the stream for ever (`README.changelog:131`, "fully implemented
  synced stream functionality").

Seen while modelling, and not given a run.

*Engine and database*: a reverse query ignores the limit on rows
(`sqliteDatabase.cpp:117`); reverse playback from the end leaves out the last
millisecond, against `replayState.cpp:239-240`; a seek to *t* leaves out the
messages at *t*, against `messageStream.h:114`; the speed falls back to 1 at
the end of the recording without a message (`replayState.cpp:301`, a FIXME), so
that clients go on showing the last speed relayed while one that joins later
shows 1: `ClientsAgree` has this as an exception, with its extent.

*Streams*: `listStreams()` and the `unsubscribe()` of a last client take
`allStreamsLock` and `lock_` in opposite orders (`watcherd.cpp:91`); two relays
may cross, so that a client is left with "start" of a stream that is paused
(`sharedStream.cpp:109`); a stream left by its last client between the look-up
and the subscription of another is used on, unlisted (`serverConnection.cpp:259`,
against `watcherd.h:100`).

*Server connection*: one message alone is filtered when filtering is not enabled
(`serverConnection.cpp:479`), several when it is (`:524`), against
`messageStream.h:145-147`, and several pass if any filter passes them but one
alone only if all do; the comment on AND and OR in `messageStreamFilter.h:65-68`
says the opposite of the code, and an AND of two types passes nothing; the
number of messages is cut to 16 bits (`dataMarshaller.cpp:146`); writes may
overlap and mix their parts; a connection that is refused or sends a message
that is none stays subscribed (`:338`, `:357`, against the comment at `:412-415`), and
one that sends no YAML ends watcherd (`dataMarshaller.cpp:110`);
after one failed accept none follows (`server.cpp:94`).

*Client*: an error of the old socket closes the new one
(`clientConnection.cpp:230`, `:308`); after a frame that cannot be parsed
`connected` stays true and nobody reads, and the reader waits for ever
(`:186`, `messageStream.cpp:138`); when watcherd dies between a header and its
payload the synchronous read throws and the process ends (`:268`);
`removeMessageHandler` searches from `end()` to `begin()` and erases the first
handler, whichever it is (`connection.cpp:66`); messageStreamControl registers its
callbacks after it has connected and misses what came before;
`isStreamReadable` reads without the lock (`messageStream.cpp:150`);
`messageFilteringEnabled` is not initialised (`messageStream.h:265`).

*Watcher graph*: the two directions of a bidirectional edge put the labels of
its ends on both (`watcherGraph.cpp:245-249`); an unlimited edge keeps the finite
expiration of the one it replaces (`:221`); the slot 0 has no name in
`layerIndexMap`; labels added again do not live longer; an edge that is
removed leaves its label; `edgeMessage.h:62` says 0 never expires, the code
says -1; "thread-safe" (`manetglview.cpp:1367`) holds for messages among
themselves, but maintenance writes the same matrices without a lock (`:1420`).

*Controls*: a legacy watcher and a control on one stream do not need a hasty
user: reverse in the legacy watcher is stop, speed and start at once, and the
control answers for ever (`LegacyControl` with `Mixed = TRUE` has this
counterexample to `ControlsSynced` with patient users).  The ogre watcher's own
copy of the control answers every relayed start with a start, its own included
(`ogreWatcher/QMessageStreamPlaybackWidget.cpp:229`), so that one start goes
round for ever, and is not told of stops at all (`QWatcherMainWindow.cpp:123-138`).
A client that joins a playing stream is told its speed only and shows it
paused.  The slider clears the cache, in which a stop may have been.  Doubling
leads past the range of the box, and the box at its limit does not correct it.
`messageStreamDirectionChange` is emitted with the opposite sense of its
header's (`QMessageStreamPlaybackWidget.cpp:283`), but nothing is connected to it.

## What is not modelled

* The delays of the timer: an armed timer expires at any time.  So nothing is
  said about pace, only about order.
* Speeds are integers; only their sign, doubling and equality with 0 matter
  here.
* SQLite: a statement is atomic.  Errors from the database and the configuration
  are not modelled.
* In `SharedStream`: descriptions, ranges, seeks, filters and the list, which
  change nothing there; blocking on locks other than `lock_`, which is
  `StreamLocks`; the assignment of `stream` as a data race.
* In `ClientStream`: `reconnect()`, which replaces the client while the other
  threads may be in it, and `close()` by the application, at the program's end.
* In `WatcherGraph`: what is only drawn (positions, colours, shapes), and the
  interleaving of maintenance or of clearing with a message inside one matrix, a data race
  whose outcomes depend on the compiler.
* In `StreamControl`: seeks, the time range and the description, which are not
  relayed or only shown; the ogre watcher's copy, whose answers never end.
* The rest of the GUIs, about half of the source, is drawing, dialogs, menus and
  configuration in Qt, OpenGL, Ogre and KML; feeders and converters translate
  files and system tables into messages; `watcherHierarchyClient` turns another
  project's alerts into edges; `gps2eventdb` is geometry in floating point.
  They keep no state that another part relies on.  Start-up, logging, data
  formats, vendored code and build files likewise.  `PROJECT.json` lists every
  component with its reason.

## Plan

Done, in this order: `EventDB` with its reference; `PlaybackCursor` and
`ReplayState`, the heart of the daemon; `StreamLocks`; `SharedStream`;
`WatcherGraph` with `EdgeLifetimes`; `ClientStream`; `ServerConnection`;
`StreamControl` and `LegacyControl`; their proofs.

Left, by what it would add (all invariants of the runs are proved):

1. `reconnect()` and `close()` in `ClientStream`, with the threads that are in
   the client they replace.
2. The controls over the relay of `SharedStream`, client by client, instead of
   one step.
