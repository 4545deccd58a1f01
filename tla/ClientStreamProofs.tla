------------------------- MODULE ClientStreamProofs -------------------------
(***************************************************************************)
(* Proofs about the client's stream, for any number of messages, nodes and *)
(* stops of watcherd.                                                      *)
(***************************************************************************)
EXTENDS ClientStream, Integers, TLAPS

(***************************************************************************)
(* The part of the state the invariants need the types of.                 *)
(***************************************************************************)
Types ==
  /\ connected \in BOOLEAN /\ reading \in BOOLEAN /\ sock \in BOOLEAN /\ up \in BOOLEAN
  /\ opening \in BOOLEAN /\ closing \in BOOLEAN /\ deaf \in BOOLEAN
  /\ errors \in Nat /\ handlers \in Nat
  /\ messageCache \in Seq(Messages)
  /\ readReady \in BOOLEAN

Wire == sent \in 0 .. MaxMsgs /\ wire \in Seq(Messages \union {Garbled, Partial})

(***************************************************************************)
(* What is read goes to one handler, the stream, from the first attempt to *)
(* connect on: a read without a handler would end the reading of a         *)
(* connection that stays connected.                                        *)
(***************************************************************************)
OneHandler ==
  /\ handlers \in 0 .. 1
  /\ at # "connect" => handlers = 1
  /\ reading \/ opening \/ connected => handlers = 1

IInv == Types /\ Wire /\ OneHandler /\ ReadyMeansNotEmpty /\ ConnectedIsRead

\* The connection's part of the state, which the reader and watcherd leave alone.
connVars == <<connected, reading, opening, closing, errors, deaf, at, handlers, sock, up>>

(* The initial states satisfy the invariant.                               *)
LEMMA InitInv == Init => IInv
PROOF
<1> SUFFICES ASSUME Init PROVE IInv
  OBVIOUS
<1>1. /\ up = TRUE /\ sock = FALSE /\ connected = FALSE /\ reading = FALSE
      /\ opening = FALSE /\ closing = FALSE /\ deaf = FALSE /\ readReady = FALSE
  BY DEF Init
<1>2. /\ wire = <<>> /\ sent = 0 /\ errors = 0 /\ at = "connect" /\ handlers = 0
      /\ messageCache = <<>>
  BY DEF Init
<1>3. Types
  <2>1. /\ connected \in BOOLEAN /\ reading \in BOOLEAN /\ sock \in BOOLEAN /\ up \in BOOLEAN
        /\ opening \in BOOLEAN /\ closing \in BOOLEAN /\ deaf \in BOOLEAN /\ readReady \in BOOLEAN
    BY <1>1
  <2>2. messageCache \in Seq(Messages)
    BY <1>2
  <2>3. errors \in Nat /\ handlers \in Nat
    BY <1>2
  <2> QED
    BY <2>1, <2>2, <2>3 DEF Types
<1>4. Wire
  BY <1>2, ClientStreamAssumption DEF Wire
<1>5. OneHandler
  BY <1>1, <1>2 DEF OneHandler
<1>6. ReadyMeansNotEmpty
  BY <1>1, <1>2 DEF ReadyMeansNotEmpty
<1>7. ConnectedIsRead
  BY <1>1 DEF ConnectedIsRead
<1> QED
  BY <1>3, <1>4, <1>5, <1>6, <1>7 DEF IInv

(* A frame of messages that arrives makes the cache readable.              *)
LEMMA ArriveReady ==
  ASSUME NEW c, messageCache \in Seq(Messages), c \in Messages, handlers = 1, ReadyMeansNotEmpty,
         readReady \in BOOLEAN,
         handleMessageArrive([i \in 1 .. handlers |-> c])
  PROVE  /\ messageCache' = Append(messageCache, c)
         /\ ReadyMeansNotEmpty'
PROOF
<1> DEFINE one == [i \in 1 .. 1 |-> c]
<1>1. one \in Seq(Messages) /\ Len(one) = 1 /\ one[1] = c
  OBVIOUS
<1>2. messageCache' = messageCache \o one /\ readReady' = (readReady \/ one # <<>>)
  BY DEF handleMessageArrive
<1>3. one # <<>>
  BY <1>1
<1>4. messageCache' = Append(messageCache, c)
  BY <1>1, <1>2
<1>5. messageCache' # <<>>
  BY <1>4
<1> QED
  BY <1>2, <1>3, <1>4, <1>5 DEF ReadyMeansNotEmpty

(* Steps that leave the cache and the wire alone keep what is said of them. *)
LEMMA CacheAlone ==
  ASSUME IInv, UNCHANGED cacheVars
  PROVE  ReadyMeansNotEmpty' /\ messageCache' \in Seq(Messages) /\ readReady' \in BOOLEAN
BY DEF IInv, Types, ReadyMeansNotEmpty, cacheVars

(* Steps that leave the connection alone keep what is said of it.          *)
LEMMA ConnectionAlone ==
  ASSUME IInv, UNCHANGED connVars, UNCHANGED <<sent, wire>>, ReadyMeansNotEmpty',
         messageCache' \in Seq(Messages), readReady' \in BOOLEAN
  PROVE  IInv'
BY DEF IInv, Types, Wire, OneHandler, ConnectedIsRead, connVars

(* watcherd's steps keep the invariant.                                    *)
LEMMA PeerStep ==
  ASSUME IInv, PeerSends \/ PeerStops \/ PeerStarts
  PROVE  IInv'
PROOF
<1>1. UNCHANGED cacheVars /\ UNCHANGED <<connected, reading, opening, closing, errors, deaf, at, handlers, sock>>
      /\ up' \in BOOLEAN
  BY DEF IInv, Types, PeerSends, PeerStops, PeerStarts, socketVars, appVars
<1>2. Wire'
  <2>1. CASE PeerSends
    <3>1. PICK f \in {Message(sent + 1, n) : n \in Nodes} \union {Garbled} : wire' = Append(wire, f)
      BY <2>1 DEF PeerSends
    <3>2. sent' \in 0 .. MaxMsgs /\ sent + 1 \in 1 .. MaxMsgs
      BY <2>1, ClientStreamAssumption DEF PeerSends, IInv, Wire
    <3>3. f \in Messages \union {Garbled, Partial}
      BY <3>1, <3>2 DEF Messages
    <3> QED
      BY <3>1, <3>2, <3>3 DEF IInv, Wire
  <2>2. CASE PeerStops
    <3>1. PICK k \in 0 .. Len(wire), part \in {<<>>, <<Partial>>} : wire' = SubSeq(wire, 1, k) \o part
      BY <2>2 DEF PeerStops
    <3>2. SubSeq(wire, 1, k) \in Seq(Messages \union {Garbled, Partial})
      BY <3>1 DEF IInv, Wire
    <3>3. <<Partial>> \in Seq(Messages \union {Garbled, Partial})
      OBVIOUS
    <3>4. part \in Seq(Messages \union {Garbled, Partial})
      <4>1. CASE part = <<>>
        BY <4>1
      <4>2. CASE part = <<Partial>>
        BY <3>3, <4>2
      <4> QED
        BY <4>1, <4>2
    <3>5. wire' \in Seq(Messages \union {Garbled, Partial})
      BY <3>1, <3>2, <3>4
    <3>6. sent' = sent
      BY <2>2 DEF PeerStops
    <3> QED
      BY <3>5, <3>6 DEF IInv, Wire
  <2>3. CASE PeerStarts
    BY <2>3 DEF PeerStarts, IInv, Wire
  <2> QED
    BY <2>1, <2>2, <2>3
<1>3. ReadyMeansNotEmpty' /\ messageCache' \in Seq(Messages) /\ readReady' \in BOOLEAN
  BY <1>1, CacheAlone
<1>4. Types' /\ OneHandler' /\ ConnectedIsRead'
  BY <1>1, <1>3 DEF IInv, Types, OneHandler, ConnectedIsRead
<1> QED
  BY <1>2, <1>3, <1>4 DEF IInv

(* A connection that is made is about to be read, by one handler.          *)
LEMMA TryConnectStep ==
  ASSUME IInv, tryConnect
  PROVE  IInv'
PROOF
<1>1. UNCHANGED cacheVars /\ UNCHANGED <<closing, at, sent, up>>
  BY DEF tryConnect
<1>2. reading' = FALSE /\ deaf' = FALSE /\ wire' = <<>> /\ sock' = up /\ connected' = up /\ opening' = up
  BY DEF tryConnect
<1>3. handlers' = 1
  <2>1. handlers' = IF at = "connect" THEN removeMessageHandler(handlers) + 1 ELSE handlers
    BY DEF tryConnect
  <2>2. removeMessageHandler(handlers) = 0
    BY DEF IInv, OneHandler, removeMessageHandler
  <2> QED
    BY <2>1, <2>2 DEF IInv, OneHandler
<1>4. errors' \in Nat
  BY DEF tryConnect, IInv, Types
<1>5. ReadyMeansNotEmpty' /\ messageCache' \in Seq(Messages) /\ readReady' \in BOOLEAN
  BY <1>1, CacheAlone
<1>6. Types'
  BY <1>1, <1>2, <1>3, <1>4, <1>5 DEF IInv, Types
<1>7. Wire'
  BY <1>1, <1>2 DEF IInv, Wire
<1>8. OneHandler' /\ ConnectedIsRead'
  BY <1>1, <1>2, <1>3 DEF OneHandler, ConnectedIsRead, IInv, Types
<1> QED
  BY <1>5, <1>6, <1>7, <1>8 DEF IInv

(* The application's other steps keep the invariant.                       *)
LEMMA AppStep ==
  ASSUME IInv, App
  PROVE  IInv'
PROOF
<1>1. CASE tryConnect
  BY <1>1, TryConnectStep
<1>2. CASE run
  <2>1. UNCHANGED cacheVars /\ UNCHANGED <<wire, sent, up, sock, connected, closing, deaf, at, handlers>>
    BY <1>2 DEF run, peerVars
  <2>2. ReadyMeansNotEmpty' /\ messageCache' \in Seq(Messages) /\ readReady' \in BOOLEAN
    BY <2>1, CacheAlone
  <2>3. opening /\ opening' = FALSE /\ reading' = (connected /\ sock)
        /\ errors' = IF connected /\ ~ sock THEN errors + 1 ELSE errors
    BY <1>2 DEF run
  <2>8. reading' \in BOOLEAN
    BY <2>3, Zenon
  <2>9. errors' \in Nat
    BY <2>3 DEF IInv, Types
  <2>10. opening' = FALSE
    BY <2>3
  <2>4. Types'
    BY <2>1, <2>2, <2>8, <2>9, <2>10 DEF IInv, Types
  <2>5. Wire'
    BY <2>1 DEF IInv, Wire
  <2>6. OneHandler'
    BY <2>1, <2>3 DEF IInv, OneHandler
  <2>7. ConnectedIsRead'
    BY <2>1, <2>3 DEF IInv, Types, ConnectedIsRead
  <2> QED
    BY <2>2, <2>4, <2>5, <2>6, <2>7 DEF IInv
<1>3. CASE sendMessages
  <2>1. UNCHANGED cacheVars /\ UNCHANGED <<wire, sent, up, sock, connected, reading, closing, deaf, opening, handlers>>
    BY <1>3 DEF sendMessages, peerVars, Goto
  <2>2. ReadyMeansNotEmpty' /\ messageCache' \in Seq(Messages) /\ readReady' \in BOOLEAN
    BY <2>1, CacheAlone
  <2>3. errors' = errors \/ errors' = errors + 1
    BY <1>3, Zenon DEF sendMessages
  <2>4. at # "connect"
    BY <1>3 DEF sendMessages
  <2>5. Types' /\ Wire'
    BY <2>1, <2>2, <2>3 DEF IInv, Types, Wire
  <2>6. OneHandler'
    BY <2>1, <2>4 DEF IInv, OneHandler
  <2>7. ConnectedIsRead'
    BY <2>1, <2>3 DEF IInv, Types, ConnectedIsRead
  <2> QED
    BY <2>2, <2>5, <2>6, <2>7 DEF IInv
<1>4. CASE Connected \/ newReactor \/ Register \/ Watch
  <2>1. UNCHANGED cacheVars
        /\ UNCHANGED <<wire, sent, up, sock, connected, reading, closing, errors, deaf, opening, handlers>>
    BY <1>4 DEF Connected, newReactor, Register, Watch, peerVars, socketVars, Goto
  <2>2. at = "connect" => connected
    BY <1>4 DEF Connected, newReactor, Register, Watch
  <2>3. ReadyMeansNotEmpty' /\ messageCache' \in Seq(Messages) /\ readReady' \in BOOLEAN
    BY <2>1, CacheAlone
  <2>4. Types' /\ Wire'
    BY <2>1, <2>3 DEF IInv, Types, Wire
  <2>5. OneHandler' /\ ConnectedIsRead'
    BY <2>1, <2>2 DEF IInv, OneHandler, ConnectedIsRead
  <2> QED
    BY <2>3, <2>4, <2>5 DEF IInv
<1> QED
  BY <1>1, <1>2, <1>3, <1>4 DEF App

(* What ends the reading of a socket is about to close it.                 *)
LEMMA DoCloseStep ==
  ASSUME IInv, NEW n \in Nat, DoClose(n)
  PROVE  IInv'
PROOF
<1>1. UNCHANGED cacheVars /\ UNCHANGED <<sent, up, connected, at, opening, handlers>>
  BY DEF DoClose, appVars
<1>2. sock' = FALSE /\ reading' = FALSE /\ deaf' = FALSE /\ wire' = <<>> /\ errors' = n /\ closing' = TRUE
  BY DEF DoClose, Close
<1>3. ReadyMeansNotEmpty' /\ messageCache' \in Seq(Messages) /\ readReady' \in BOOLEAN
  BY <1>1, CacheAlone
<1>4. Types'
  BY <1>1, <1>2, <1>3 DEF IInv, Types
<1>6. Wire'
  BY <1>1, <1>2 DEF IInv, Wire
<1>5. OneHandler' /\ ConnectedIsRead'
  BY <1>1, <1>2 DEF IInv, OneHandler, ConnectedIsRead
<1> QED
  BY <1>3, <1>4, <1>5, <1>6 DEF IInv

(* Taking a frame off the wire keeps the invariant.                        *)
LEMMA ReadStep ==
  ASSUME IInv, handle_read_header
  PROVE  IInv'
PROOF
<1> DEFINE f == Head(wire)
<1>1. UNCHANGED <<sent, up, sock, connected, errors, closing, opening, at, handlers>>
  BY DEF handle_read_header, appVars
<1>2. reading /\ handlers = 1 /\ wire # <<>> /\ wire' = Tail(wire)
  BY DEF handle_read_header, IInv, OneHandler
<1>3. Wire' /\ f \in Messages \union {Garbled, Partial}
  BY <1>1, <1>2 DEF IInv, Wire
<1>4. CASE f.kind = "message" /\ handleMessageArrive([i \in 1 .. handlers |-> f])
           /\ reading' = (handlers # 0) /\ UNCHANGED <<aborted, deaf>>
  <2>1. f \in Messages
    BY <1>3, <1>4 DEF Garbled, Partial
  <2>2. ReadyMeansNotEmpty' /\ messageCache' = Append(messageCache, f)
    BY <1>2, <1>4, <2>1, ArriveReady DEF IInv, Types
  <2>3. messageCache' \in Seq(Messages)
    BY <2>1, <2>2 DEF IInv, Types
  <2>4. readReady' \in BOOLEAN
    BY <2>2 DEF ReadyMeansNotEmpty
  <2>5. reading' = TRUE
    <3>1. reading' = (handlers # 0) /\ handlers = 1
      BY <1>2, <1>4, Zenon
    <3>2. (handlers # 0) = TRUE
      BY <3>1
    <3> QED
      BY <3>1, <3>2, Zenon
  <2>6. Types'
    BY <1>1, <1>4, <2>3, <2>4, <2>5 DEF IInv, Types
  <2>7. OneHandler' /\ ConnectedIsRead'
    BY <1>1, <1>2, <2>5 DEF IInv, OneHandler, ConnectedIsRead
  <2> QED
    BY <1>3, <2>2, <2>6, <2>7 DEF IInv
<1>5. CASE f.kind = "garbled" /\ reading' = FALSE /\ deaf' = TRUE /\ UNCHANGED <<cacheVars, aborted>>
  <2>1. ReadyMeansNotEmpty' /\ messageCache' \in Seq(Messages) /\ readReady' \in BOOLEAN
    BY <1>5, CacheAlone
  <2>2. Types'
    BY <1>1, <1>5, <2>1 DEF IInv, Types
  <2>3. OneHandler' /\ ConnectedIsRead'
    BY <1>1, <1>2, <1>5 DEF IInv, OneHandler, ConnectedIsRead
  <2> QED
    BY <1>3, <2>1, <2>2, <2>3 DEF IInv
<1>6. CASE f.kind = "partial" /\ aborted' = TRUE /\ UNCHANGED <<cacheVars, reading, deaf>>
  <2>1. ReadyMeansNotEmpty' /\ messageCache' \in Seq(Messages) /\ readReady' \in BOOLEAN
    BY <1>6, CacheAlone
  <2>2. Types'
    BY <1>1, <1>6, <2>1 DEF IInv, Types
  <2>3. OneHandler' /\ ConnectedIsRead'
    BY <1>1, <1>6 DEF IInv, OneHandler, ConnectedIsRead
  <2> QED
    BY <1>3, <2>1, <2>2, <2>3 DEF IInv
<1> QED
  BY <1>4, <1>5, <1>6 DEF handle_read_header

(* The io thread's steps keep the invariant.                               *)
LEMMA IOStep ==
  ASSUME IInv, IO
  PROVE  IInv'
PROOF
<1>1. CASE handle_read_header
  BY <1>1, ReadStep
<1>2. CASE EndOfStream
  BY <1>2, DoCloseStep DEF EndOfStream, IInv, Types
<1>3. CASE Failure
  <2>1. errors > 0 /\ errors \in Nat
    BY <1>3 DEF Failure, IInv, Types
  <2>2. (IF reading THEN errors ELSE errors - 1) \in Nat
    BY <2>1
  <2> QED
    BY <1>3, <2>2, DoCloseStep DEF Failure
<1>4. CASE Disconnected
  <2>1. UNCHANGED cacheVars /\ UNCHANGED <<wire, sent, up, sock, reading, errors, deaf, opening, at, handlers>>
        /\ closing' = FALSE /\ connected' = FALSE
    BY <1>4 DEF Disconnected, peerVars, appVars
  <2>2. ReadyMeansNotEmpty' /\ messageCache' \in Seq(Messages) /\ readReady' \in BOOLEAN
    BY <2>1, CacheAlone
  <2>3. Types' /\ Wire'
    BY <2>1, <2>2 DEF IInv, Types, Wire
  <2>4. OneHandler' /\ ConnectedIsRead'
    BY <2>1 DEF IInv, OneHandler, ConnectedIsRead
  <2> QED
    BY <2>2, <2>3, <2>4 DEF IInv
<1> QED
  BY <1>1, <1>2, <1>3, <1>4 DEF IO

(* The reader's steps, and dropping the cache, keep the invariant.         *)
LEMMA ReaderStep ==
  ASSUME IInv, Reader \/ clearMessageCache
  PROVE  IInv'
PROOF
<1>1. UNCHANGED connVars /\ UNCHANGED <<sent, wire>>
  BY DEF Reader, getNextMessage, Dispatch, clearMessageCache, connVars, peerVars, socketVars, appVars
<1>2. CASE getNextMessage
  <2>1. messageCache # <<>> /\ messageCache' = Tail(messageCache) /\ readReady' = (messageCache' # <<>>)
    BY <1>2 DEF getNextMessage, IInv, ReadyMeansNotEmpty
  <2>2. messageCache' \in Seq(Messages)
    BY <2>1 DEF IInv, Types
  <2> QED
    BY <1>1, <2>1, <2>2, ConnectionAlone DEF ReadyMeansNotEmpty
<1>3. CASE Dispatch
  BY <1>1, <1>3, CacheAlone, ConnectionAlone DEF Dispatch
<1>4. CASE clearMessageCache
  <2>1. messageCache' = <<>> /\ readReady' = FALSE
    BY <1>4 DEF clearMessageCache
  <2>2. messageCache' \in Seq(Messages)
    BY <2>1
  <2>4. readReady' \in BOOLEAN
    BY <2>1
  <2>3. ReadyMeansNotEmpty'
    BY <2>1 DEF ReadyMeansNotEmpty
  <2> QED
    BY <1>1, <2>2, <2>3, <2>4, ConnectionAlone
<1> QED
  BY <1>2, <1>3, <1>4 DEF Reader

(* A step that changes nothing keeps the invariant.                        *)
LEMMA StutterStep ==
  ASSUME IInv, UNCHANGED vars
  PROVE  IInv'
PROOF
<1>1. UNCHANGED connVars /\ UNCHANGED <<sent, wire>> /\ UNCHANGED cacheVars
  BY DEF vars, connVars, peerVars, socketVars, appVars, cacheVars
<1> QED
  BY <1>1, CacheAlone, ConnectionAlone

(* Every step keeps the invariant.                                         *)
LEMMA NextInv == IInv /\ [Next]_vars => IInv'
PROOF
<1> SUFFICES ASSUME IInv, [Next]_vars PROVE IInv'
  OBVIOUS
<1>1. CASE PeerSends \/ PeerStops \/ PeerStarts
  BY <1>1, PeerStep
<1>2. CASE App
  BY <1>2, AppStep
<1>3. CASE IO
  BY <1>3, IOStep
<1>4. CASE Reader \/ clearMessageCache
  BY <1>4, ReaderStep
<1>5. CASE UNCHANGED vars
  BY <1>5, StutterStep
<1> QED
  BY <1>1, <1>2, <1>3, <1>4, <1>5 DEF Next

(* The invariant holds throughout.                                         *)
THEOREM Invariance == Spec => []IInv
BY InitInv, NextInv, PTL DEF Spec

(* The reader of the cache waits exactly when it is empty, whatever the io *)
(* thread, the application and the slider of the controls do meanwhile     *)
(* (getNextMessage, handleMessageArrive, clearMessageCache).               *)
THEOREM NoLostWakeup == Spec => []ReadyMeansNotEmpty
PROOF
<1>1. IInv => ReadyMeansNotEmpty
  BY DEF IInv
<1> QED
  BY <1>1, Invariance, PTL

(* A connection that says it is connected is read, or on its way to be     *)
(* read or closed (tryConnect, run, doClose), however often watcherd stops *)
(* and writes fail.                                                        *)
THEOREM ConnectionIsAttended == Spec => []ConnectedIsRead
PROOF
<1>1. IInv => ConnectedIsRead
  BY DEF IInv
<1> QED
  BY <1>1, Invariance, PTL

-----------------------------------------------------------------------------
(***************************************************************************)
(* The order of messages.  It is seen on the whole of what watcherd has    *)
(* sent and has not been lost: what was heard, the message held, the cache *)
(* and the wire, one after the other.                                      *)
(***************************************************************************)
Frames == Messages \union {Garbled, Partial}

Ordered(a, b) == a.kind = "message" /\ b.kind = "message" => a.n < b.n
Rising(s)     == \A i, j \in 1 .. Len(s) : i < j => Ordered(s[i], s[j])
Before(s, t)  == \A i \in 1 .. Len(s), j \in 1 .. Len(t) : Ordered(s[i], t[j])
UpToSent(s)   == \A i \in 1 .. Len(s) : s[i].kind = "message" => s[i].n <= sent

(* A sequence grows at its end.                                            *)
LEMMA AppendInOrder ==
  ASSUME NEW s \in Seq(Frames), NEW x \in Frames
  PROVE  /\ Rising(s) /\ (\A i \in 1 .. Len(s) : Ordered(s[i], x)) => Rising(Append(s, x))
         /\ \A t \in Seq(Frames) :
              /\ Before(s, t) /\ (\A j \in 1 .. Len(t) : Ordered(x, t[j])) => Before(Append(s, x), t)
              /\ Before(t, s) /\ (\A j \in 1 .. Len(t) : Ordered(t[j], x)) => Before(t, Append(s, x))
PROOF
<1>1. Len(Append(s, x)) = Len(s) + 1 /\ Append(s, x)[Len(s) + 1] = x /\ Len(s) \in Nat
  OBVIOUS
<1>2. \A i \in 1 .. Len(s) : Append(s, x)[i] = s[i]
  OBVIOUS
<1>3. \A i \in 1 .. Len(s) + 1 : i \in 1 .. Len(s) \/ i = Len(s) + 1
  BY <1>1
<1>4. ASSUME Rising(s), \A i \in 1 .. Len(s) : Ordered(s[i], x)
      PROVE  Rising(Append(s, x))
  <2> SUFFICES ASSUME NEW i \in 1 .. Len(s) + 1, NEW j \in 1 .. Len(s) + 1, i < j
               PROVE  Ordered(Append(s, x)[i], Append(s, x)[j])
    BY <1>1 DEF Rising
  <2>1. i \in 1 .. Len(s)
    BY <1>1
  <2> QED
    BY <1>1, <1>2, <1>3, <1>4, <2>1 DEF Rising
<1>5. ASSUME NEW t \in Seq(Frames), Before(s, t), \A j \in 1 .. Len(t) : Ordered(x, t[j])
      PROVE  Before(Append(s, x), t)
  BY <1>1, <1>2, <1>3, <1>5 DEF Before
<1>6. ASSUME NEW t \in Seq(Frames), Before(t, s), \A j \in 1 .. Len(t) : Ordered(t[j], x)
      PROVE  Before(t, Append(s, x))
  BY <1>1, <1>2, <1>3, <1>6 DEF Before
<1> QED
  BY <1>4, <1>5, <1>6

(* A sequence is taken from at its front.                                  *)
LEMMA TailInOrder ==
  ASSUME NEW s \in Seq(Frames), s # <<>>
  PROVE  /\ Tail(s) \in Seq(Frames) /\ Head(s) \in Frames
         /\ Rising(s) => Rising(Tail(s)) /\ \A j \in 1 .. Len(Tail(s)) : Ordered(Head(s), Tail(s)[j])
         /\ \A t \in Seq(Frames) :
              /\ Before(s, t) => Before(Tail(s), t) /\ \A j \in 1 .. Len(t) : Ordered(Head(s), t[j])
              /\ Before(t, s) => Before(t, Tail(s)) /\ \A j \in 1 .. Len(t) : Ordered(t[j], Head(s))
PROOF
<1>1. Tail(s) \in Seq(Frames) /\ Head(s) = s[1] /\ 1 \in 1 .. Len(s) /\ Head(s) \in Frames
      /\ Len(Tail(s)) = Len(s) - 1 /\ Len(s) \in Nat
  OBVIOUS
<1>2. \A i \in 1 .. Len(Tail(s)) : Tail(s)[i] = s[i + 1] /\ i + 1 \in 1 .. Len(s)
  OBVIOUS
<1>3. ASSUME Rising(s)
      PROVE  Rising(Tail(s)) /\ \A j \in 1 .. Len(Tail(s)) : Ordered(Head(s), Tail(s)[j])
  <2>1. \A j \in 1 .. Len(Tail(s)) : 1 < j + 1
    OBVIOUS
  <2>2. \A i, j \in 1 .. Len(Tail(s)) : i < j => i + 1 < j + 1
    OBVIOUS
  <2> QED
    BY <1>1, <1>2, <1>3, <2>1, <2>2 DEF Rising
<1>4. ASSUME NEW t \in Seq(Frames), Before(s, t)
      PROVE  Before(Tail(s), t) /\ \A j \in 1 .. Len(t) : Ordered(Head(s), t[j])
  BY <1>1, <1>2, <1>4 DEF Before
<1>5. ASSUME NEW t \in Seq(Frames), Before(t, s)
      PROVE  Before(t, Tail(s)) /\ \A j \in 1 .. Len(t) : Ordered(t[j], Head(s))
  BY <1>1, <1>2, <1>5 DEF Before
<1> QED
  BY <1>1, <1>3, <1>4, <1>5

(* Nothing is out of order with an empty sequence.                         *)
LEMMA EmptyInOrder ==
  /\ Rising(<<>>) /\ UpToSent(<<>>)
  /\ \A t : Before(<<>>, t) /\ Before(t, <<>>)
BY DEF Rising, Before, UpToSent

(* Sequences in order are in order one after the other.                    *)
LEMMA ConcatInOrder ==
  ASSUME NEW s \in Seq(Frames), NEW t \in Seq(Frames), Rising(s), Rising(t), Before(s, t)
  PROVE  /\ s \o t \in Seq(Frames) /\ Rising(s \o t)
         /\ \A u \in Seq(Frames) : Before(s, u) /\ Before(t, u) => Before(s \o t, u)
PROOF
<1>1. s \o t \in Seq(Frames) /\ Len(s \o t) = Len(s) + Len(t) /\ Len(s) \in Nat /\ Len(t) \in Nat
  OBVIOUS
<1>2. \A i \in 1 .. Len(s) : (s \o t)[i] = s[i]
  OBVIOUS
<1>3. \A i \in 1 .. Len(s) + Len(t) :
        i \notin 1 .. Len(s) => i - Len(s) \in 1 .. Len(t) /\ (s \o t)[i] = t[i - Len(s)]
  OBVIOUS
<1>4. Rising(s \o t)
  <2> SUFFICES ASSUME NEW i \in 1 .. Len(s) + Len(t), NEW j \in 1 .. Len(s) + Len(t), i < j
               PROVE  Ordered((s \o t)[i], (s \o t)[j])
    BY <1>1 DEF Rising
  <2>1. CASE j \in 1 .. Len(s)
    <3>1. i \in 1 .. Len(s)
      BY <2>1
    <3> QED
      BY <1>2, <2>1, <3>1 DEF Rising
  <2>2. CASE j \notin 1 .. Len(s) /\ i \in 1 .. Len(s)
    BY <1>2, <1>3, <2>2 DEF Before
  <2>3. CASE j \notin 1 .. Len(s) /\ i \notin 1 .. Len(s)
    <3>1. i - Len(s) < j - Len(s)
      BY <1>1
    <3> QED
      BY <1>3, <2>3, <3>1 DEF Rising
  <2> QED
    BY <2>1, <2>2, <2>3
<1>5. ASSUME NEW u \in Seq(Frames), Before(s, u), Before(t, u)
      PROVE  Before(s \o t, u)
  BY <1>1, <1>2, <1>3, <1>5 DEF Before
<1> QED
  BY <1>1, <1>4, <1>5

(* Only messages have an order, and they are numbered.                     *)
LEMMA FrameKinds ==
  /\ \A m \in Messages : m.kind = "message" /\ m.n \in Int
  /\ \A f \in Frames : f.kind = "message" => f \in Messages
  /\ Garbled.kind # "message" /\ Partial.kind # "message"
  /\ Seq(Messages) \subseteq Seq(Frames)
PROOF
<1>1. \A m \in Messages : m.kind = "message" /\ m.n \in Int
  <2> SUFFICES ASSUME NEW m \in Messages PROVE m.kind = "message" /\ m.n \in Int
    OBVIOUS
  <2>1. PICK n \in 1 .. MaxMsgs, node \in Nodes : m = Message(n, node)
    BY DEF Messages
  <2> QED
    BY <2>1, ClientStreamAssumption DEF Message
<1>2. Garbled.kind # "message" /\ Partial.kind # "message"
  BY DEF Garbled, Partial
<1>3. \A f \in Frames : f.kind = "message" => f \in Messages
  BY <1>2 DEF Frames
<1>4. Seq(Messages) \subseteq Seq(Frames)
  <2>1. Messages \subseteq Frames
    BY DEF Frames
  <2> SUFFICES ASSUME NEW s \in Seq(Messages) PROVE s \in Seq(Frames)
    OBVIOUS
  <2>2. Len(s) \in Nat /\ s \in [1 .. Len(s) -> Messages]
    OBVIOUS
  <2>3. s \in [1 .. Len(s) -> Frames]
    BY <2>1, <2>2
  <2> QED
    BY <2>2, <2>3
<1> QED
  BY <1>1, <1>2, <1>3, <1>4

OrderInv ==
  /\ heard \in Seq(Messages) /\ held \in Seq(Messages) /\ Len(held) <= 1
  /\ Rising(heard) /\ Rising(held) /\ Rising(messageCache) /\ Rising(wire)
  /\ Before(heard, held) /\ Before(heard, messageCache) /\ Before(heard, wire)
  /\ Before(held, messageCache) /\ Before(held, wire) /\ Before(messageCache, wire)
  /\ UpToSent(heard) /\ UpToSent(held) /\ UpToSent(messageCache) /\ UpToSent(wire)

(* The sequences of the order are sequences of frames.                     *)
LEMMA OrderTypes ==
  ASSUME IInv, OrderInv
  PROVE  heard \in Seq(Frames) /\ held \in Seq(Frames) /\ messageCache \in Seq(Frames) /\ wire \in Seq(Frames)
BY FrameKinds DEF IInv, Types, Wire, OrderInv, Frames

(* A wire whose messages are where they were is in order as it was.        *)
LEMMA CutInOrder ==
  ASSUME OrderInv, wire \in Seq(Frames), wire' \in Seq(Frames),
         \A i \in 1 .. Len(wire') : wire'[i].kind = "message" => i \in 1 .. Len(wire) /\ wire'[i] = wire[i],
         UNCHANGED <<heard, held, messageCache, sent>>
  PROVE  OrderInv'
PROOF
<1>1. Rising(wire')
  BY DEF OrderInv, Rising, Ordered
<1>2. UpToSent(wire)'
  BY DEF OrderInv, UpToSent
<1>3. \A s : Before(s, wire) => Before(s, wire')
  BY DEF Before, Ordered
<1>4. UpToSent(heard)' /\ UpToSent(held)' /\ UpToSent(messageCache)'
  BY DEF OrderInv, UpToSent
<1> QED
  BY <1>1, <1>2, <1>3, <1>4 DEF OrderInv

(* A frame that is sent comes after all that was sent.                     *)
LEMMA SendInOrder ==
  ASSUME IInv, OrderInv, PeerSends
  PROVE  OrderInv'
PROOF
<1>1. heard \in Seq(Frames) /\ held \in Seq(Frames) /\ messageCache \in Seq(Frames) /\ wire \in Seq(Frames)
  BY OrderTypes
<1>2. PICK f \in {Message(sent + 1, n) : n \in Nodes} \union {Garbled} : wire' = Append(wire, f)
  BY DEF PeerSends
<1>3. UNCHANGED <<heard, held, messageCache>> /\ sent' = sent + 1 /\ sent \in Nat /\ sent < MaxMsgs
  BY ClientStreamAssumption DEF PeerSends, readerVars, cacheVars, IInv, Wire
<1>4. f.kind = "message" => f.n = sent + 1
  BY <1>2, FrameKinds DEF Message
<1>5. f \in Frames
  <2>1. sent + 1 \in 1 .. MaxMsgs
    BY <1>3, ClientStreamAssumption
  <2> QED
    BY <1>2, <2>1 DEF Frames, Messages
<1>6. ASSUME NEW s \in Seq(Frames), UpToSent(s)
      PROVE  /\ \A i \in 1 .. Len(s) : Ordered(s[i], f)
             /\ \A i \in 1 .. Len(s) : s[i].kind = "message" => s[i].n <= sent + 1
  <2> SUFFICES ASSUME NEW i \in 1 .. Len(s), s[i].kind = "message"
               PROVE  s[i].n <= sent + 1 /\ Ordered(s[i], f)
    BY DEF Ordered
  <2>1. s[i].n \in Int /\ s[i].n <= sent
    BY <1>6, FrameKinds DEF UpToSent
  <2> QED
    BY <1>3, <1>4, <2>1 DEF Ordered
<1>7. Rising(wire') /\ \A t \in Seq(Frames) :
        Before(t, wire) /\ (\A j \in 1 .. Len(t) : Ordered(t[j], f)) => Before(t, wire')
  BY <1>1, <1>2, <1>5, <1>6, AppendInOrder DEF OrderInv
<1>8. Before(heard, wire') /\ Before(held, wire') /\ Before(messageCache, wire')
  BY <1>1, <1>6, <1>7 DEF OrderInv
<1>9. UpToSent(heard)' /\ UpToSent(held)' /\ UpToSent(messageCache)'
  BY <1>1, <1>3, <1>6 DEF OrderInv, UpToSent
<1>10. UpToSent(wire)'
  <2>1. Len(wire') = Len(wire) + 1 /\ wire'[Len(wire) + 1] = f /\ Len(wire) \in Nat
        /\ \A i \in 1 .. Len(wire) : wire'[i] = wire[i]
    BY <1>1, <1>2, <1>5
  <2>2. \A i \in 1 .. Len(wire) : wire[i].kind = "message" => wire[i].n <= sent + 1
    BY <1>1, <1>6 DEF OrderInv
  <2>3. \A i \in 1 .. Len(wire) + 1 : i \in 1 .. Len(wire) \/ i = Len(wire) + 1
    BY <2>1
  <2> QED
    BY <1>3, <1>4, <2>1, <2>2, <2>3 DEF UpToSent
<1> QED
  BY <1>3, <1>7, <1>8, <1>9, <1>10 DEF OrderInv

(* Messages are read in the order of the wire.                             *)
LEMMA ReadInOrder ==
  ASSUME IInv, OrderInv, handle_read_header
  PROVE  OrderInv'
PROOF
<1> DEFINE f == Head(wire)
<1>1. heard \in Seq(Frames) /\ held \in Seq(Frames) /\ messageCache \in Seq(Frames) /\ wire \in Seq(Frames)
  BY OrderTypes
<1>2. UNCHANGED <<heard, held, sent>> /\ wire # <<>> /\ wire' = Tail(wire) /\ handlers = 1
  BY DEF handle_read_header, readerVars, IInv, OneHandler
<1>3. /\ Tail(wire) \in Seq(Frames) /\ f \in Frames
      /\ Rising(Tail(wire)) /\ \A j \in 1 .. Len(Tail(wire)) : Ordered(f, Tail(wire)[j])
  BY <1>1, <1>2, TailInOrder DEF OrderInv
<1>4. \A t \in Seq(Frames) : Before(t, wire) =>
        Before(t, Tail(wire)) /\ \A j \in 1 .. Len(t) : Ordered(t[j], f)
  BY <1>1, <1>2, TailInOrder
<1>5. UpToSent(Tail(wire)) /\ (f.kind = "message" => f.n <= sent)
  <2>1. Len(Tail(wire)) = Len(wire) - 1 /\ f = wire[1] /\ 1 \in 1 .. Len(wire)
        /\ \A i \in 1 .. Len(Tail(wire)) : Tail(wire)[i] = wire[i + 1] /\ i + 1 \in 1 .. Len(wire)
    BY <1>1, <1>2
  <2> QED
    BY <2>1 DEF OrderInv, UpToSent
<1>6. UpToSent(heard)' /\ UpToSent(held)' /\ UpToSent(wire)'
  BY <1>2, <1>5 DEF OrderInv, UpToSent
<1>7. CASE f.kind = "message" /\ handleMessageArrive([i \in 1 .. handlers |-> f])
  <2>1. f \in Messages
    BY <1>3, <1>7, FrameKinds
  <2>2. messageCache' = Append(messageCache, f)
    BY <1>2, <1>7, <2>1, ArriveReady DEF IInv, Types
  <2>3. Rising(messageCache') /\ Before(heard, messageCache') /\ Before(held, messageCache')
    BY <1>1, <1>3, <1>4, <2>2, AppendInOrder DEF OrderInv
  <2>4. Before(messageCache', Tail(wire))
    BY <1>1, <1>3, <1>4, <2>2, AppendInOrder DEF OrderInv
  <2>5. UpToSent(messageCache)'
    <3>1. Len(messageCache') = Len(messageCache) + 1 /\ messageCache'[Len(messageCache) + 1] = f
          /\ Len(messageCache) \in Nat /\ \A i \in 1 .. Len(messageCache) : messageCache'[i] = messageCache[i]
      BY <1>1, <1>3, <2>2
    <3>2. \A i \in 1 .. Len(messageCache) + 1 : i \in 1 .. Len(messageCache) \/ i = Len(messageCache) + 1
      BY <3>1
    <3> QED
      BY <1>2, <1>5, <3>1, <3>2 DEF OrderInv, UpToSent
  <2> QED
    BY <1>1, <1>2, <1>3, <1>4, <1>6, <2>3, <2>4, <2>5 DEF OrderInv
<1>8. CASE UNCHANGED messageCache
  <2>1. UpToSent(messageCache)'
    BY <1>2, <1>8 DEF OrderInv, UpToSent
  <2> QED
    BY <1>1, <1>2, <1>3, <1>4, <1>6, <1>8, <2>1 DEF OrderInv
<1> QED
  BY <1>7, <1>8 DEF handle_read_header, cacheVars

(* The reader takes messages in the order of the cache, and hands them on. *)
LEMMA ReaderInOrder ==
  ASSUME IInv, OrderInv, Reader \/ clearMessageCache
  PROVE  OrderInv'
PROOF
<1>1. heard \in Seq(Frames) /\ held \in Seq(Frames) /\ messageCache \in Seq(Frames) /\ wire \in Seq(Frames)
  BY OrderTypes
<1>2. UNCHANGED <<wire, sent>>
  BY DEF Reader, getNextMessage, Dispatch, clearMessageCache, peerVars
<1>3. CASE getNextMessage
  <2> DEFINE m == Head(messageCache)
  <2>1. messageCache # <<>> /\ messageCache' = Tail(messageCache) /\ held = <<>> /\ held' = <<m>>
        /\ heard' = heard
    BY <1>3 DEF getNextMessage, IInv, ReadyMeansNotEmpty
  <2>2. m \in Messages /\ m \in Frames /\ <<m>> \in Seq(Messages) /\ <<m>> \in Seq(Frames)
        /\ Len(<<m>>) = 1 /\ <<m>>[1] = m
    BY <2>1 DEF IInv, Types, Frames
  <2>3. /\ Tail(messageCache) \in Seq(Frames) /\ Rising(Tail(messageCache))
        /\ \A j \in 1 .. Len(Tail(messageCache)) : Ordered(m, Tail(messageCache)[j])
    BY <1>1, <2>1, TailInOrder DEF OrderInv
  <2>4. /\ Before(Tail(messageCache), wire) /\ (\A j \in 1 .. Len(wire) : Ordered(m, wire[j]))
        /\ Before(heard, Tail(messageCache)) /\ (\A j \in 1 .. Len(heard) : Ordered(heard[j], m))
    BY <1>1, <2>1, TailInOrder DEF OrderInv
  <2>5. Rising(<<m>>) /\ Before(heard, <<m>>) /\ Before(<<m>>, Tail(messageCache)) /\ Before(<<m>>, wire)
    BY <2>2, <2>3, <2>4 DEF Rising, Before
  <2>6. UpToSent(messageCache)' /\ UpToSent(held)' /\ UpToSent(heard)' /\ UpToSent(wire)'
    <3>1. Len(Tail(messageCache)) = Len(messageCache) - 1 /\ m = messageCache[1] /\ 1 \in 1 .. Len(messageCache)
          /\ \A i \in 1 .. Len(Tail(messageCache)) :
               Tail(messageCache)[i] = messageCache[i + 1] /\ i + 1 \in 1 .. Len(messageCache)
      BY <1>1, <2>1
    <3> QED
      BY <1>2, <2>1, <2>2, <3>1 DEF OrderInv, UpToSent
  <2> QED
    BY <1>2, <2>1, <2>2, <2>3, <2>4, <2>5, <2>6 DEF OrderInv
<1>4. CASE Dispatch
  <2> DEFINE m == held[1]
  <2>1. held # <<>> /\ held' = <<>> /\ messageCache' = messageCache
        /\ (heard' = Append(heard, m) \/ heard' = heard)
    BY <1>4 DEF Dispatch, cacheVars
  <2>2. 1 \in 1 .. Len(held) /\ m \in Messages /\ m \in Frames
    BY <2>1 DEF OrderInv, Frames
  <2>3. /\ \A i \in 1 .. Len(heard) : Ordered(heard[i], m)
        /\ \A i \in 1 .. Len(messageCache) : Ordered(m, messageCache[i])
        /\ \A i \in 1 .. Len(wire) : Ordered(m, wire[i])
    BY <2>2 DEF OrderInv, Before
  <2>4. heard' \in Seq(Messages)
    BY <2>1, <2>2 DEF OrderInv
  <2>5. Rising(heard') /\ Before(heard', messageCache) /\ Before(heard', wire)
    <3>1. CASE heard' = heard
      BY <3>1 DEF OrderInv
    <3>2. CASE heard' = Append(heard, m)
      BY <1>1, <2>2, <2>3, <3>2, AppendInOrder DEF OrderInv
    <3> QED
      BY <2>1, <3>1, <3>2
  <2>6. UpToSent(messageCache)' /\ UpToSent(wire)'
    BY <1>2, <2>1 DEF OrderInv, UpToSent
  <2>7. UpToSent(heard)'
    <3>1. CASE heard' = heard
      BY <1>2, <3>1 DEF OrderInv, UpToSent
    <3>2. CASE heard' = Append(heard, m)
      <4>1. Len(heard') = Len(heard) + 1 /\ heard'[Len(heard) + 1] = m /\ Len(heard) \in Nat
            /\ \A i \in 1 .. Len(heard) : heard'[i] = heard[i]
        BY <1>1, <2>2, <3>2
      <4>2. \A i \in 1 .. Len(heard) + 1 : i \in 1 .. Len(heard) \/ i = Len(heard) + 1
        BY <4>1
      <4> QED
        BY <1>2, <2>2, <4>1, <4>2 DEF OrderInv, UpToSent
    <3> QED
      BY <2>1, <3>1, <3>2
  <2>8. held' \in Seq(Messages) /\ Len(held') <= 1
    BY <2>1
  <2>9. Rising(held') /\ UpToSent(held)' /\ Before(heard', held') /\ Before(held', messageCache) /\ Before(held', wire)
    BY <2>1, EmptyInOrder DEF UpToSent
  <2> QED
    BY <1>2, <2>1, <2>4, <2>5, <2>6, <2>7, <2>8, <2>9 DEF OrderInv
<1>5. CASE clearMessageCache
  <2>1. messageCache' = <<>> /\ UNCHANGED <<heard, held>>
    BY <1>5 DEF clearMessageCache, readerVars
  <2>2. /\ Rising(messageCache') /\ Before(heard, messageCache') /\ Before(held, messageCache')
        /\ Before(messageCache', wire)
    BY <2>1, EmptyInOrder
  <2>3. UpToSent(heard)' /\ UpToSent(held)' /\ UpToSent(wire)' /\ UpToSent(messageCache)'
    BY <1>2, <2>1 DEF OrderInv, UpToSent
  <2> QED
    BY <1>2, <2>1, <2>2, <2>3 DEF OrderInv
<1> QED
  BY <1>3, <1>4, <1>5 DEF Reader

(* What watcherd sent stays in order whatever is done about the socket.    *)
LEMMA SocketInOrder ==
  ASSUME IInv, OrderInv,
         \/ PeerStops \/ PeerStarts \/ App \/ EndOfStream \/ Failure \/ Disconnected
         \/ UNCHANGED vars,
         wire' \in Seq(Frames)
  PROVE  OrderInv'
PROOF
<1>1. wire \in Seq(Frames)
  BY OrderTypes
<1>2. UNCHANGED <<heard, held, messageCache, sent>>
  BY DEF PeerStops, PeerStarts, App, tryConnect, run, Connected, sendMessages, newReactor, Register, Watch,
         EndOfStream, Failure, Disconnected, DoClose, Close, vars, peerVars, cacheVars, readerVars
<1>3. CASE wire' = wire
  BY <1>1, <1>2, <1>3, CutInOrder
<1>4. CASE wire' = <<>>
  BY <1>1, <1>2, <1>4, CutInOrder
<1>5. CASE PeerStops
  <2>1. PICK k \in 0 .. Len(wire), part \in {<<>>, <<Partial>>} : wire' = SubSeq(wire, 1, k) \o part
    BY <1>5 DEF PeerStops
  <2> DEFINE kept == SubSeq(wire, 1, k)
  <2>2. kept \in Seq(Frames) /\ Len(kept) = k /\ k <= Len(wire) /\ \A i \in 1 .. k : kept[i] = wire[i]
    BY <1>1
  <2> HIDE DEF kept
  <2>3. CASE part = <<>>
    <3>1. wire' = kept
      BY <2>1, <2>2, <2>3 DEF kept
    <3> QED
      BY <1>1, <1>2, <2>2, <3>1, CutInOrder
  <2>4. CASE part = <<Partial>>
    <3>1. Len(wire') = k + 1 /\ wire'[k + 1] = Partial /\ \A i \in 1 .. k : wire'[i] = kept[i]
      BY <2>1, <2>2, <2>4 DEF kept
    <3>2. \A i \in 1 .. k + 1 : i \in 1 .. k \/ i = k + 1
      OBVIOUS
    <3>3. \A i \in 1 .. k : i \in 1 .. Len(wire)
      BY <1>1, <2>2
    <3> QED
      BY <1>1, <1>2, <2>2, <3>1, <3>2, <3>3, CutInOrder, FrameKinds
  <2> QED
    BY <2>1, <2>3, <2>4
<1>6. \/ wire' = wire \/ wire' = <<>> \/ PeerStops
  BY DEF PeerStarts, App, tryConnect, run, Connected, sendMessages, newReactor, Register, Watch,
         EndOfStream, Failure, Disconnected, DoClose, Close, vars, peerVars
<1> QED
  BY <1>3, <1>4, <1>5, <1>6

(* Every step keeps the order.                                             *)
LEMMA NextInOrder == IInv /\ OrderInv /\ [Next]_vars => OrderInv'
PROOF
<1> SUFFICES ASSUME IInv, OrderInv, [Next]_vars PROVE OrderInv'
  OBVIOUS
<1>1. wire' \in Seq(Frames)
  BY NextInv DEF IInv, Wire, Frames
<1> QED
  BY <1>1, SendInOrder, ReadInOrder, ReaderInOrder, SocketInOrder DEF Next, IO

(* There is nothing out of order at the start.                             *)
LEMMA InitInOrder == Init => OrderInv
PROOF
<1> SUFFICES ASSUME Init PROVE OrderInv
  OBVIOUS
<1>1. heard = <<>> /\ held = <<>> /\ messageCache = <<>> /\ wire = <<>>
  BY DEF Init
<1>2. <<>> \in Seq(Messages) /\ Len(<<>>) = 0
  OBVIOUS
<1> QED
  BY <1>1, <1>2, EmptyInOrder DEF OrderInv

(* What is given to the callbacks comes in the order watcherd sent it, and *)
(* once, whatever is lost with a connection, dropped by the slider or read *)
(* from several sockets one after the other (handle_read_header,           *)
(* handleMessageArrive, getNextMessage, getMessageLoop).                   *)
THEOREM CallbacksInOrder == Spec => []HeardInOrder
PROOF
<1>1. IInv /\ OrderInv => HeardInOrder
  <2> SUFFICES ASSUME IInv, OrderInv PROVE HeardInOrder
    OBVIOUS
  <2> DEFINE all == heard \o held \o messageCache
  <2>1. heard \in Seq(Frames) /\ held \in Seq(Frames) /\ messageCache \in Seq(Frames)
    BY OrderTypes
  <2>2. heard \o held \in Seq(Frames) /\ Rising(heard \o held) /\ Before(heard \o held, messageCache)
    BY <2>1, ConcatInOrder DEF OrderInv
  <2>3. Rising(all)
    BY <2>1, <2>2, ConcatInOrder DEF OrderInv
  <2>4. all \in Seq(Messages)
    BY DEF IInv, Types, OrderInv
  <2> HIDE DEF all
  <2>5. \A i \in 1 .. Len(all) : all[i].kind = "message"
    BY <2>4, FrameKinds
  <2>6. \A i, j \in 1 .. Len(all) : i < j => all[i].n < all[j].n
    BY <2>3, <2>5 DEF Rising, Ordered
  <2> QED
    BY <2>6 DEF HeardInOrder, all
<1> QED
  BY <1>1, Invariance, InitInOrder, NextInOrder, PTL DEF Spec

-----------------------------------------------------------------------------
(***************************************************************************)
(* The nodes.  A reactor notes each node it hears from, whether anybody is *)
(* registered or not, and announces it then or never.  A client that has   *)
(* registered before it connects keeps its reactor, and misses none.       *)
(***************************************************************************)
NodesOf(q)  == {q[i].node : i \in 1 .. Len(q)}
AnnouncedTo == {announced[i] : i \in 1 .. Len(announced)}

AnnounceInv ==
  /\ announced \in Seq(Nodes)
  /\ \A i, j \in 1 .. Len(announced) : announced[i] = announced[j] => i = j
  /\ AnnouncedTo \subseteq seenNodes
  /\ early => /\ at \in {"connect", "send", "watch"} /\ registered
              /\ seenNodes = NodesOf(heard) /\ AnnouncedTo = seenNodes

(* The last of a sequence is one more.                                     *)
LEMMA OneMore ==
  ASSUME NEW S, NEW q \in Seq(S), NEW m \in S
  PROVE  /\ Len(q) \in Nat /\ Len(Append(q, m)) = Len(q) + 1 /\ Append(q, m)[Len(q) + 1] = m
         /\ \A i \in 1 .. Len(q) : Append(q, m)[i] = q[i] /\ i \in 1 .. Len(q) + 1
         /\ \A i \in 1 .. Len(q) + 1 : i \in 1 .. Len(q) \/ i = Len(q) + 1
         /\ Len(q) + 1 \in 1 .. Len(q) + 1
OBVIOUS

(* A message is given to the callbacks.                                    *)
LEMMA DispatchAnnounces ==
  ASSUME OrderInv, AnnounceInv, Dispatch
  PROVE  AnnounceInv'
PROOF
<1> DEFINE m == held[1]
<1>1. m \in Messages /\ heard \in Seq(Messages) /\ m.node \in Nodes
  <2>1. 1 \in 1 .. Len(held) /\ heard \in Seq(Messages) /\ held \in Seq(Messages)
    BY DEF Dispatch, OrderInv
  <2>2. m \in Messages
    BY <2>1
  <2>3. \A f \in Messages : f.node \in Nodes
    BY DEF Messages, Message
  <2> QED
    BY <2>1, <2>2, <2>3
<1>2. /\ seenNodes' = seenNodes \union {m.node}
      /\ heard' = IF registered THEN Append(heard, m) ELSE heard
      /\ announced' = IF registered /\ m.node \notin seenNodes THEN Append(announced, m.node) ELSE announced
      /\ UNCHANGED <<registered, early, at>>
  BY DEF Dispatch, appVars
<1> HIDE DEF m
<1> DEFINE n == m.node
           a == Append(announced, n)
<1>3. /\ announced \in Seq(Nodes) /\ AnnouncedTo \subseteq seenNodes
      /\ \A i, j \in 1 .. Len(announced) : announced[i] = announced[j] => i = j
  BY DEF AnnounceInv
<1>4. /\ Len(announced) \in Nat /\ Len(a) = Len(announced) + 1 /\ a[Len(announced) + 1] = n
      /\ \A i \in 1 .. Len(announced) : a[i] = announced[i] /\ i \in 1 .. Len(announced) + 1
      /\ \A i \in 1 .. Len(announced) + 1 : i \in 1 .. Len(announced) \/ i = Len(announced) + 1
      /\ Len(announced) + 1 \in 1 .. Len(announced) + 1
      /\ a \in Seq(Nodes)
  BY <1>1, <1>3, OneMore
<1> HIDE DEF a, n
<1>5. {a[i] : i \in 1 .. Len(a)} = AnnouncedTo \union {n}
  BY <1>4 DEF AnnouncedTo
<1>6. n \notin seenNodes => \A i, j \in 1 .. Len(a) : a[i] = a[j] => i = j
  <2> SUFFICES ASSUME n \notin seenNodes, NEW i \in 1 .. Len(a), NEW j \in 1 .. Len(a), a[i] = a[j]
               PROVE  i = j
    OBVIOUS
  <2>1. \A k \in 1 .. Len(announced) : a[k] # n
    BY <1>3, <1>4 DEF AnnouncedTo
  <2>2. CASE i \in 1 .. Len(announced) /\ j \in 1 .. Len(announced)
    BY <1>3, <1>4, <2>2
  <2>3. CASE i = Len(announced) + 1 \/ j = Len(announced) + 1
    BY <1>4, <2>1, <2>3
  <2> QED
    BY <1>4, <2>2, <2>3
<1>7. CASE registered /\ n \notin seenNodes
  <2>1. announced' = a
    BY <1>2, <1>7 DEF a, n
  <2>2. AnnouncedTo' = AnnouncedTo \union {n}
    BY <1>5, <2>1 DEF AnnouncedTo
  <2>3. announced' \in Seq(Nodes) /\ (\A i, j \in 1 .. Len(announced') : announced'[i] = announced'[j] => i = j)
        /\ AnnouncedTo' \subseteq seenNodes'
    BY <1>2, <1>3, <1>4, <1>6, <1>7, <2>1, <2>2 DEF n
  <2>4. early => NodesOf(heard)' = NodesOf(heard) \union {n}
    <3>1. heard' = Append(heard, m)
      BY <1>2, <1>7
    <3> QED
      BY <1>1, <3>1, OneMore DEF NodesOf, n
  <2> QED
    BY <1>2, <2>2, <2>3, <2>4 DEF AnnounceInv, n
<1>8. CASE ~ (registered /\ n \notin seenNodes)
  <2>1. announced' = announced
    BY <1>2, <1>8 DEF n
  <2>2. AnnouncedTo' = AnnouncedTo
    BY <2>1 DEF AnnouncedTo
  <2>3. early => NodesOf(heard)' = NodesOf(heard) \union {n} /\ n \in seenNodes
    <3> SUFFICES ASSUME early PROVE NodesOf(heard)' = NodesOf(heard) \union {n} /\ n \in seenNodes
      OBVIOUS
    <3>1. heard' = Append(heard, m) /\ n \in seenNodes
      BY <1>2, <1>8 DEF AnnounceInv
    <3> QED
      BY <1>1, <3>1, OneMore DEF NodesOf, n
  <2>4. seenNodes' = seenNodes \union {n}
    BY <1>2 DEF n
  <2> QED
    BY <1>2, <1>3, <2>1, <2>2, <2>3, <2>4 DEF AnnounceInv
<1> QED
  BY <1>7, <1>8

(* A new reactor has seen no node; it is made by late clients only.        *)
LEMMA ReactorAnnounces ==
  ASSUME AnnounceInv, newReactor \/ Register
  PROVE  AnnounceInv'
PROOF
<1>1. ~ early /\ early' = early
  BY DEF AnnounceInv, newReactor, Register, Goto
<1>2. CASE newReactor
  <2>1. announced' = <<>>
    BY <1>2 DEF newReactor
  <2>2. <<>> \in Seq(Nodes) /\ Len(<<>>) = 0 /\ 1 .. 0 = {}
    OBVIOUS
  <2>3. AnnouncedTo' = {} /\ announced' \in Seq(Nodes)
        /\ \A i, j \in 1 .. Len(announced') : announced'[i] = announced'[j] => i = j
    BY <2>1, <2>2 DEF AnnouncedTo
  <2> QED
    BY <1>1, <2>3 DEF AnnounceInv
<1>3. CASE Register
  <2>1. UNCHANGED <<announced, seenNodes>>
    BY <1>3 DEF Register
  <2> QED
    BY <1>1, <2>1 DEF AnnounceInv, AnnouncedTo
<1> QED
  BY <1>2, <1>3

(* The other steps announce nothing.                                       *)
LEMMA OthersAnnounceNothing ==
  ASSUME AnnounceInv,
         \/ PeerSends \/ PeerStops \/ PeerStarts \/ IO \/ getNextMessage \/ clearMessageCache
         \/ tryConnect \/ run \/ Connected \/ sendMessages \/ Watch \/ UNCHANGED vars
  PROVE  AnnounceInv'
PROOF
<1>1. UNCHANGED <<announced, seenNodes, heard, registered, early>>
  BY DEF PeerSends, PeerStops, PeerStarts, IO, handle_read_header, EndOfStream, Failure, Disconnected, DoClose,
         getNextMessage, clearMessageCache, tryConnect, run, Connected, sendMessages, Watch, Goto,
         vars, appVars, readerVars
<1>2. \/ UNCHANGED at
      \/ at' \in {"connect", "send", "watch"}
      \/ at' = "reactor" /\ ~ early
  BY DEF PeerSends, PeerStops, PeerStarts, IO, handle_read_header, EndOfStream, Failure, Disconnected, DoClose,
         getNextMessage, clearMessageCache, tryConnect, run, Connected, sendMessages, Watch, Goto,
         vars, appVars
<1> QED
  BY <1>1, <1>2 DEF AnnounceInv, AnnouncedTo, NodesOf

(* A client is told of a node at most once by one reactor, and of each     *)
(* node it hears from when its callbacks were registered before it         *)
(* connected (connectStream, getMessageLoop).                              *)
THEOREM NodesAreAnnounced == Spec => []NodesAnnouncedOnce
PROOF
<1>1. Init => AnnounceInv
  <2> SUFFICES ASSUME Init PROVE AnnounceInv
    OBVIOUS
  <2>1. announced = <<>> /\ heard = <<>> /\ seenNodes = {} /\ at = "connect" /\ registered = early
    BY DEF Init
  <2>2. <<>> \in Seq(Nodes) /\ Len(<<>>) = 0 /\ 1 .. 0 = {}
    OBVIOUS
  <2> QED
    BY <2>1, <2>2 DEF AnnounceInv, AnnouncedTo, NodesOf
<1>2. OrderInv /\ AnnounceInv /\ [Next]_vars => AnnounceInv'
  BY DispatchAnnounces, ReactorAnnounces, OthersAnnounceNothing DEF Next, App, Reader
<1>3. AnnounceInv => NodesAnnouncedOnce
  BY DEF AnnounceInv, NodesAnnouncedOnce, AnnouncedTo, NodesOf
<1> QED
  BY <1>1, <1>2, <1>3, Invariance, InitInOrder, NextInOrder, PTL DEF Spec
=============================================================================
