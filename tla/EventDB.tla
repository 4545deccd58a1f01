------------------------------ MODULE EventDB ------------------------------
(***************************************************************************)
(* The events table of watcherd and the two queries that are made of it    *)
(* (src/src/watcherd/sqliteDatabase.cpp behind the interface of            *)
(* database.h).                                                            *)
(*                                                                         *)
(* The table is a set of rows.  A row keeps the message's timestamp and an *)
(* opaque message; two messages may carry the same millisecond.  A query's *)
(* result is the set of rows it passes to its output callback: the rows    *)
(* come in the order of their timestamps, so the set together with the     *)
(* direction determines the order up to rows of one millisecond, which no  *)
(* caller tells apart.                                                     *)
(***************************************************************************)
EXTENDS Integers, FiniteSets

CONSTANTS
  Msgs,     \* what distinguishes messages of the same millisecond
  Times,    \* the timestamps messages carry, in milliseconds
  MaxTime,  \* the largest value of a Timestamp
  MaxRows   \* a bound on the size of the table, for model checking

ASSUME EventDBAssumption ==
  /\ MaxTime \in Nat
  /\ Times \subseteq 1 .. MaxTime
  /\ MaxRows \in Nat

VARIABLE db

Row == [msg : Msgs, ts : Times]

(***************************************************************************)
(* Playback order.  The direction of a query is given by the sign of the   *)
(* playback speed f: forward when f >= 0, reverse otherwise.               *)
(***************************************************************************)
Before(t, u, f) == IF f >= 0 THEN t < u ELSE u < t

Stamps(rows) == {r.ts : r \in rows}

\* The timestamp of the first row of a nonempty result, and of the last one.
FirstTs(rows, f) == CHOOSE t \in Stamps(rows) : \A u \in Stamps(rows) : ~ Before(u, t, f)
LastTs(rows, f) == CHOOSE t \in Stamps(rows) : \A u \in Stamps(rows) : ~ Before(t, u, f)

(***************************************************************************)
(* SELECT data FROM events WHERE ts > t (or ts < t) ORDER BY ts ASC (DESC) *)
(***************************************************************************)
Select(rows, t, f) == {r \in rows : Before(t, r.ts, f)}

\* Mutants of getEvents: the LIMIT clause that version 0.6.4.2 removed, and a
\* break that comes one row late.
getEvents_LIMIT(rows, t, f, count) ==
  LET S == Select(rows, t, f) IN
  CHOOSE P \in SUBSET S :
    /\ Cardinality(P) = IF Cardinality(S) < count THEN Cardinality(S) ELSE count
    /\ \A p \in P, q \in S \ P : ~ Before(q.ts, p.ts, f)

getEvents_late(rows, t, f, count) ==
  LET S == Select(rows, t, f) IN
  IF f >= 0 THEN {r \in S : Cardinality({q \in S : q.ts < r.ts}) <= count}
            ELSE {r \in S : count > 0}

(***************************************************************************)
(* The rows getEvents passes on.  The loop stops at the first row whose    *)
(* timestamp is greater than the one before it once count rows were read:  *)
(* forward, a row is passed on iff fewer than count rows have a smaller    *)
(* timestamp; in reverse the timestamps never grow, and nothing stops it   *)
(* (except a count of 0, at the first row).                                *)
(***************************************************************************)
getEvents(rows, t, f, count) ==
  LET S == Select(rows, t, f) IN
  IF f >= 0 THEN {r \in S : Cardinality({q \in S : q.ts < r.ts}) < count}
            ELSE {r \in S : count > 0}

\* Mutant of eventRange: nothing is initialised for an empty table.
eventRange_unset(rows) ==
  IF rows = {} THEN [first |-> -1, last |-> -1]
               ELSE [first |-> FirstTs(rows, 1), last |-> LastTs(rows, 1)]

\* The timestamps of the first and the last row; 0 and 0 in an empty table.
eventRange(rows) ==
  IF rows = {} THEN [first |-> 0, last |-> 0]
               ELSE [first |-> FirstTs(rows, 1), last |-> LastTs(rows, 1)]

-----------------------------------------------------------------------------
EventDBInit == db = {}

storeEvent(r) ==
  /\ Cardinality(db) < MaxRows
  /\ r \notin db
  /\ db' = db \union {r}

EventDBNext == \E r \in Row : storeEvent(r)

EventDBSpec == EventDBInit /\ [][EventDBNext]_db
=============================================================================
