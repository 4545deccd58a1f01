-------------------------- MODULE EventDBReference --------------------------
(***************************************************************************)
(* The loop of SqliteDatabase::getEvents statement by statement, over the  *)
(* rows in an order the SELECT may return them in, as the reference that   *)
(* the characterisation in EventDB is checked against.                     *)
(***************************************************************************)
EXTENDS EventDB, Sequences, SequencesExt

\* The orders a SELECT ... ORDER BY ts may return the rows S in: the order of
\* rows with equal timestamps is the index's, and left open here.
Orders(S, f) ==
  {q \in [1 .. Cardinality(S) -> S] :
     /\ IsInjective(q)
     /\ \A i, j \in DOMAIN q : i < j => ~ Before(q[j].ts, q[i].ts, f)}

(***************************************************************************)
(* One iteration on row r: `n` is nevents, `last` is last_event, `out` the *)
(* rows passed to the callback and `done` is TRUE after the break.         *)
(***************************************************************************)
LoopStart == [n |-> 0, last |-> 0, out |-> <<>>, done |-> FALSE]

LoopBody(s, r, count) ==
  IF s.done \/ (r.ts > s.last /\ s.n >= count)
    THEN [s EXCEPT !.done = TRUE]
    ELSE [n |-> s.n + 1, last |-> r.ts, out |-> Append(s.out, r), done |-> FALSE]

\* What is known after each number of iterations.
LoopStates(q, count) ==
  LET after[i \in 0 .. Len(q)] == IF i = 0 THEN LoopStart ELSE LoopBody(after[i - 1], q[i], count)
  IN after

GetEventsLoop(q, count) == LoopStates(q, count)[Len(q)].out

-----------------------------------------------------------------------------
CONSTANTS Counts, QueryTimes

ASSUME ReferenceAssumption == Counts \subseteq Nat /\ QueryTimes \subseteq 0 .. MaxTime

\* A forward and a reverse query are told apart by the sign of the speed.
Directions == {1, -1}

(***************************************************************************)
(* getEvents is what the loop computes, whatever order the rows of one     *)
(* millisecond come in: the set of rows, and nothing else, is observable.  *)
(***************************************************************************)
LoopAgrees ==
  \A t \in QueryTimes, f \in Directions, n \in Counts :
    \A q \in Orders(Select(db, t, f), f) :
      Range(GetEventsLoop(q, n)) = getEvents(db, t, f, n)

(***************************************************************************)
(* Paging through the table the way ReplayState::run does, each query      *)
(* starting from the last timestamp of the previous page, passes on every  *)
(* row after t exactly once: the pages partition the selected rows.        *)
(***************************************************************************)
PagesFrom(start, f, n) ==
  LET pages[t \in QueryTimes \union Times] ==
        LET page == getEvents(db, t, f, n)
        IN IF page = {} THEN <<>> ELSE <<page>> \o pages[LastTs(page, f)]
  IN pages[start]

PagingLosesNothing ==
  \A t \in QueryTimes, f \in Directions, n \in Counts \ {0} :
    LET pages == PagesFrom(t, f, n)
    IN /\ UNION Range(pages) = Select(db, t, f)
       /\ \A i, j \in DOMAIN pages :
            i < j => \A r \in pages[i], s \in pages[j] : Before(r.ts, s.ts, f)

(***************************************************************************)
(* sqliteDatabase.cpp:113-116 says that more than count rows are read when *)
(* they occurred during the same millisecond: without the rows of its last *)
(* millisecond, the result of a forward query holds fewer than count rows. *)
(* (A reverse query returns all rows: no timestamp is later than the last.)*)
(***************************************************************************)
ForwardSoftLimit ==
  \A t \in QueryTimes, n \in Counts \ {0} :
    LET page == getEvents(db, t, 1, n)
    IN page # {} => Cardinality({r \in page : r.ts # LastTs(page, 1)}) < n

(***************************************************************************)
(* The property the check of the limit against last_event exists for:      *)
(* messages of one millisecond are never divided between two queries.      *)
(***************************************************************************)
MillisecondsStayWhole ==
  \A t \in QueryTimes, f \in Directions, n \in Counts :
    LET page == getEvents(db, t, f, n)
    IN \A r \in page : {q \in db : q.ts = r.ts} \subseteq page
=============================================================================
