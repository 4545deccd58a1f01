--------------------------- MODULE EventDBProofs ---------------------------
(***************************************************************************)
(* Lemmas about the queries of EventDB, for every table, and theorems about *)
(* those of EventDBReference, for every table, limit and query time.       *)
(***************************************************************************)
EXTENDS EventDBReference, WellFoundedInduction, FiniteSetTheorems, SequenceTheorems, TLAPS

-----------------------------------------------------------------------------
(***************************************************************************)
(* A finite nonempty set of integers has a smallest element: the subsets   *)
(* of the elements up to m, for each m, have a minimal one.                *)
(***************************************************************************)
LEMMA SmallestExists ==
  ASSUME NEW T \in SUBSET Int, IsFiniteSet(T), T # {}
  PROVE  \E m \in T : \A n \in T : m <= n
<1> DEFINE UpTo(m) == {n \in T : n <= m}
           Family == {UpTo(m) : m \in T}
<1>1. IsWellFoundedOn(StrictSubsetOrdering(T), SUBSET T)
  BY FS_StrictSubsetOrderingWellFounded, FS_FiniteSubsetsOfFinite
<1>2. Family \subseteq SUBSET T /\ Family # {}
  OBVIOUS
<1> HIDE DEF Family
<1>3. PICK D \in Family : \A E \in Family : ~ (<<E, D>> \in StrictSubsetOrdering(T))
  BY <1>1, <1>2, WFMin
<1>4. PICK m \in T : D = UpTo(m)
  BY <1>3 DEF Family
<1>5. ASSUME NEW n \in T, n < m PROVE FALSE
  <2>1. UpTo(n) \in Family
    BY DEF Family
  <2> n \in Int /\ m \in Int
    OBVIOUS
  <2>2. UpTo(n) \subseteq UpTo(m) /\ m \in UpTo(m) /\ m \notin UpTo(n)
    <3>1. ASSUME NEW k \in UpTo(n) PROVE k \in UpTo(m)
      <4>1. k \in T /\ k \in Int /\ k <= n
        OBVIOUS
      <4> QED
        BY <4>1, <1>5
    <3>2. m \in UpTo(m)
      OBVIOUS
    <3>3. m \notin UpTo(n)
      BY <1>5
    <3> QED
      BY <3>1, <3>2, <3>3
  <2>3. <<UpTo(n), D>> \in StrictSubsetOrdering(T)
    BY <2>2, <1>4 DEF StrictSubsetOrdering
  <2> QED
    BY <2>1, <2>3, <1>3
<1> QED
  BY <1>5

\* The same for the largest element.
LEMMA LargestExists ==
  ASSUME NEW T \in SUBSET Int, IsFiniteSet(T), T # {}
  PROVE  \E m \in T : \A n \in T : n <= m
<1> DEFINE From(m) == {n \in T : n >= m}
           Family == {From(m) : m \in T}
<1>1. IsWellFoundedOn(StrictSubsetOrdering(T), SUBSET T)
  BY FS_StrictSubsetOrderingWellFounded, FS_FiniteSubsetsOfFinite
<1>2. Family \subseteq SUBSET T /\ Family # {}
  OBVIOUS
<1> HIDE DEF Family
<1>3. PICK D \in Family : \A E \in Family : ~ (<<E, D>> \in StrictSubsetOrdering(T))
  BY <1>1, <1>2, WFMin
<1>4. PICK m \in T : D = From(m)
  BY <1>3 DEF Family
<1>5. ASSUME NEW n \in T, n > m PROVE FALSE
  <2>1. From(n) \in Family
    BY DEF Family
  <2> n \in Int /\ m \in Int
    OBVIOUS
  <2>2. From(n) \subseteq From(m) /\ m \in From(m) /\ m \notin From(n)
    <3>1. ASSUME NEW k \in From(n) PROVE k \in From(m)
      <4>1. k \in T /\ k \in Int /\ k >= n
        OBVIOUS
      <4> QED
        BY <4>1, <1>5
    <3>2. m \in From(m)
      OBVIOUS
    <3>3. m \notin From(n)
      BY <1>5
    <3> QED
      BY <3>1, <3>2, <3>3
  <2>3. <<From(n), D>> \in StrictSubsetOrdering(T)
    BY <2>2, <1>4 DEF StrictSubsetOrdering
  <2> QED
    BY <2>1, <2>3, <1>3
<1> QED
  BY <1>5

-----------------------------------------------------------------------------
\* The timestamps of rows are those of the table.
LEMMA RowTime ==
  ASSUME NEW r \in Row
  PROVE  r.ts \in Times /\ r.ts \in 1 .. MaxTime /\ r.ts \in Int
<1>1. r.ts \in Times
  BY DEF Row
<1>2. r.ts \in 1 .. MaxTime
  BY <1>1, EventDBAssumption
<1> QED
  BY <1>1, <1>2

\* Rows have finitely many timestamps.
LEMMA StampsFinite ==
  ASSUME NEW rows \in SUBSET Row
  PROVE  Stamps(rows) \subseteq 1 .. MaxTime /\ IsFiniteSet(Stamps(rows))
<1>1. Stamps(rows) \subseteq 1 .. MaxTime
  BY EventDBAssumption DEF Stamps, Row
<1>2. IsFiniteSet(1 .. MaxTime)
  BY FS_Interval, EventDBAssumption
<1> QED
  BY <1>1, <1>2, FS_Subset

(***************************************************************************)
(* A nonempty result has a first row, and no row comes before it.          *)
(***************************************************************************)
LEMMA FirstTsProperties ==
  ASSUME NEW rows \in SUBSET Row, rows # {}, NEW f \in Int
  PROVE  /\ FirstTs(rows, f) \in Stamps(rows)
         /\ \A r \in rows : ~ Before(r.ts, FirstTs(rows, f), f)
<1>1. Stamps(rows) \subseteq 1 .. MaxTime /\ IsFiniteSet(Stamps(rows)) /\ Stamps(rows) # {}
  BY StampsFinite DEF Stamps
<1>2. Stamps(rows) \in SUBSET Int
  BY <1>1, EventDBAssumption
<1>3. \E t \in Stamps(rows) : \A u \in Stamps(rows) : ~ Before(u, t, f)
  BY <1>1, <1>2, SmallestExists, LargestExists DEF Before
<1>4. /\ FirstTs(rows, f) \in Stamps(rows)
      /\ \A u \in Stamps(rows) : ~ Before(u, FirstTs(rows, f), f)
  BY <1>3 DEF FirstTs
<1> QED
  BY <1>4 DEF Stamps

\* And a last row, which comes before no row.
LEMMA LastTsProperties ==
  ASSUME NEW rows \in SUBSET Row, rows # {}, NEW f \in Int
  PROVE  /\ LastTs(rows, f) \in Stamps(rows)
         /\ \A r \in rows : ~ Before(LastTs(rows, f), r.ts, f)
<1>1. Stamps(rows) \subseteq 1 .. MaxTime /\ IsFiniteSet(Stamps(rows)) /\ Stamps(rows) # {}
  BY StampsFinite DEF Stamps
<1>2. Stamps(rows) \in SUBSET Int
  BY <1>1, EventDBAssumption
<1>3. \E t \in Stamps(rows) : \A u \in Stamps(rows) : ~ Before(t, u, f)
  BY <1>1, <1>2, SmallestExists, LargestExists DEF Before
<1>4. /\ LastTs(rows, f) \in Stamps(rows)
      /\ \A u \in Stamps(rows) : ~ Before(LastTs(rows, f), u, f)
  BY <1>3 DEF LastTs
<1> QED
  BY <1>4 DEF Stamps

-----------------------------------------------------------------------------
\* A query returns rows it was asked for, from the table.
LEMMA GetEventsSelects ==
  ASSUME NEW rows \in SUBSET Row, NEW t, NEW f \in Int, NEW count \in Nat
  PROVE  /\ getEvents(rows, t, f, count) \subseteq Select(rows, t, f)
         /\ getEvents(rows, t, f, count) \subseteq rows
BY DEF getEvents, Select

(***************************************************************************)
(* A query skips nothing: every row it could have returned that does not   *)
(* come after the last one it did return is among those returned.          *)
(***************************************************************************)
LEMMA GetEventsCovers ==
  ASSUME NEW rows \in SUBSET Row, IsFiniteSet(rows),
         NEW t \in Int, NEW f \in Int, NEW count \in Nat,
         getEvents(rows, t, f, count) # {},
         NEW r \in Select(rows, t, f),
         ~ Before(LastTs(getEvents(rows, t, f, count), f), r.ts, f)
  PROVE  r \in getEvents(rows, t, f, count)
<1> DEFINE S == Select(rows, t, f)
           page == getEvents(rows, t, f, count)
<1>1. S \subseteq rows /\ IsFiniteSet(S)
  BY FS_Subset DEF Select
<1>2. page \in SUBSET Row /\ page # {} /\ page \subseteq S
  BY GetEventsSelects
<1>3. PICK p \in page : p.ts = LastTs(page, f)
  BY <1>2, LastTsProperties DEF Stamps
<1>4. r.ts \in Int /\ p.ts \in Int
  <2>1. r \in Row /\ p \in Row
    BY <1>1, <1>2
  <2> QED
    BY <2>1, RowTime
<1>5. CASE f >= 0
  <2> DEFINE Less(x) == {q \in S : q.ts < x.ts}
  <2>1. r.ts <= p.ts
    BY <1>3, <1>4, <1>5 DEF Before
  <2>2. Less(r) \subseteq Less(p)
    <3>1. \A q \in S : q.ts \in Int
      <4>1. \A q \in S : q \in Row
        BY <1>1
      <4> QED
        BY <4>1, RowTime
    <3> QED
      BY <3>1, <2>1, <1>4
  <2>3. IsFiniteSet(Less(p)) /\ IsFiniteSet(Less(r))
    BY <1>1, FS_Subset
  <2>4. Cardinality(Less(r)) <= Cardinality(Less(p))
    BY <2>2, <2>3, FS_Subset
  <2>5. Cardinality(Less(p)) < count
    BY <1>3, <1>5 DEF getEvents
  <2>6. Cardinality(Less(r)) \in Nat /\ Cardinality(Less(p)) \in Nat
    BY <2>3, FS_CardinalityType
  <2>7. Cardinality(Less(r)) < count
    BY <2>4, <2>5, <2>6
  <2> QED
    BY <2>7, <1>5 DEF getEvents
<1>6. CASE ~ (f >= 0)
  BY <1>6, <1>3 DEF getEvents
<1> QED
  BY <1>5, <1>6

(***************************************************************************)
(* What the soft limit is for: the rows of one millisecond are all         *)
(* returned by a query that returns one of them.                           *)
(***************************************************************************)
THEOREM MillisecondsWhole ==
  ASSUME NEW rows \in SUBSET Row, NEW t \in Int, NEW f \in Int, NEW count \in Nat,
         NEW r \in getEvents(rows, t, f, count), NEW q \in rows, q.ts = r.ts
  PROVE  q \in getEvents(rows, t, f, count)
BY DEF getEvents, Select, Before

-----------------------------------------------------------------------------
\* The table is a finite set of rows.
LEMMA TableInvariance == EventDBSpec => [](db \in SUBSET Row /\ IsFiniteSet(db))
<1>1. EventDBInit => db \in SUBSET Row /\ IsFiniteSet(db)
  BY FS_EmptySet DEF EventDBInit
<1>2. db \in SUBSET Row /\ IsFiniteSet(db) /\ [EventDBNext]_db => (db \in SUBSET Row /\ IsFiniteSet(db))'
  <2>1. SUFFICES ASSUME db \in SUBSET Row, IsFiniteSet(db), NEW r \in Row, storeEvent(r)
                 PROVE  db' \in SUBSET Row /\ IsFiniteSet(db')
    BY DEF EventDBNext
  <2>2. db' = db \union {r}
    BY <2>1 DEF storeEvent
  <2>3. QED BY <2>1, <2>2, FS_AddElement
<1>3. QED BY <1>1, <1>2, PTL DEF EventDBSpec

\* The directions and the arguments of queries are numbers.
LEMMA ArgumentsAreInt == QueryTimes \subseteq Int /\ Counts \subseteq Nat /\ Directions \subseteq Int
BY ReferenceAssumption DEF Directions

(***************************************************************************)
(* Whatever the limit, a query that returns a message of a millisecond     *)
(* returns every message of it: the next query, which starts after that    *)
(* millisecond, cannot lose one.                                           *)
(***************************************************************************)
THEOREM QueriesKeepMillisecondsWhole == EventDBSpec => []MillisecondsStayWhole
<1>1. db \in SUBSET Row /\ IsFiniteSet(db) => MillisecondsStayWhole
  BY ArgumentsAreInt, MillisecondsWhole DEF MillisecondsStayWhole
<1>2. QED BY <1>1, TableInvariance, PTL

(***************************************************************************)
(* A forward query goes over its limit only within the millisecond of its  *)
(* last message.                                                           *)
(***************************************************************************)
THEOREM QueriesKeepTheLimit == EventDBSpec => []ForwardSoftLimit
<1>1. ASSUME db \in SUBSET Row, IsFiniteSet(db),
             NEW t \in QueryTimes, NEW n \in Counts \ {0}, getEvents(db, t, 1, n) # {}
      PROVE  Cardinality({r \in getEvents(db, t, 1, n) : r.ts # LastTs(getEvents(db, t, 1, n), 1)}) < n
  <2> DEFINE S == Select(db, t, 1)
             page == getEvents(db, t, 1, n)
             early == {r \in page : r.ts # LastTs(page, 1)}
  <2>1. t \in Int /\ n \in Nat
    BY ArgumentsAreInt
  <2>2. page \in SUBSET Row /\ page \subseteq S
    BY <1>1, <2>1, GetEventsSelects
  <2>3. PICK p \in page : p.ts = LastTs(page, 1) /\ \A r \in page : ~ Before(LastTs(page, 1), r.ts, 1)
    BY <1>1, <2>1, <2>2, LastTsProperties, GetEventsSelects DEF Stamps
  <2>4. Cardinality({q \in S : q.ts < p.ts}) < n
    BY <2>3 DEF getEvents
  <2>5. early \subseteq {q \in S : q.ts < p.ts}
    <3>1. \A r \in page : r.ts \in Int
      BY <2>2, RowTime
    <3>2. QED BY <2>2, <2>3, <3>1 DEF Before
  <2>6. IsFiniteSet(S) /\ IsFiniteSet({q \in S : q.ts < p.ts})
    BY <1>1, FS_Subset DEF Select
  <2>7. IsFiniteSet(early) /\ Cardinality(early) <= Cardinality({q \in S : q.ts < p.ts})
    BY <2>5, <2>6, FS_Subset
  <2>8. Cardinality(early) \in Nat /\ Cardinality({q \in S : q.ts < p.ts}) \in Nat
    BY <2>6, <2>7, FS_CardinalityType
  <2>9. Cardinality(early) < n
    BY <2>1, <2>4, <2>7, <2>8
  <2>10. QED BY <2>9
<1>2. db \in SUBSET Row /\ IsFiniteSet(db) => ForwardSoftLimit
  BY <1>1 DEF ForwardSoftLimit
<1>3. QED BY <1>2, TableInvariance, PTL

-----------------------------------------------------------------------------
(* Induction, over a set: a set that has 0, and n + 1 with each n, has     *)
(* every natural number; a smallest one that it misses is not 0.           *)
LEMMA NatSetInduction ==
  ASSUME NEW A \in SUBSET Nat, 0 \in A, \A n \in A : n + 1 \in A
  PROVE  \A n \in Nat : n \in A
PROOF
<1> SUFFICES ASSUME NEW n \in Nat, n \notin A PROVE FALSE
  OBVIOUS
<1> DEFINE Missing == {m \in 0 .. n : m \notin A}
<1>1. IsFiniteSet(Missing)
  <2>1. IsFiniteSet(0 .. n)
    BY FS_Interval
  <2> QED
    BY <2>1, FS_Subset
<1>2. Missing \in SUBSET Int /\ Missing # {}
  OBVIOUS
<1>3. PICK m \in Missing : \A i \in Missing : m <= i
  <2> HIDE DEF Missing
  <2> QED
    BY <1>1, <1>2, SmallestExists
<1>4. m # 0 /\ m - 1 \in 0 .. n /\ m - 1 \notin Missing
  BY <1>3
<1>5. m - 1 \in A /\ (m - 1) + 1 = m
  BY <1>4
<1> QED
  BY <1>5

(***************************************************************************)
(* The loop of getEvents.  LoopStates is a recursive function: it exists,  *)
(* which is shown from one number of iterations to the next.               *)
(***************************************************************************)
\* The first n values of g after the start are those of the iterations.
LoopOn(g, q, count, n) ==
  /\ g[0] = LoopStart
  /\ \A i \in Nat : i < n => g[i + 1] = LoopBody(g[i], q[i + 1], count)

(* The two ways to say what g is.                                          *)
LEMMA LoopRec ==
  ASSUME NEW q, NEW count, NEW n \in Nat, NEW g
  PROVE  /\ g = [i \in 0 .. n |-> IF i = 0 THEN LoopStart ELSE LoopBody(g[i - 1], q[i], count)] => LoopOn(g, q, count, n)
         /\ g = [i \in 0 .. n |-> g[i]] /\ LoopOn(g, q, count, n) =>
              g = [i \in 0 .. n |-> IF i = 0 THEN LoopStart ELSE LoopBody(g[i - 1], q[i], count)]
PROOF
<1>1. ASSUME g = [i \in 0 .. n |-> IF i = 0 THEN LoopStart ELSE LoopBody(g[i - 1], q[i], count)]
      PROVE  LoopOn(g, q, count, n)
  <2>1. g[0] = LoopStart
    BY <1>1
  <2>2. ASSUME NEW i \in Nat, i < n PROVE g[i + 1] = LoopBody(g[i], q[i + 1], count)
    <3>1. i + 1 \in 0 .. n /\ i + 1 # 0 /\ (i + 1) - 1 = i
      BY <2>2
    <3>2. g[i + 1] = IF i + 1 = 0 THEN LoopStart ELSE LoopBody(g[(i + 1) - 1], q[i + 1], count)
      BY <1>1, <3>1
    <3> QED
      BY <3>1, <3>2
  <2> QED
    BY <2>1, <2>2 DEF LoopOn
<1>2. ASSUME g = [i \in 0 .. n |-> g[i]], LoopOn(g, q, count, n)
      PROVE  g = [i \in 0 .. n |-> IF i = 0 THEN LoopStart ELSE LoopBody(g[i - 1], q[i], count)]
  <2>1. ASSUME NEW i \in 0 .. n
        PROVE  g[i] = IF i = 0 THEN LoopStart ELSE LoopBody(g[i - 1], q[i], count)
    <3>1. CASE i = 0
      BY <1>2, <3>1 DEF LoopOn
    <3>2. CASE i # 0
      <4>1. i - 1 \in Nat /\ i - 1 < n /\ (i - 1) + 1 = i
        BY <3>2
      <4>2. g[(i - 1) + 1] = LoopBody(g[i - 1], q[(i - 1) + 1], count)
        BY <1>2, <4>1 DEF LoopOn
      <4> QED
        BY <3>2, <4>1, <4>2
    <3> QED
      BY <3>1, <3>2
  <2> QED
    BY <1>2, <2>1
<1> QED
  BY <1>1, <1>2

(* There is such a function.                                               *)
LEMMA LoopExists ==
  ASSUME NEW q, Len(q) \in Nat, NEW count
  PROVE  LoopOn(LoopStates(q, count), q, count, Len(q))
PROOF
<1> DEFINE A == {n \in Nat : \E g : g = [i \in 0 .. n |-> g[i]] /\ LoopOn(g, q, count, n)}
<1>1. 0 \in A
  <2> DEFINE g == [i \in 0 .. 0 |-> LoopStart]
  <2>1. g[0] = LoopStart /\ g = [i \in 0 .. 0 |-> g[i]]
    OBVIOUS
  <2>2. LoopOn(g, q, count, 0)
    BY <2>1 DEF LoopOn
  <2> HIDE DEF g
  <2> QED
    BY <2>1, <2>2
<1>2. ASSUME NEW n \in A PROVE n + 1 \in A
  <2>1. PICK g : g = [i \in 0 .. n |-> g[i]] /\ LoopOn(g, q, count, n)
    OBVIOUS
  <2>2. n \in Nat
    OBVIOUS
  <2> DEFINE h == [i \in 0 .. n + 1 |-> IF i = n + 1 THEN LoopBody(g[n], q[n + 1], count) ELSE g[i]]
  <2>3. h = [i \in 0 .. n + 1 |-> h[i]]
    OBVIOUS
  <2>4. \A i \in 0 .. n : h[i] = g[i]
    <3>1. \A i \in 0 .. n : i \in 0 .. n + 1 /\ i # n + 1
      BY <2>2
    <3> QED
      BY <3>1
  <2>5. h[n + 1] = LoopBody(g[n], q[n + 1], count)
    <3>1. n + 1 \in 0 .. n + 1
      BY <2>2
    <3> QED
      BY <3>1
  <2> HIDE DEF h
  <2>6. LoopOn(h, q, count, n + 1)
    <3>1. h[0] = LoopStart
      BY <2>1, <2>2, <2>4 DEF LoopOn
    <3>2. ASSUME NEW i \in Nat, i < n + 1 PROVE h[i + 1] = LoopBody(h[i], q[i + 1], count)
      <4>1. CASE i = n
        BY <2>2, <2>4, <2>5, <4>1
      <4>2. CASE i # n
        <5>1. i < n /\ i \in 0 .. n /\ i + 1 \in 0 .. n
          BY <2>2, <3>2, <4>2
        <5> QED
          BY <2>1, <2>4, <5>1 DEF LoopOn
      <4> QED
        BY <4>1, <4>2
    <3> QED
      BY <3>1, <3>2 DEF LoopOn
  <2> QED
    BY <2>2, <2>3, <2>6
<1>3. Len(q) \in A
  <2> HIDE DEF A
  <2>1. A \in SUBSET Nat
    BY DEF A
  <2> QED
    BY <1>1, <1>2, <2>1, NatSetInduction
<1>4. PICK g : g = [i \in 0 .. Len(q) |-> g[i]] /\ LoopOn(g, q, count, Len(q))
  BY <1>3
<1> HIDE DEF A
<1>5. g = [i \in 0 .. Len(q) |-> IF i = 0 THEN LoopStart ELSE LoopBody(g[i - 1], q[i], count)]
  BY <1>4, LoopRec
<1> DEFINE r == LoopStates(q, count)
<1>6. r = [i \in 0 .. Len(q) |-> IF i = 0 THEN LoopStart ELSE LoopBody(r[i - 1], q[i], count)]
  BY <1>5 DEF LoopStates
<1> HIDE DEF r
<1>7. LoopOn(r, q, count, Len(q))
  BY <1>6, LoopRec
<1> QED
  BY <1>7 DEF r

-----------------------------------------------------------------------------
(***************************************************************************)
(* What the loop has done after i iterations: it has passed on the first k *)
(* rows, where k is i or the place of the first row that made it break.    *)
(***************************************************************************)
LastOf(q, k) == IF k = 0 THEN 0 ELSE q[k].ts

\* The row at j makes the loop break if j - 1 rows were read before it.
Breaks(q, j, count) == q[j].ts > LastOf(q, j - 1) /\ j - 1 >= count

Taken(q, k) == {q[j] : j \in 1 .. k}

PassedOn(q, count, i, k, o, d) ==
  /\ o \in Seq(Row) /\ Range(o) = Taken(q, k)
  /\ d \in BOOLEAN
  /\ d => k < i /\ Breaks(q, k + 1, count)
  /\ ~ d => k = i
  /\ \A j \in 1 .. k : ~ Breaks(q, j, count)

LoopIs(q, count, i, s) ==
  \E k \in 0 .. i : \E o, d :
    /\ s = [n |-> k, last |-> LastOf(q, k), out |-> o, done |-> d]
    /\ PassedOn(q, count, i, k, o, d)

(* What one more row adds to the rows passed on.                           *)
LEMMA TakenNext ==
  ASSUME NEW q, NEW k \in Nat
  PROVE  Taken(q, k + 1) = Taken(q, k) \union {q[k + 1]}
PROOF
<1>1. 1 .. k + 1 = (1 .. k) \union {k + 1}
  OBVIOUS
<1> QED
  BY <1>1 DEF Taken

(* Append adds its row to the rows passed on.                              *)
LEMMA RangeOfAppend ==
  ASSUME NEW o \in Seq(Row), NEW r \in Row
  PROVE  Append(o, r) \in Seq(Row) /\ Range(Append(o, r)) = Range(o) \union {r}
PROOF
<1> DEFINE p == Append(o, r)
<1>1. /\ p \in Seq(Row) /\ Len(p) = Len(o) + 1
      /\ \A i \in 1 .. Len(o) : p[i] = o[i]
      /\ p[Len(o) + 1] = r
  BY AppendProperties
<1> HIDE DEF p
<1>2. Len(o) \in Nat /\ DOMAIN o = 1 .. Len(o) /\ DOMAIN p = 1 .. Len(o) + 1
  BY <1>1, LenProperties
<1>3. DOMAIN p = DOMAIN o \union {Len(o) + 1}
  BY <1>2
<1>4. \A i \in DOMAIN o : p[i] = o[i]
  BY <1>1, <1>2
<1>5. Range(p) = Range(o) \union {r}
  BY <1>1, <1>3, <1>4 DEF Range
<1> QED
  BY <1>1, <1>5 DEF p

(* An iteration keeps what is known of the loop.                           *)
LEMMA LoopKeeps ==
  ASSUME NEW q \in Seq(Row), NEW count \in Nat, NEW i \in Nat, i < Len(q),
         NEW s, LoopIs(q, count, i, s)
  PROVE  LoopIs(q, count, i + 1, LoopBody(s, q[i + 1], count))
PROOF
<1>0. PICK k \in 0 .. i : \E o, d :
        /\ s = [n |-> k, last |-> LastOf(q, k), out |-> o, done |-> d]
        /\ PassedOn(q, count, i, k, o, d)
  BY DEF LoopIs
<1>1. PICK o, d :
        /\ s = [n |-> k, last |-> LastOf(q, k), out |-> o, done |-> d]
        /\ PassedOn(q, count, i, k, o, d)
  BY <1>0
<1>2. k \in Nat /\ k \in 0 .. i + 1
  OBVIOUS
<1>3. s.n = k /\ s.last = LastOf(q, k) /\ s.out = o /\ s.done = d
  BY <1>1
<1> DEFINE r == q[i + 1]
           b == LoopBody(s, r, count)
<1>4. r \in Row
  <2>1. i + 1 \in 1 .. Len(q)
    BY LenProperties
  <2> QED
    BY <2>1, ElementOfSeq
<1> HIDE DEF r
<1>5. d \in BOOLEAN
  BY <1>1 DEF PassedOn
<1>6. CASE d
  <2>1. b = [s EXCEPT !.done = TRUE]
    BY <1>3, <1>6 DEF LoopBody
  <2>2. b = [n |-> k, last |-> LastOf(q, k), out |-> o, done |-> TRUE]
    BY <1>1, <2>1
  <2>3. PassedOn(q, count, i + 1, k, o, TRUE)
    BY <1>1, <1>2, <1>6 DEF PassedOn
  <2> QED
    BY <1>2, <2>2, <2>3 DEF LoopIs, r
<1>7. CASE ~ d /\ Breaks(q, i + 1, count)
  <2>1. k = i
    BY <1>1, <1>7 DEF PassedOn
  <2>2. (i + 1) - 1 = i
    OBVIOUS
  <2>3. r.ts > LastOf(q, i) /\ i >= count
    BY <1>7, <2>2 DEF Breaks, r
  <2>4. b = [s EXCEPT !.done = TRUE]
    BY <1>3, <2>1, <2>3 DEF LoopBody
  <2>5. b = [n |-> k, last |-> LastOf(q, k), out |-> o, done |-> TRUE]
    BY <1>1, <2>4
  <2>6. PassedOn(q, count, i + 1, k, o, TRUE)
    BY <1>1, <1>2, <1>7, <2>1 DEF PassedOn
  <2> QED
    BY <1>2, <2>5, <2>6 DEF LoopIs, r
<1>8. CASE ~ d /\ ~ Breaks(q, i + 1, count)
  <2>1. k = i
    BY <1>1, <1>8 DEF PassedOn
  <2>2. (i + 1) - 1 = i /\ i + 1 # 0
    OBVIOUS
  <2>3. ~ (r.ts > LastOf(q, i) /\ i >= count)
    BY <1>8, <2>2 DEF Breaks, r
  <2>4. b = [n |-> i + 1, last |-> r.ts, out |-> Append(o, r), done |-> FALSE]
    BY <1>3, <1>8, <2>1, <2>3 DEF LoopBody
  <2>5. LastOf(q, i + 1) = r.ts
    BY <2>2 DEF LastOf, r
  <2>6. o \in Seq(Row) /\ Range(o) = Taken(q, i)
    BY <1>1, <2>1 DEF PassedOn
  <2>7. Append(o, r) \in Seq(Row) /\ Range(Append(o, r)) = Taken(q, i + 1)
    <3>1. Taken(q, i + 1) = Taken(q, i) \union {r}
      BY TakenNext DEF r
    <3>2. Append(o, r) \in Seq(Row) /\ Range(Append(o, r)) = Range(o) \union {r}
      BY <1>4, <2>6, RangeOfAppend
    <3> QED
      BY <2>6, <3>1, <3>2
  <2>8. \A j \in 1 .. i + 1 : ~ Breaks(q, j, count)
    <3>1. \A j \in 1 .. i : ~ Breaks(q, j, count)
      BY <1>1, <2>1 DEF PassedOn
    <3>2. \A j \in 1 .. i + 1 : j \in 1 .. i \/ j = i + 1
      OBVIOUS
    <3> QED
      BY <1>8, <3>1, <3>2
  <2>9. PassedOn(q, count, i + 1, i + 1, Append(o, r), FALSE)
    BY <2>7, <2>8 DEF PassedOn
  <2>10. i + 1 \in 0 .. i + 1
    OBVIOUS
  <2>11. b = [n |-> i + 1, last |-> LastOf(q, i + 1), out |-> Append(o, r), done |-> FALSE]
    BY <2>4, <2>5
  <2> QED
    BY <2>9, <2>10, <2>11 DEF LoopIs, r
<1> QED
  BY <1>5, <1>6, <1>7, <1>8

(* So it is known at the end.                                              *)
LEMMA LoopEnds ==
  ASSUME NEW q \in Seq(Row), NEW count \in Nat
  PROVE  \E k \in 0 .. Len(q) :
           /\ Range(GetEventsLoop(q, count)) = Taken(q, k)
           /\ k < Len(q) => Breaks(q, k + 1, count)
           /\ \A j \in 1 .. k : ~ Breaks(q, j, count)
PROOF
<1> DEFINE g == LoopStates(q, count)
<1>1. Len(q) \in Nat
  BY LenProperties
<1>2. LoopOn(g, q, count, Len(q))
  BY <1>1, LoopExists
<1> HIDE DEF g
<1> DEFINE A == {i \in Nat : i <= Len(q) => LoopIs(q, count, i, g[i])}
<1>3. 0 \in A
  <2>1. g[0] = [n |-> 0, last |-> LastOf(q, 0), out |-> <<>>, done |-> FALSE]
    BY <1>2 DEF LoopOn, LoopStart, LastOf
  <2>2. <<>> \in Seq(Row) /\ Range(<<>>) = Taken(q, 0)
    <3>1. DOMAIN <<>> = 1 .. 0 /\ <<>> \in Seq(Row)
      BY EmptySeq, LenProperties
    <3>2. 1 .. 0 = {}
      OBVIOUS
    <3> QED
      BY <3>1, <3>2 DEF Range, Taken
  <2>3. PassedOn(q, count, 0, 0, <<>>, FALSE)
    BY <2>2 DEF PassedOn
  <2>4. LoopIs(q, count, 0, g[0])
    <3>1. 0 \in 0 .. 0 /\ FALSE \in BOOLEAN
      OBVIOUS
    <3>2. \E k \in 0 .. 0 : \E o, d :
            /\ g[0] = [n |-> k, last |-> LastOf(q, k), out |-> o, done |-> d]
            /\ PassedOn(q, count, 0, k, o, d)
      BY <2>1, <2>3, <3>1, Zenon
    <3> QED
      BY <3>2 DEF LoopIs
  <2> QED
    BY <2>4
<1>4. ASSUME NEW i \in A PROVE i + 1 \in A
  <2>1. i \in Nat
    OBVIOUS
  <2>2. ASSUME i + 1 <= Len(q) PROVE LoopIs(q, count, i + 1, g[i + 1])
    <3>1. i < Len(q) /\ i <= Len(q)
      BY <1>1, <2>1, <2>2
    <3>2. LoopIs(q, count, i, g[i])
      BY <3>1
    <3>3. g[i + 1] = LoopBody(g[i], q[i + 1], count)
      BY <1>2, <2>1, <3>1 DEF LoopOn
    <3> QED
      BY <2>1, <3>1, <3>2, <3>3, LoopKeeps
  <2> QED
    BY <2>1, <2>2
<1>5. Len(q) \in A
  <2> HIDE DEF A
  <2>1. A \in SUBSET Nat
    BY DEF A
  <2> QED
    BY <1>1, <1>3, <1>4, <2>1, NatSetInduction
<1>6. LoopIs(q, count, Len(q), g[Len(q)])
  BY <1>1, <1>5
<1>7. PICK k \in 0 .. Len(q) : \E o, d :
        /\ g[Len(q)] = [n |-> k, last |-> LastOf(q, k), out |-> o, done |-> d]
        /\ PassedOn(q, count, Len(q), k, o, d)
  BY <1>6 DEF LoopIs
<1>8. PICK o, d :
        /\ g[Len(q)] = [n |-> k, last |-> LastOf(q, k), out |-> o, done |-> d]
        /\ PassedOn(q, count, Len(q), k, o, d)
  BY <1>7
<1>9. GetEventsLoop(q, count) = o
  BY <1>8 DEF GetEventsLoop, g
<1>10. d \in BOOLEAN /\ (k < Len(q) => d)
  BY <1>8 DEF PassedOn
<1>11. k < Len(q) => Breaks(q, k + 1, count)
  BY <1>8, <1>10 DEF PassedOn
<1>12. Range(o) = Taken(q, k) /\ \A j \in 1 .. k : ~ Breaks(q, j, count)
  BY <1>8 DEF PassedOn
<1> QED
  BY <1>9, <1>11, <1>12

(* The first k of rows that differ are k rows.                             *)
LEMMA TakenCount ==
  ASSUME NEW q, NEW k \in Nat
  PROVE  /\ IsFiniteSet(Taken(q, k)) /\ Cardinality(Taken(q, k)) <= k
         /\ (\A i, j \in 1 .. k : q[i] = q[j] => i = j) => Cardinality(Taken(q, k)) = k
PROOF
<1> DEFINE e == [i \in 1 .. k |-> q[i]]
           T == Taken(q, k)
<1>1. e \in Surjection(1 .. k, T)
  BY DEF Surjection, Taken
<1>2. IsFiniteSet(1 .. k) /\ Cardinality(1 .. k) = k
  BY FS_Interval
<1>3. (\A i, j \in 1 .. k : q[i] = q[j] => i = j) => e \in Injection(1 .. k, T)
  BY DEF Injection, IsInjective, Taken
<1> HIDE DEF e, T
<1>4. IsFiniteSet(T) /\ Cardinality(T) <= k /\ (Cardinality(T) = k <=> e \in Injection(1 .. k, T))
  BY <1>1, <1>2, FS_Surjection
<1> QED
  BY <1>3, <1>4 DEF T

(* The rows of S in an order the SELECT may return them in: all of them,   *)
(* each once, none after one that comes later.                             *)
LEMMA OrderFacts ==
  ASSUME NEW S \in SUBSET Row, IsFiniteSet(S), NEW f \in Int, NEW q \in Orders(S, f)
  PROVE  /\ q \in Seq(Row) /\ Len(q) \in Nat
         /\ \A i \in 1 .. Len(q) : q[i] \in S /\ q[i].ts \in 1 .. MaxTime
         /\ \A x \in S : \E i \in 1 .. Len(q) : x = q[i]
         /\ \A i, j \in 1 .. Len(q) : q[i] = q[j] => i = j
         /\ \A i, j \in 1 .. Len(q) : i < j => ~ Before(q[j].ts, q[i].ts, f)
PROOF
<1> DEFINE n == Cardinality(S)
<1>1. n \in Nat
  BY FS_CardinalityType
<1>2. /\ q \in [1 .. n -> S] /\ IsInjective(q)
      /\ \A i, j \in DOMAIN q : i < j => ~ Before(q[j].ts, q[i].ts, f)
  BY DEF Orders
<1> HIDE DEF n
<1>3. q \in [1 .. n -> Row] /\ DOMAIN q = 1 .. n
  BY <1>2
<1>4. q \in Seq(Row)
  BY <1>1, <1>3, SeqDef
<1>5. Len(q) = n
  <2>1. Len(q) \in Nat /\ DOMAIN q = 1 .. Len(q)
    BY <1>4, LenProperties
  <2> QED
    BY <1>1, <1>3, <2>1
<1>6. q \in Injection(1 .. n, S)
  BY <1>2 DEF Injection
<1>7. Cardinality(1 .. n) = n
  BY <1>1, FS_Interval
<1>8. q \in Surjection(1 .. n, S)
  BY <1>6, <1>7, FS_Injection DEF n
<1>9. \A x \in S : \E i \in 1 .. n : x = q[i]
  BY <1>8 DEF Surjection
<1>10. \A i \in 1 .. n : q[i] \in S /\ q[i].ts \in 1 .. MaxTime
  <2> SUFFICES ASSUME NEW i \in 1 .. n PROVE q[i] \in S /\ q[i].ts \in 1 .. MaxTime
    OBVIOUS
  <2>1. q[i] \in S /\ q[i] \in Row
    BY <1>2
  <2> QED
    BY <2>1, RowTime
<1>11. \A i, j \in 1 .. n : q[i] = q[j] => i = j
  BY <1>2, <1>3 DEF IsInjective
<1>12. \A i, j \in 1 .. n : i < j => ~ Before(q[j].ts, q[i].ts, f)
  BY <1>2, <1>3
<1> QED
  BY <1>1, <1>4, <1>5, <1>9, <1>10, <1>11, <1>12

\* The rows of S that fewer than count rows are earlier than.
EarlyRows(S, count) == {r \in S : Cardinality({x \in S : x.ts < r.ts}) < count}

(* Where the first row of a row's millisecond is, fewer rows are earlier.  *)
LEMMA TakenForward ==
  ASSUME NEW S \in SUBSET Row, IsFiniteSet(S), NEW f \in Int, f >= 0, NEW q \in Orders(S, f),
         NEW count \in Nat, NEW k \in 0 .. Len(q),
         k < Len(q) => Breaks(q, k + 1, count),
         \A j \in 1 .. k : ~ Breaks(q, j, count)
  PROVE  Taken(q, k) = EarlyRows(S, count)
PROOF
<1> DEFINE Less(r) == {x \in S : x.ts < r.ts}
           n == Len(q)
<1>1. /\ n \in Nat
      /\ \A i \in 1 .. n : q[i] \in S /\ q[i].ts \in 1 .. MaxTime
      /\ \A x \in S : \E i \in 1 .. n : x = q[i]
      /\ \A i, j \in 1 .. n : q[i] = q[j] => i = j
      /\ \A i, j \in 1 .. n : i < j => ~ Before(q[j].ts, q[i].ts, f)
  BY OrderFacts
<1>2. \A i, j \in 1 .. n : i <= j => q[i].ts <= q[j].ts
  <2> SUFFICES ASSUME NEW i \in 1 .. n, NEW j \in 1 .. n, i <= j PROVE q[i].ts <= q[j].ts
    OBVIOUS
  <2>1. q[i].ts \in 1 .. MaxTime /\ q[j].ts \in 1 .. MaxTime
    BY <1>1
  <2>2. CASE i < j
    <3>1. ~ (q[j].ts < q[i].ts)
      BY <1>1, <2>2 DEF Before
    <3> QED
      BY <2>1, <3>1, EventDBAssumption
  <2>3. CASE i = j
    BY <2>1, <2>3, EventDBAssumption
  <2> QED
    BY <2>2, <2>3
<1>3. k \in Nat /\ k <= n
  BY <1>1
<1>4. ASSUME NEW r \in S PROVE IsFiniteSet(Less(r)) /\ Cardinality(Less(r)) \in Nat
  <2>1. IsFiniteSet(Less(r))
    BY FS_Subset
  <2> QED
    BY <2>1, FS_CardinalityType
<1>5. ASSUME NEW j \in 1 .. k PROVE q[j] \in S /\ Cardinality(Less(q[j])) < count
  <2>1. j \in 1 .. n /\ j \in Nat
    BY <1>1, <1>3
  <2> DEFINE Same == {i \in 1 .. j : q[i].ts = q[j].ts}
  <2>2. Same \in SUBSET Int /\ Same # {} /\ IsFiniteSet(Same)
    <3>1. j \in 1 .. j
      BY <2>1
    <3>2. IsFiniteSet(1 .. j)
      BY <2>1, FS_Interval
    <3> QED
      BY <3>1, <3>2, FS_Subset
  <2>3. PICK m \in Same : \A i \in Same : m <= i
    <3> HIDE DEF Same
    <3> QED
      BY <2>2, SmallestExists
  <2>4. m \in 1 .. j /\ m \in 1 .. k /\ m \in 1 .. n /\ q[m].ts = q[j].ts
    BY <1>1, <1>3, <2>1
  <2>5. Less(q[j]) \subseteq Taken(q, m - 1)
    <3> SUFFICES ASSUME NEW x \in S, x.ts < q[j].ts PROVE x \in Taken(q, m - 1)
      OBVIOUS
    <3>1. PICK i \in 1 .. n : x = q[i]
      BY <1>1
    <3>2. ~ (m <= i)
      <4> SUFFICES ASSUME m <= i PROVE FALSE
        OBVIOUS
      <4>1. q[m].ts <= q[i].ts /\ q[i].ts < q[m].ts
        BY <1>2, <2>4, <3>1
      <4>2. q[m].ts \in 1 .. MaxTime /\ q[i].ts \in 1 .. MaxTime
        BY <1>1, <2>4
      <4> QED
        BY <4>1, <4>2, EventDBAssumption
    <3>3. i \in 1 .. m - 1
      BY <1>1, <2>4, <3>2
    <3> QED
      BY <3>1, <3>3 DEF Taken
  <2>6. Cardinality(Less(q[j])) <= m - 1
    <3>1. m - 1 \in Nat
      BY <2>4
    <3>2. IsFiniteSet(Taken(q, m - 1)) /\ Cardinality(Taken(q, m - 1)) <= m - 1
      BY <3>1, TakenCount
    <3>3. Cardinality(Less(q[j])) <= Cardinality(Taken(q, m - 1))
      BY <2>5, <3>2, FS_Subset
    <3>4. Cardinality(Taken(q, m - 1)) \in Nat /\ Cardinality(Less(q[j])) \in Nat
      BY <1>1, <1>4, <2>1, <3>2, FS_CardinalityType
    <3> QED
      BY <3>1, <3>2, <3>3, <3>4
  <2>7. q[m].ts > LastOf(q, m - 1)
    <3>1. q[m].ts \in 1 .. MaxTime
      BY <1>1, <2>4
    <3>2. CASE m = 1
      BY <3>1, <3>2, EventDBAssumption DEF LastOf
    <3>3. CASE m # 1
      <4>1. m - 1 \in 1 .. j /\ m - 1 \in 1 .. n /\ m - 1 # 0
        BY <2>4, <3>3
      <4>2. ~ (m <= m - 1)
        BY <2>4
      <4>3. q[m - 1].ts # q[m].ts
        BY <2>3, <2>4, <4>1, <4>2
      <4>4. m - 1 <= m
        BY <2>4
      <4>5. q[m - 1].ts <= q[m].ts
        BY <1>2, <2>4, <4>1, <4>4
      <4>6. q[m - 1].ts \in 1 .. MaxTime
        BY <1>1, <4>1
      <4>7. q[m].ts > q[m - 1].ts
        BY <3>1, <4>3, <4>5, <4>6, EventDBAssumption
      <4> QED
        BY <4>1, <4>7 DEF LastOf
    <3> QED
      BY <3>2, <3>3
  <2>8. ~ (m - 1 >= count)
    BY <2>4, <2>7 DEF Breaks
  <2>9. Cardinality(Less(q[j])) \in Nat /\ q[j] \in S
    BY <1>1, <1>4, <2>1
  <2> QED
    BY <2>4, <2>6, <2>8, <2>9
<1>6. ASSUME NEW r \in S, r \notin Taken(q, k) PROVE ~ (Cardinality(Less(r)) < count)
  <2>1. PICK j \in 1 .. n : r = q[j]
    BY <1>1
  <2>2. k < j /\ k < n /\ k + 1 \in 1 .. n /\ k + 1 <= j
    <3>1. ~ (j \in 1 .. k)
      BY <1>6, <2>1 DEF Taken
    <3> QED
      BY <1>1, <1>3, <3>1
  <2>3. q[k + 1].ts > LastOf(q, k) /\ k >= count
    <3>1. (k + 1) - 1 = k
      BY <1>3
    <3> QED
      BY <2>2, <3>1 DEF Breaks
  <2>4. Taken(q, k) \subseteq Less(r)
    <3> SUFFICES ASSUME NEW i \in 1 .. k PROVE q[i] \in S /\ q[i].ts < q[j].ts
      BY <2>1 DEF Taken
    <3>1. i \in 1 .. n /\ k \in 1 .. n /\ i <= k /\ k # 0
      BY <1>1, <1>3
    <3>2. q[i].ts <= q[k].ts /\ q[k + 1].ts <= q[j].ts
      BY <1>2, <2>2, <3>1
    <3>3. q[k + 1].ts > q[k].ts
      BY <2>3, <3>1 DEF LastOf
    <3>4. /\ q[i].ts \in 1 .. MaxTime /\ q[k].ts \in 1 .. MaxTime
          /\ q[k + 1].ts \in 1 .. MaxTime /\ q[j].ts \in 1 .. MaxTime
      BY <1>1, <2>2, <3>1
    <3>5. q[i].ts \in Int /\ q[k].ts \in Int /\ q[k + 1].ts \in Int /\ q[j].ts \in Int
      BY <3>4, EventDBAssumption
    <3>6. \A a, b, c, d \in Int : a <= b /\ c > b /\ c <= d => a < d
      OBVIOUS
    <3>7. q[i].ts < q[j].ts
      BY <3>2, <3>3, <3>5, <3>6
    <3> QED
      BY <1>1, <3>1, <3>7
  <2>5. Cardinality(Taken(q, k)) = k
    <3>1. \A i, m \in 1 .. k : q[i] = q[m] => i = m
      <4>1. \A i \in 1 .. k : i \in 1 .. n
        BY <1>1, <1>3
      <4> QED
        BY <1>1, <4>1
    <3> QED
      BY <1>3, <3>1, TakenCount
  <2>6. Cardinality(Taken(q, k)) <= Cardinality(Less(r))
    BY <1>4, <2>4, FS_Subset
  <2>7. Cardinality(Less(r)) \in Nat
    BY <1>4
  <2> QED
    BY <1>3, <2>3, <2>5, <2>6, <2>7
<1>7. ASSUME NEW r \in Taken(q, k) PROVE r \in S /\ Cardinality(Less(r)) < count
  <2>1. PICK j \in 1 .. k : r = q[j]
    BY DEF Taken
  <2> QED
    BY <2>1, <1>5
<1> QED
  BY <1>6, <1>7 DEF EarlyRows

(* In reverse no row but the first can make the loop break.                *)
LEMMA TakenReverse ==
  ASSUME NEW S \in SUBSET Row, IsFiniteSet(S), NEW f \in Int, ~ (f >= 0), NEW q \in Orders(S, f),
         NEW count \in Nat, NEW k \in 0 .. Len(q),
         k < Len(q) => Breaks(q, k + 1, count),
         \A j \in 1 .. k : ~ Breaks(q, j, count)
  PROVE  Taken(q, k) = {r \in S : count > 0}
PROOF
<1> DEFINE n == Len(q)
<1>1. /\ n \in Nat
      /\ \A i \in 1 .. n : q[i] \in S /\ q[i].ts \in 1 .. MaxTime
      /\ \A x \in S : \E i \in 1 .. n : x = q[i]
      /\ \A i, j \in 1 .. n : i < j => ~ Before(q[j].ts, q[i].ts, f)
  BY OrderFacts
<1>2. k \in Nat /\ k <= n
  BY <1>1
<1>3. ASSUME NEW j \in 1 .. n PROVE Breaks(q, j, count) <=> (j = 1 /\ count = 0)
  <2>1. q[j].ts \in 1 .. MaxTime
    BY <1>1
  <2>2. CASE j = 1
    <3>1. LastOf(q, j - 1) = 0 /\ j - 1 = 0
      BY <2>2 DEF LastOf
    <3>2. q[j].ts > 0
      BY <2>1, EventDBAssumption
    <3>3. Breaks(q, j, count) <=> 0 >= count
      BY <3>1, <3>2 DEF Breaks
    <3>4. 0 >= count <=> count = 0
      OBVIOUS
    <3> QED
      BY <2>2, <3>3, <3>4
  <2>3. CASE j # 1
    <3>1. j - 1 \in 1 .. n /\ j - 1 # 0 /\ j - 1 < j
      BY <1>1, <2>3
    <3>2. ~ (q[j - 1].ts < q[j].ts)
      BY <1>1, <3>1 DEF Before
    <3>3. q[j - 1].ts \in 1 .. MaxTime
      BY <1>1, <3>1
    <3>4. ~ (q[j].ts > q[j - 1].ts)
      BY <2>1, <3>2, <3>3, EventDBAssumption
    <3> QED
      BY <2>3, <3>1, <3>4 DEF Breaks, LastOf
  <2> QED
    BY <2>2, <2>3
<1>4. CASE count = 0
  <2>1. k = 0
    <3> SUFFICES ASSUME k # 0 PROVE FALSE
      OBVIOUS
    <3>1. 1 \in 1 .. k /\ 1 \in 1 .. n
      BY <1>1, <1>2
    <3> QED
      BY <1>3, <1>4, <3>1
  <2>2. 1 .. 0 = {}
    OBVIOUS
  <2> QED
    BY <1>4, <2>1, <2>2 DEF Taken
<1>5. CASE count # 0
  <2>1. k = n
    <3> SUFFICES ASSUME k # n PROVE FALSE
      OBVIOUS
    <3>1. k < n /\ k + 1 \in 1 .. n
      BY <1>1, <1>2
    <3> QED
      BY <1>3, <1>5, <3>1
  <2>2. count > 0
    BY <1>5
  <2> QED
    BY <1>1, <2>1, <2>2 DEF Taken
<1> QED
  BY <1>4, <1>5

(***************************************************************************)
(* The loop of getEvents passes on the rows that the model's getEvents     *)
(* names, whatever order rows of one millisecond come in, for every table, *)
(* every query time, both directions and every limit.                      *)
(***************************************************************************)
THEOREM LoopPassesOnThePage == EventDBSpec => []LoopAgrees
PROOF
<1>1. ASSUME db \in SUBSET Row, IsFiniteSet(db),
             NEW t \in QueryTimes, NEW f \in Directions, NEW n \in Counts,
             NEW q \in Orders(Select(db, t, f), f)
      PROVE  Range(GetEventsLoop(q, n)) = getEvents(db, t, f, n)
  <2> DEFINE S == Select(db, t, f)
  <2>1. t \in Int /\ n \in Nat /\ f \in Int
    BY ArgumentsAreInt
  <2>2. S \in SUBSET Row /\ IsFiniteSet(S)
    BY <1>1, FS_Subset DEF Select
  <2> HIDE DEF S
  <2>3. q \in Orders(S, f) /\ q \in Seq(Row)
    BY <2>1, <2>2, OrderFacts DEF S
  <2>4. PICK k \in 0 .. Len(q) :
           /\ Range(GetEventsLoop(q, n)) = Taken(q, k)
           /\ k < Len(q) => Breaks(q, k + 1, n)
           /\ \A j \in 1 .. k : ~ Breaks(q, j, n)
    BY <2>1, <2>3, LoopEnds
  <2>5. CASE f >= 0
    <3>1. Taken(q, k) = EarlyRows(S, n)
      BY <2>1, <2>2, <2>3, <2>4, <2>5, TakenForward
    <3> QED
      BY <2>4, <2>5, <3>1 DEF getEvents, EarlyRows, S
  <2>6. CASE ~ (f >= 0)
    <3>1. Taken(q, k) = {r \in S : n > 0}
      BY <2>1, <2>2, <2>3, <2>4, <2>6, TakenReverse
    <3> QED
      BY <2>4, <2>6, <3>1 DEF getEvents, S
  <2> QED
    BY <2>5, <2>6
<1>2. db \in SUBSET Row /\ IsFiniteSet(db) => LoopAgrees
  BY <1>1 DEF LoopAgrees
<1> QED
  BY <1>2, TableInvariance, PTL

-----------------------------------------------------------------------------
(***************************************************************************)
(* Paging.  The recursion of PagesFrom ends because each page's last       *)
(* timestamp is further in the direction of playback than the time it was  *)
(* asked for from: Rank is how far it is to the end of the times.          *)
(***************************************************************************)
PageTimes == QueryTimes \union Times

Rank(t, f) == IF f >= 0 THEN MaxTime - t ELSE t

\* The pages from t on, when g holds those from every later time on.
PagesStep(g, t, f, n) ==
  LET page == getEvents(db, t, f, n)
  IN IF page = {} THEN <<>> ELSE <<page>> \o g[LastTs(page, f)]

PagesOn(g, f, n, k) ==
  \A t \in PageTimes : Rank(t, f) < k => g[t] = PagesStep(g, t, f, n)

(* Times are between 0 and the largest one, and so is their distance.      *)
LEMMA PageTimesBounded ==
  ASSUME NEW t \in PageTimes, NEW f \in Int
  PROVE  t \in 0 .. MaxTime /\ t \in Int /\ Rank(t, f) \in 0 .. MaxTime /\ Rank(t, f) \in Nat
PROOF
<1>1. t \in 0 .. MaxTime /\ MaxTime \in Nat
  BY EventDBAssumption, ReferenceAssumption DEF PageTimes
<1> QED
  BY <1>1 DEF Rank

(* The last timestamp of a page is one, after the time asked for.          *)
LEMMA PageAdvances ==
  ASSUME db \in SUBSET Row, NEW t \in PageTimes, NEW f \in Int, NEW n \in Nat,
         getEvents(db, t, f, n) # {}
  PROVE  /\ LastTs(getEvents(db, t, f, n), f) \in PageTimes
         /\ Before(t, LastTs(getEvents(db, t, f, n), f), f)
         /\ \A r \in getEvents(db, t, f, n) : ~ Before(LastTs(getEvents(db, t, f, n), f), r.ts, f)
         /\ Rank(LastTs(getEvents(db, t, f, n), f), f) < Rank(t, f)
PROOF
<1> DEFINE page == getEvents(db, t, f, n)
           last == LastTs(page, f)
<1>1. t \in Int
  BY PageTimesBounded
<1>2. page \in SUBSET Row /\ page # {} /\ page \subseteq Select(db, t, f)
  BY <1>1, GetEventsSelects
<1> HIDE DEF page
<1>3. last \in Stamps(page) /\ \A r \in page : ~ Before(last, r.ts, f)
  BY <1>2, LastTsProperties
<1> HIDE DEF last
<1>4. PICK p \in page : last = p.ts
  BY <1>3 DEF Stamps
<1>5. Before(t, last, f)
  BY <1>2, <1>4 DEF Select
<1>6. p \in Row
  BY <1>2
<1>7. last \in Times /\ last \in Int
  BY <1>4, <1>6, RowTime
<1>8. last \in PageTimes
  BY <1>7 DEF PageTimes
<1>9. MaxTime \in Int
  BY EventDBAssumption
<1>10. Rank(last, f) < Rank(t, f)
  BY <1>1, <1>5, <1>7, <1>9 DEF Rank, Before
<1> QED
  BY <1>3, <1>5, <1>8, <1>10 DEF page, last

(* With a limit above 0 a query is empty only when nothing is selected:    *)
(* the rows of the smallest timestamp have no earlier row.                 *)
LEMMA EmptyPage ==
  ASSUME db \in SUBSET Row, NEW t \in Int, NEW f \in Int, NEW n \in Nat \ {0},
         getEvents(db, t, f, n) = {}
  PROVE  Select(db, t, f) = {}
PROOF
<1> DEFINE S == Select(db, t, f)
<1> SUFFICES ASSUME S # {} PROVE FALSE
  OBVIOUS
<1>1. S \in SUBSET Row
  BY DEF Select
<1>2. PICK r \in S : \A x \in S : ~ (x.ts < r.ts)
  <2> HIDE DEF S
  <2>1. FirstTs(S, 1) \in Stamps(S) /\ \A x \in S : ~ Before(x.ts, FirstTs(S, 1), 1)
    BY <1>1, FirstTsProperties
  <2>2. PICK r \in S : r.ts = FirstTs(S, 1)
    BY <2>1 DEF Stamps
  <2> QED
    BY <2>1, <2>2 DEF Before
<1>3. Cardinality({x \in S : x.ts < r.ts}) = 0
  <2>1. {x \in S : x.ts < r.ts} = {}
    BY <1>2
  <2> QED
    BY <2>1, FS_EmptySet
<1>4. r \in getEvents(db, t, f, n)
  <2>1. 0 < n
    OBVIOUS
  <2> QED
    BY <1>3, <2>1 DEF getEvents
<1> QED
  BY <1>4

(* PagesFrom's function exists, and is what its definition says: shown for *)
(* the times at most k from the end, from one k to the next.               *)
LEMMA PagesExist ==
  ASSUME db \in SUBSET Row, NEW f \in Int, NEW n \in Nat
  PROVE  \E g : /\ g = [t \in PageTimes |-> PagesStep(g, t, f, n)]
PROOF
<1> DEFINE A == {k \in Nat : \E g : g = [t \in PageTimes |-> g[t]] /\ PagesOn(g, f, n, k)}
<1>1. 0 \in A
  <2> DEFINE g == [t \in PageTimes |-> 0]
  <2>1. g = [t \in PageTimes |-> g[t]]
    OBVIOUS
  <2> HIDE DEF g
  <2>2. PagesOn(g, f, n, 0)
    <3> SUFFICES ASSUME NEW t \in PageTimes, Rank(t, f) < 0 PROVE FALSE
      BY DEF PagesOn
    <3>1. Rank(t, f) \in Nat
      BY PageTimesBounded
    <3> QED
      BY <3>1
  <2> QED
    BY <2>1, <2>2
<1>2. ASSUME NEW k \in A PROVE k + 1 \in A
  <2>1. PICK g : g = [t \in PageTimes |-> g[t]] /\ PagesOn(g, f, n, k)
    OBVIOUS
  <2>2. k \in Nat
    OBVIOUS
  <2> DEFINE h == [t \in PageTimes |-> IF Rank(t, f) = k THEN PagesStep(g, t, f, n) ELSE g[t]]
  <2>3. h = [t \in PageTimes |-> h[t]]
    OBVIOUS
  <2>4. \A t \in PageTimes : h[t] = IF Rank(t, f) = k THEN PagesStep(g, t, f, n) ELSE g[t]
    OBVIOUS
  <2> HIDE DEF h
  <2>5. PagesOn(h, f, n, k + 1)
    <3> SUFFICES ASSUME NEW t \in PageTimes, Rank(t, f) < k + 1
                 PROVE  h[t] = PagesStep(h, t, f, n)
      BY DEF PagesOn
    <3> DEFINE page == getEvents(db, t, f, n)
    <3>1. Rank(t, f) \in Nat
      BY PageTimesBounded
    <3>2. h[t] = PagesStep(g, t, f, n)
      <4>1. CASE Rank(t, f) = k
        BY <2>4, <4>1
      <4>2. CASE Rank(t, f) # k
        <5>1. Rank(t, f) < k
          BY <2>2, <3>1, <4>2
        <5>2. h[t] = g[t]
          BY <2>4, <4>2
        <5>3. g[t] = PagesStep(g, t, f, n)
          BY <2>1, <5>1 DEF PagesOn
        <5> QED
          BY <5>2, <5>3
      <4> QED
        BY <4>1, <4>2
    <3>3. page # {} => h[LastTs(page, f)] = g[LastTs(page, f)]
      <4> SUFFICES ASSUME page # {} PROVE h[LastTs(page, f)] = g[LastTs(page, f)]
        OBVIOUS
      <4>1. LastTs(page, f) \in PageTimes /\ Rank(LastTs(page, f), f) < Rank(t, f)
        BY PageAdvances
      <4> DEFINE last == LastTs(page, f)
      <4> HIDE DEF page, last
      <4>2. Rank(last, f) \in Nat
        BY <4>1, PageTimesBounded DEF last
      <4>3. Rank(last, f) # k
        BY <2>2, <3>1, <4>1, <4>2 DEF last
      <4> QED
        BY <2>4, <4>1, <4>3 DEF last
    <3> HIDE DEF page
    <3>4. PagesStep(h, t, f, n) = PagesStep(g, t, f, n)
      BY <3>3 DEF PagesStep, page
    <3> QED
      BY <3>2, <3>4
  <2>6. k + 1 \in Nat
    BY <2>2
  <2> QED
    BY <2>3, <2>5, <2>6
<1>3. MaxTime + 1 \in Nat
  BY EventDBAssumption
<1>4. MaxTime + 1 \in A
  <2> HIDE DEF A
  <2>1. A \in SUBSET Nat
    BY DEF A
  <2> QED
    BY <1>1, <1>2, <1>3, <2>1, NatSetInduction
<1>5. PICK g : g = [t \in PageTimes |-> g[t]] /\ PagesOn(g, f, n, MaxTime + 1)
  BY <1>4
<1>6. \A t \in PageTimes : g[t] = PagesStep(g, t, f, n)
  <2> SUFFICES ASSUME NEW t \in PageTimes PROVE g[t] = PagesStep(g, t, f, n)
    OBVIOUS
  <2>1. Rank(t, f) \in 0 .. MaxTime
    BY PageTimesBounded
  <2>2. Rank(t, f) < MaxTime + 1
    BY <2>1, EventDBAssumption
  <2> QED
    BY <1>5, <2>2 DEF PagesOn
<1>7. g = [t \in PageTimes |-> PagesStep(g, t, f, n)]
  BY <1>5, <1>6
<1> QED
  BY <1>7

(* So the pages from a time on are the first one and those that follow it. *)
LEMMA PagesFromRec ==
  ASSUME db \in SUBSET Row, NEW f \in Int, NEW n \in Nat, NEW t \in PageTimes
  PROVE  PagesFrom(t, f, n) =
           LET page == getEvents(db, t, f, n)
           IN IF page = {} THEN <<>> ELSE <<page>> \o PagesFrom(LastTs(page, f), f, n)
PROOF
<1> DEFINE P == CHOOSE g : g = [u \in QueryTimes \union Times |->
                  LET page == getEvents(db, u, f, n)
                  IN IF page = {} THEN <<>> ELSE <<page>> \o g[LastTs(page, f)]]
<1>1. PICK g : g = [u \in PageTimes |-> PagesStep(g, u, f, n)]
  BY PagesExist
<1>2. g = [u \in QueryTimes \union Times |->
              LET page == getEvents(db, u, f, n)
              IN IF page = {} THEN <<>> ELSE <<page>> \o g[LastTs(page, f)]]
  BY <1>1 DEF PageTimes, PagesStep
<1>3. P = [u \in QueryTimes \union Times |->
              LET page == getEvents(db, u, f, n)
              IN IF page = {} THEN <<>> ELSE <<page>> \o P[LastTs(page, f)]]
  BY <1>2
<1>4. \A u : PagesFrom(u, f, n) = P[u]
  BY DEF PagesFrom
<1> HIDE DEF P
<1>5. P[t] = LET page == getEvents(db, t, f, n)
             IN IF page = {} THEN <<>> ELSE <<page>> \o P[LastTs(page, f)]
  BY <1>3 DEF PageTimes
<1> QED
  BY <1>4, <1>5

-----------------------------------------------------------------------------
(***************************************************************************)
(* What the pages from t on are: the selected rows, in playback order.     *)
(***************************************************************************)
Partition(pages, t, f) ==
  /\ pages \in Seq(SUBSET Row)
  /\ UNION Range(pages) = Select(db, t, f)
  /\ \A i, j \in DOMAIN pages :
       i < j => \A r \in pages[i], s \in pages[j] : Before(r.ts, s.ts, f)

(* Nothing selected, no page.                                              *)
LEMMA NoPages ==
  ASSUME NEW t, NEW f, Select(db, t, f) = {}
  PROVE  Partition(<<>>, t, f)
PROOF
<1>1. <<>> \in Seq(SUBSET Row) /\ Len(<<>>) = 0
  BY EmptySeq
<1>2. DOMAIN <<>> = {}
  OBVIOUS
<1> QED
  BY <1>1, <1>2 DEF Partition, Range

(* What a page in front of others adds to them.                            *)
LEMMA PageInFront ==
  ASSUME NEW page \in SUBSET Row, NEW rest \in Seq(SUBSET Row)
  PROVE  /\ <<page>> \o rest \in Seq(SUBSET Row)
         /\ DOMAIN (<<page>> \o rest) = 1 .. Len(rest) + 1 /\ Len(rest) \in Nat
         /\ DOMAIN rest = 1 .. Len(rest)
         /\ (<<page>> \o rest)[1] = page
         /\ \A i \in 2 .. Len(rest) + 1 : (<<page>> \o rest)[i] = rest[i - 1]
         /\ UNION Range(<<page>> \o rest) = page \union UNION Range(rest)
PROOF
<1> DEFINE one == <<page>>
           all == one \o rest
<1>1. one \in Seq(SUBSET Row) /\ Len(one) = 1 /\ one[1] = page
  OBVIOUS
<1> HIDE DEF one
<1>2. /\ all \in Seq(SUBSET Row) /\ Len(all) = Len(one) + Len(rest)
      /\ \A i \in 1 .. Len(one) + Len(rest) :
           all[i] = IF i <= Len(one) THEN one[i] ELSE rest[i - Len(one)]
  BY <1>1, ConcatProperties
<1> HIDE DEF all
<1>3. Len(rest) \in Nat /\ DOMAIN rest = 1 .. Len(rest)
  BY LenProperties
<1>4. Len(all) = Len(rest) + 1
  BY <1>1, <1>2, <1>3
<1>5. DOMAIN all = 1 .. Len(rest) + 1
  BY <1>2, <1>4, LenProperties
<1>6. \A i \in 1 .. 1 + Len(rest) : all[i] = IF i <= 1 THEN one[i] ELSE rest[i - 1]
  BY <1>1, <1>2
<1>7. all[1] = page
  <2>1. 1 \in 1 .. 1 + Len(rest) /\ 1 <= 1
    BY <1>3
  <2> QED
    BY <1>1, <1>6, <2>1
<1>8. ASSUME NEW i \in 2 .. Len(rest) + 1 PROVE all[i] = rest[i - 1]
  <2>1. i \in 1 .. 1 + Len(rest) /\ ~ (i <= 1)
    BY <1>3
  <2> QED
    BY <1>6, <2>1
<1>9. UNION Range(all) = page \union UNION Range(rest)
  <2>1. ASSUME NEW i \in DOMAIN all PROVE all[i] = page \/ all[i] \in Range(rest)
    <3>1. i = 1 \/ i \in 2 .. Len(rest) + 1
      BY <1>3, <1>5
    <3>2. CASE i = 1
      BY <1>7, <3>2
    <3>3. CASE i \in 2 .. Len(rest) + 1
      <4>1. i - 1 \in 1 .. Len(rest)
        BY <1>3, <3>3
      <4> QED
        BY <1>3, <1>8, <3>3, <4>1 DEF Range
    <3> QED
      BY <3>1, <3>2, <3>3
  <2>2. page \in Range(all)
    <3>1. 1 \in DOMAIN all
      BY <1>3, <1>5
    <3> QED
      BY <1>7, <3>1 DEF Range
  <2>3. ASSUME NEW i \in DOMAIN rest PROVE rest[i] \in Range(all)
    <3>1. i + 1 \in 2 .. Len(rest) + 1 /\ i + 1 \in 1 .. Len(rest) + 1 /\ (i + 1) - 1 = i
      BY <1>3
    <3>2. all[i + 1] = rest[i]
      <4>1. all[i + 1] = rest[(i + 1) - 1]
        BY <1>8, <3>1
      <4> QED
        BY <3>1, <4>1
    <3> QED
      BY <1>5, <3>1, <3>2 DEF Range
  <2>4. Range(all) = {page} \union Range(rest)
    BY <2>1, <2>2, <2>3 DEF Range
  <2> QED
    BY <2>4
<1> QED
  BY <1>2, <1>3, <1>5, <1>7, <1>8, <1>9 DEF all, one

(* A page in front of those after its last timestamp.                      *)
LEMMA PartitionGrows ==
  ASSUME db \in SUBSET Row, IsFiniteSet(db),
         NEW t \in PageTimes, NEW f \in Int, NEW n \in Nat,
         getEvents(db, t, f, n) # {},
         NEW rest, Partition(rest, LastTs(getEvents(db, t, f, n), f), f)
  PROVE  Partition(<<getEvents(db, t, f, n)>> \o rest, t, f)
PROOF
<1> DEFINE page == getEvents(db, t, f, n)
           last == LastTs(page, f)
           all == <<page>> \o rest
<1>1. t \in Int
  BY PageTimesBounded
<1>2. page \in SUBSET Row /\ page \subseteq Select(db, t, f)
  BY <1>1, GetEventsSelects
<1>3. /\ last \in PageTimes /\ Before(t, last, f)
      /\ \A r \in page : ~ Before(last, r.ts, f)
  BY PageAdvances
<1>4. last \in Int
  <2> HIDE DEF last
  <2> QED
    BY <1>3, PageTimesBounded
<1>5. /\ rest \in Seq(SUBSET Row)
      /\ UNION Range(rest) = Select(db, last, f)
      /\ \A i, j \in DOMAIN rest :
           i < j => \A r \in rest[i], s \in rest[j] : Before(r.ts, s.ts, f)
  BY DEF Partition
<1>6. ASSUME NEW r \in Select(db, t, f), ~ Before(last, r.ts, f) PROVE r \in page
  BY <1>1, <1>6, GetEventsCovers
<1> HIDE DEF page
<1> HIDE DEF last
<1>7. /\ all \in Seq(SUBSET Row)
      /\ DOMAIN all = 1 .. Len(rest) + 1 /\ Len(rest) \in Nat
      /\ DOMAIN rest = 1 .. Len(rest)
      /\ all[1] = page
      /\ \A i \in 2 .. Len(rest) + 1 : all[i] = rest[i - 1]
      /\ UNION Range(all) = page \union UNION Range(rest)
  BY <1>2, <1>5, PageInFront
<1> HIDE DEF all
<1>8. \A r \in db : r.ts \in Int
  <2> SUFFICES ASSUME NEW r \in db PROVE r.ts \in Int
    OBVIOUS
  <2>1. r \in Row
    OBVIOUS
  <2> QED
    BY <2>1, RowTime
<1>9. UNION Range(all) = Select(db, t, f)
  <2>1. Select(db, last, f) \subseteq Select(db, t, f)
    <3> SUFFICES ASSUME NEW r \in db, Before(last, r.ts, f) PROVE Before(t, r.ts, f)
      BY DEF Select
    <3> QED
      BY <1>1, <1>3, <1>4, <1>8 DEF Before
  <2>2. Select(db, t, f) \subseteq page \union Select(db, last, f)
    <3> SUFFICES ASSUME NEW r \in Select(db, t, f), r \notin page PROVE r \in Select(db, last, f)
      OBVIOUS
    <3> QED
      BY <1>6 DEF Select
  <2> QED
    BY <1>2, <1>5, <1>7, <2>1, <2>2
<1>10. ASSUME NEW i \in DOMAIN all, NEW j \in DOMAIN all, i < j,
              NEW r \in all[i], NEW s \in all[j]
       PROVE  Before(r.ts, s.ts, f)
  <2>1. j \in 2 .. Len(rest) + 1 /\ j - 1 \in DOMAIN rest /\ i \in 1 .. Len(rest) + 1
    BY <1>7, <1>10
  <2>2. s \in rest[j - 1]
    BY <1>7, <1>10, <2>1
  <2>3. CASE i = 1
    <3>1. r \in page
      BY <1>7, <1>10, <2>3
    <3>2. rest[j - 1] \in Range(rest)
      BY <2>1 DEF Range
    <3>3. s \in Select(db, last, f)
      BY <1>5, <2>2, <3>2
    <3>4. s \in db /\ r \in db /\ Before(last, s.ts, f)
      BY <1>2, <3>1, <3>3 DEF Select
    <3>5. ~ Before(last, r.ts, f)
      BY <1>3, <3>1
    <3>6. s.ts \in Int /\ r.ts \in Int
      BY <1>8, <3>4
    <3> QED
      BY <1>4, <3>4, <3>5, <3>6 DEF Before
  <2>4. CASE i # 1
    <3>1. i \in 2 .. Len(rest) + 1 /\ i - 1 \in DOMAIN rest /\ i - 1 < j - 1
      BY <1>7, <1>10, <2>1, <2>4
    <3>2. r \in rest[i - 1]
      BY <1>7, <1>10, <3>1
    <3> QED
      BY <1>5, <2>1, <2>2, <3>1, <3>2
  <2> QED
    BY <2>3, <2>4
<1>11. Partition(all, t, f)
  BY <1>7, <1>9, <1>10 DEF Partition
<1> QED
  BY <1>11 DEF all, page

(* Every time's pages partition what is selected after it: shown for the   *)
(* times at most k from the end, from one k to the next.                   *)
LEMMA PagesPartition ==
  ASSUME db \in SUBSET Row, IsFiniteSet(db), NEW f \in Int, NEW n \in Nat \ {0},
         NEW t \in PageTimes
  PROVE  Partition(PagesFrom(t, f, n), t, f)
PROOF
<1> DEFINE A == {k \in Nat : \A u \in PageTimes :
                   Rank(u, f) < k => Partition(PagesFrom(u, f, n), u, f)}
<1>1. 0 \in A
  <2> SUFFICES ASSUME NEW u \in PageTimes, Rank(u, f) < 0 PROVE FALSE
    OBVIOUS
  <2>1. Rank(u, f) \in Nat
    BY PageTimesBounded
  <2> QED
    BY <2>1
<1>2. ASSUME NEW k \in A PROVE k + 1 \in A
  <2>1. k \in Nat /\ \A u \in PageTimes : Rank(u, f) < k => Partition(PagesFrom(u, f, n), u, f)
    OBVIOUS
  <2>2. ASSUME NEW u \in PageTimes, Rank(u, f) < k + 1
        PROVE  Partition(PagesFrom(u, f, n), u, f)
    <3> DEFINE page == getEvents(db, u, f, n)
               last == LastTs(page, f)
    <3>1. PagesFrom(u, f, n) = IF page = {} THEN <<>> ELSE <<page>> \o PagesFrom(last, f, n)
      BY PagesFromRec
    <3>2. u \in Int /\ Rank(u, f) \in Nat
      BY PageTimesBounded
    <3>3. CASE page = {}
      <4>1. Select(db, u, f) = {}
        BY <3>2, <3>3, EmptyPage
      <4> HIDE DEF page
      <4> QED
        BY <3>1, <3>3, <4>1, NoPages
    <3>4. CASE page # {}
      <4>1. last \in PageTimes /\ Rank(last, f) < Rank(u, f)
        BY <3>4, PageAdvances
      <4> HIDE DEF last
      <4>2. Rank(last, f) \in Nat
        BY <4>1, PageTimesBounded
      <4>3. Rank(last, f) < k
        BY <2>1, <2>2, <3>2, <4>1, <4>2
      <4>4. Partition(PagesFrom(last, f, n), last, f)
        BY <2>1, <4>1, <4>3
      <4>5. Partition(<<page>> \o PagesFrom(last, f, n), u, f)
        BY <3>4, <4>4, PartitionGrows DEF last
      <4> HIDE DEF page
      <4> QED
        BY <3>1, <3>4, <4>5
    <3> QED
      BY <3>3, <3>4
  <2>3. k + 1 \in Nat
    BY <2>1
  <2> QED
    BY <2>2, <2>3
<1>3. MaxTime + 1 \in Nat
  BY EventDBAssumption
<1>4. MaxTime + 1 \in A
  <2> HIDE DEF A
  <2>1. A \in SUBSET Nat
    BY DEF A
  <2> QED
    BY <1>1, <1>2, <1>3, <2>1, NatSetInduction
<1>5. Rank(t, f) < MaxTime + 1
  <2>1. Rank(t, f) \in 0 .. MaxTime
    BY PageTimesBounded
  <2> QED
    BY <2>1, EventDBAssumption
<1> QED
  BY <1>4, <1>5

(***************************************************************************)
(* Paging through the table, from any time, in either direction and with   *)
(* any limit above 0, passes on every selected row exactly once and in     *)
(* playback order: what ReplayState::run relies on when it starts each     *)
(* query from the last timestamp of the page before.                       *)
(***************************************************************************)
THEOREM PagingIsComplete == EventDBSpec => []PagingLosesNothing
PROOF
<1>1. ASSUME db \in SUBSET Row, IsFiniteSet(db),
             NEW t \in QueryTimes, NEW f \in Directions, NEW n \in Counts \ {0}
      PROVE  LET pages == PagesFrom(t, f, n)
             IN /\ UNION Range(pages) = Select(db, t, f)
                /\ \A i, j \in DOMAIN pages :
                     i < j => \A r \in pages[i], s \in pages[j] : Before(r.ts, s.ts, f)
  <2>1. f \in Int /\ n \in Nat \ {0} /\ t \in PageTimes
    BY ArgumentsAreInt DEF PageTimes
  <2>2. Partition(PagesFrom(t, f, n), t, f)
    BY <1>1, <2>1, PagesPartition
  <2> QED
    BY <2>2 DEF Partition
<1>2. db \in SUBSET Row /\ IsFiniteSet(db) => PagingLosesNothing
  BY <1>1 DEF PagingLosesNothing
<1> QED
  BY <1>2, TableInvariance, PTL
=============================================================================
