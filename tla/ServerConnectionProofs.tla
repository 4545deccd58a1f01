----------------------- MODULE ServerConnectionProofs -----------------------
(***************************************************************************)
(* Proofs about a connection of watcherd, for any messages, filters and    *)
(* sizes of the socket.                                                    *)
(***************************************************************************)
EXTENDS ServerConnection, Integers, FiniteSets, FiniteSetTheorems, SequenceTheorems,
        WellFoundedInduction, TLAPS

(* A finite nonempty set of integers has a smallest element: the subsets   *)
(* of the elements up to m, for each m, have a minimal one.                *)
LEMMA SmallestExists ==
  ASSUME NEW T \in SUBSET Int, IsFiniteSet(T), T # {}
  PROVE  \E m \in T : \A n \in T : m <= n
<1> DEFINE UpTo(m) == {n \in T : n <= m}
           Family == {UpTo(m) : m \in T}
<1>1. IsWellFoundedOn(StrictSubsetOrdering(T), SUBSET T)
  BY FS_StrictSubsetOrderingWellFounded, FS_FiniteSubsetsOfFinite
<1>2. Family \subseteq SUBSET T /\ Family # {}
  OBVIOUS
<1> HIDE DEF Family
<1>3. PICK D \in Family : \A E \in Family : ~ (<<E, D>> \in StrictSubsetOrdering(T))
  BY <1>1, <1>2, WFMin
<1>4. PICK m \in T : D = UpTo(m)
  BY <1>3 DEF Family
<1>5. ASSUME NEW n \in T, n < m PROVE FALSE
  <2>1. UpTo(n) \in Family
    BY DEF Family
  <2> n \in Int /\ m \in Int
    OBVIOUS
  <2>2. UpTo(n) \subseteq UpTo(m) /\ m \in UpTo(m) /\ m \notin UpTo(n)
    <3>1. ASSUME NEW k \in UpTo(n) PROVE k \in UpTo(m)
      <4>1. k \in T /\ k \in Int /\ k <= n
        OBVIOUS
      <4> QED
        BY <4>1, <1>5
    <3>2. m \in UpTo(m)
      OBVIOUS
    <3>3. m \notin UpTo(n)
      BY <1>5
    <3> QED
      BY <3>1, <3>2, <3>3
  <2>3. <<UpTo(n), D>> \in StrictSubsetOrdering(T)
    BY <2>2, <1>4 DEF StrictSubsetOrdering
  <2> QED
    BY <2>1, <2>3, <1>3
<1> QED
  BY <1>5

(* Induction, over a set: a set that has 0, and n + 1 with each n, has     *)
(* every natural number; a smallest one that it misses is not 0.           *)
LEMMA NatSetInduction ==
  ASSUME NEW A \in SUBSET Nat, 0 \in A, \A n \in A : n + 1 \in A
  PROVE  \A n \in Nat : n \in A
PROOF
<1> SUFFICES ASSUME NEW n \in Nat, n \notin A PROVE FALSE
  OBVIOUS
<1> DEFINE Missing == {m \in 0 .. n : m \notin A}
<1>1. IsFiniteSet(Missing)
  <2>1. IsFiniteSet(0 .. n)
    BY FS_Interval
  <2> QED
    BY <2>1, FS_Subset
<1>2. Missing \in SUBSET Int /\ Missing # {}
  OBVIOUS
<1>3. PICK m \in Missing : \A i \in Missing : m <= i
  <2> HIDE DEF Missing
  <2> QED
    BY <1>1, <1>2, SmallestExists
<1>4. m # 0 /\ m - 1 \in 0 .. n /\ m - 1 \notin Missing
  BY <1>3
<1>5. m - 1 \in A /\ (m - 1) + 1 = m
  BY <1>4
<1> QED
  BY <1>5

(***************************************************************************)
(* What FlattenSeq is made of: the first k sequences of s, one after       *)
(* another, for each k.                                                    *)
(***************************************************************************)
Flat(s) == CHOOSE f : f = [i \in 1 .. Len(s) |-> IF i = 1 THEN s[i] ELSE f[i-1] \o s[i]]

\* The first n values of g are the first so many sequences of s.
FlatOn(g, s, n) ==
  /\ n > 0 => g[1] = s[1]
  /\ \A i \in Nat : 0 < i /\ i < n => g[i + 1] = g[i] \o s[i + 1]

(* The two ways to say what g is.                                         *)
LEMMA FlatRec ==
  ASSUME NEW s, NEW n \in Nat, NEW g
  PROVE  /\ g = [i \in 1 .. n |-> IF i = 1 THEN s[i] ELSE g[i-1] \o s[i]] => FlatOn(g, s, n)
         /\ DOMAIN g = 1 .. n /\ g = [i \in 1 .. n |-> g[i]] /\ FlatOn(g, s, n) =>
              g = [i \in 1 .. n |-> IF i = 1 THEN s[i] ELSE g[i-1] \o s[i]]
PROOF
<1>1. ASSUME g = [i \in 1 .. n |-> IF i = 1 THEN s[i] ELSE g[i-1] \o s[i]] PROVE FlatOn(g, s, n)
  <2>1. ASSUME n > 0 PROVE g[1] = s[1]
    BY <1>1, <2>1
  <2>2. ASSUME NEW i \in Nat, 0 < i, i < n PROVE g[i + 1] = g[i] \o s[i + 1]
    <3>1. i + 1 \in 1 .. n /\ i + 1 # 1 /\ (i + 1) - 1 = i
      BY <2>2
    <3>2. g[i + 1] = IF i + 1 = 1 THEN s[i + 1] ELSE g[(i + 1) - 1] \o s[i + 1]
      BY <1>1, <3>1
    <3> QED
      BY <3>1, <3>2
  <2> QED
    BY <2>1, <2>2 DEF FlatOn
<1>2. ASSUME g = [i \in 1 .. n |-> g[i]], FlatOn(g, s, n)
      PROVE  g = [i \in 1 .. n |-> IF i = 1 THEN s[i] ELSE g[i-1] \o s[i]]
  <2>1. ASSUME NEW i \in 1 .. n PROVE g[i] = IF i = 1 THEN s[i] ELSE g[i-1] \o s[i]
    <3>1. CASE i = 1
      BY <1>2, <3>1 DEF FlatOn
    <3>2. CASE i # 1
      <4>1. i - 1 \in Nat /\ 0 < i - 1 /\ i - 1 < n /\ (i - 1) + 1 = i
        BY <3>2
      <4>2. g[(i - 1) + 1] = g[i - 1] \o s[(i - 1) + 1]
        BY <1>2, <4>1 DEF FlatOn
      <4> QED
        BY <3>2, <4>1, <4>2
    <3> QED
      BY <3>1, <3>2
  <2> QED
    BY <1>2, <2>1
<1> QED
  BY <1>1, <1>2

(* There is such a function, step by step, and there is no other.          *)
LEMMA FlatExists ==
  ASSUME NEW S, NEW s \in Seq(Seq(S))
  PROVE  /\ Flat(s) \in [1 .. Len(s) -> Seq(S)]
         /\ FlatOn(Flat(s), s, Len(s))
PROOF
<1> DEFINE A == {n \in Nat : n <= Len(s) => \E g \in [1 .. n -> Seq(S)] : FlatOn(g, s, n)}
<1>1. 0 \in A
  <2>1. [i \in 1 .. 0 |-> <<>>] \in [1 .. 0 -> Seq(S)]
    OBVIOUS
  <2>2. FlatOn([i \in 1 .. 0 |-> <<>>], s, 0)
    BY DEF FlatOn
  <2> QED
    BY <2>1, <2>2
<1>2. ASSUME NEW n \in A PROVE n + 1 \in A
  <2> SUFFICES ASSUME n + 1 <= Len(s)
               PROVE  \E g \in [1 .. n + 1 -> Seq(S)] : FlatOn(g, s, n + 1)
    OBVIOUS
  <2>1. PICK g \in [1 .. n -> Seq(S)] : FlatOn(g, s, n)
    OBVIOUS
  <2> DEFINE last == IF n = 0 THEN s[1] ELSE g[n] \o s[n + 1]
             h == [i \in 1 .. n + 1 |-> IF i = n + 1 THEN last ELSE g[i]]
  <2>2. last \in Seq(S)
    <3>1. s[n + 1] \in Seq(S)
      OBVIOUS
    <3>2. CASE n = 0
      BY <3>1, <3>2
    <3>3. CASE n # 0
      BY <3>1, <3>3
    <3> QED
      BY <3>2, <3>3
  <2>3. h \in [1 .. n + 1 -> Seq(S)]
    BY <2>2
  <2>4. FlatOn(h, s, n + 1)
    <3>0. n \in Nat
      OBVIOUS
    <3>1. ASSUME NEW i \in 1 .. n PROVE h[i] = g[i]
      <4>1. i \in 1 .. n + 1 /\ i # n + 1
        BY <3>0
      <4> HIDE DEF last
      <4> QED
        BY <4>1
    <3>2. h[n + 1] = last
      BY <3>0
    <3>3. n + 1 > 0 => h[1] = s[1]
      <4>1. CASE n = 0
        BY <3>2, <4>1
      <4>2. CASE n # 0
        BY <2>1, <3>1, <4>2 DEF FlatOn
      <4> QED
        BY <4>1, <4>2
    <3>4. ASSUME NEW i \in Nat, 0 < i, i < n + 1 PROVE h[i + 1] = h[i] \o s[i + 1]
      <4>1. CASE i = n
        <5>1. i \in 1 .. n /\ n # 0
          BY <3>4, <4>1
        <5> HIDE DEF h
        <5>2. h[i] = g[n] /\ h[i + 1] = last
          BY <3>1, <3>2, <4>1, <5>1
        <5> QED
          BY <4>1, <5>1, <5>2
      <4>2. CASE i # n
        <5>1. i < n /\ i \in 1 .. n /\ i + 1 \in 1 .. n
          BY <3>4, <4>2
        <5> HIDE DEF h
        <5> QED
          BY <2>1, <3>1, <3>4, <5>1 DEF FlatOn
      <4> QED
        BY <4>1, <4>2
    <3> HIDE DEF h
    <3> QED
      BY <3>3, <3>4 DEF FlatOn
  <2> QED
    BY <2>3, <2>4
<1>3. Len(s) \in A
  <2> HIDE DEF A
  <2>1. A \in SUBSET Nat
    BY DEF A
  <2>2. \A i \in Nat : i \in A
    BY <1>1, <1>2, <2>1, NatSetInduction
  <2>3. Len(s) \in Nat
    OBVIOUS
  <2> QED
    BY <2>2, <2>3
<1>4. PICK g \in [1 .. Len(s) -> Seq(S)] : FlatOn(g, s, Len(s))
  BY <1>3
<1>5. g = [i \in 1 .. Len(s) |-> IF i = 1 THEN s[i] ELSE g[i-1] \o s[i]]
  <2>1. Len(s) \in Nat /\ DOMAIN g = 1 .. Len(s) /\ g = [i \in 1 .. Len(s) |-> g[i]]
    OBVIOUS
  <2> HIDE DEF A
  <2> DEFINE m == Len(s)
  <2>2. m \in Nat /\ DOMAIN g = 1 .. m /\ g = [i \in 1 .. m |-> g[i]] /\ FlatOn(g, s, m)
    BY <1>4, <2>1
  <2> HIDE DEF m
  <2>3. g = [i \in 1 .. m |-> IF i = 1 THEN s[i] ELSE g[i-1] \o s[i]]
    BY <2>2, FlatRec
  <2> QED
    BY <2>3 DEF m
<1>6. Flat(s) = [i \in 1 .. Len(s) |-> IF i = 1 THEN s[i] ELSE Flat(s)[i-1] \o s[i]]
  BY <1>5 DEF Flat
<1>7. FlatOn(Flat(s), s, Len(s))
  <2>1. Len(s) \in Nat
    OBVIOUS
  <2> HIDE DEF A
  <2> QED
    BY <1>6, <2>1, FlatRec
<1> DEFINE B == {n \in Nat : n <= Len(s) => \A i \in 1 .. n : Flat(s)[i] = g[i]}
<1>8. 0 \in B
  OBVIOUS
<1>9. ASSUME NEW n \in B PROVE n + 1 \in B
  <2> SUFFICES ASSUME n + 1 <= Len(s) PROVE Flat(s)[n + 1] = g[n + 1]
    OBVIOUS
  <2>1. n \in Nat /\ (n > 0 => Flat(s)[n] = g[n])
    OBVIOUS
  <2> HIDE DEF B
  <2> QED
    <3>1. CASE n = 0
      BY <1>4, <1>7, <3>1 DEF FlatOn
    <3>2. CASE n # 0
      <4>1. n > 0 /\ n < Len(s)
        BY <2>1, <3>2
      <4> QED
        BY <1>4, <1>7, <2>1, <4>1 DEF FlatOn
    <3> QED
      BY <3>1, <3>2
<1>10. Len(s) \in B
  <2> HIDE DEF B
  <2>1. B \in SUBSET Nat
    BY DEF B
  <2>2. \A i \in Nat : i \in B
    BY <1>8, <1>9, <2>1, NatSetInduction
  <2>3. Len(s) \in Nat
    OBVIOUS
  <2> QED
    BY <2>2, <2>3
<1>11. Flat(s) = g
  <2>1. \A i \in 1 .. Len(s) : Flat(s)[i] = g[i]
    BY <1>10
  <2>2. Flat(s) = [i \in 1 .. Len(s) |-> Flat(s)[i]]
    BY <1>6
  <2>3. g = [i \in 1 .. Len(s) |-> g[i]]
    OBVIOUS
  <2> HIDE DEF B
  <2> QED
    BY <2>1, <2>2, <2>3
<1> QED
  BY <1>4, <1>11

(* It depends on the sequences it flattens only.                           *)
LEMMA FlatSame ==
  ASSUME NEW S, NEW s \in Seq(Seq(S)), NEW t \in Seq(Seq(S)),
         NEW n \in 0 .. Len(s), n <= Len(t), \A i \in 1 .. n : s[i] = t[i]
  PROVE  \A i \in 1 .. n : Flat(s)[i] = Flat(t)[i]
PROOF
<1> DEFINE A == {k \in Nat : \A i \in 1 .. k : i <= n => Flat(s)[i] = Flat(t)[i]}
<1>1. 0 \in A
  OBVIOUS
<1>2. ASSUME NEW k \in A PROVE k + 1 \in A
  <2> SUFFICES ASSUME k + 1 <= n PROVE Flat(s)[k + 1] = Flat(t)[k + 1]
    OBVIOUS
  <2>1. k \in Nat /\ (k > 0 => Flat(s)[k] = Flat(t)[k])
    OBVIOUS
  <2>2. FlatOn(Flat(s), s, Len(s)) /\ FlatOn(Flat(t), t, Len(t))
    BY FlatExists
  <2> HIDE DEF A
  <2> QED
    <3>1. CASE k = 0
      BY <2>1, <2>2, <3>1 DEF FlatOn
    <3>2. CASE k # 0
      <4>1. k > 0 /\ k < Len(s) /\ k < Len(t) /\ k + 1 \in 1 .. n
        BY <2>1, <3>2
      <4> QED
        BY <2>1, <2>2, <4>1 DEF FlatOn
    <3> QED
      BY <3>1, <3>2
<1>3. n \in A
  <2> HIDE DEF A
  <2>1. A \in SUBSET Nat
    BY DEF A
  <2>2. \A i \in Nat : i \in A
    BY <1>1, <1>2, <2>1, NatSetInduction
  <2>3. n \in Nat
    OBVIOUS
  <2> QED
    BY <2>2, <2>3
<1> QED
  BY <1>3

\* The first k sequences of s, flattened.
Upto(s, k) == IF k = 0 THEN <<>> ELSE Flat(s)[k]

(* All of them are what FlattenSeq says.                                   *)
LEMMA UptoAll ==
  ASSUME NEW S, NEW s \in Seq(Seq(S))
  PROVE  FlattenSeq(s) = Upto(s, Len(s))
PROOF
<1>1. CASE Len(s) = 0
  <2>1. s = <<>>
    BY <1>1
  <2> QED
    BY <1>1, <2>1 DEF FlattenSeq, Upto
<1>2. CASE Len(s) # 0
  BY <1>2 DEF FlattenSeq, Upto, Flat
<1> QED
  BY <1>1, <1>2

(* Each sequence is put behind those before it.                            *)
LEMMA UptoNext ==
  ASSUME NEW S, NEW s \in Seq(Seq(S)), NEW k \in 0 .. Len(s)
  PROVE  /\ Upto(s, k) \in Seq(S)
         /\ k < Len(s) => Upto(s, k + 1) = Upto(s, k) \o s[k + 1]
PROOF
<1>1. Flat(s) \in [1 .. Len(s) -> Seq(S)] /\ FlatOn(Flat(s), s, Len(s))
  BY FlatExists
<1>2. Upto(s, k) \in Seq(S)
  <2>1. CASE k = 0
    BY <2>1 DEF Upto
  <2>2. CASE k # 0
    <3>1. k \in 1 .. Len(s)
      BY <2>2
    <3>2. Flat(s)[k] \in Seq(S)
      BY <1>1, <3>1
    <3> QED
      BY <2>2, <3>2 DEF Upto
  <2> QED
    BY <2>1, <2>2
<1>3. ASSUME k < Len(s) PROVE Upto(s, k + 1) = Upto(s, k) \o s[k + 1]
  <2>1. k + 1 \in 1 .. Len(s) /\ k + 1 # 0 /\ (k + 1 = 1 <=> k = 0) /\ (k + 1) - 1 = k
    BY <1>3
  <2>2. Flat(s)[k + 1] = IF k = 0 THEN s[1] ELSE Flat(s)[k] \o s[k + 1]
    <3>1. CASE k = 0
      BY <1>1, <1>3, <3>1 DEF FlatOn
    <3>2. CASE k # 0
      <4>1. k \in Nat /\ 0 < k
        BY <3>2
      <4> QED
        BY <1>1, <1>3, <3>2, <4>1 DEF FlatOn
    <3> QED
      BY <3>1, <3>2
  <2>3. CASE k = 0
    <3>1. s[1] \in Seq(S)
      BY <2>1, <2>3
    <3>2. <<>> \o s[1] = s[1]
      BY <3>1
    <3> QED
      BY <2>1, <2>2, <2>3, <3>2 DEF Upto
  <2>4. CASE k # 0
    BY <2>1, <2>2, <2>4 DEF Upto
  <2> QED
    BY <2>3, <2>4
<1> QED
  BY <1>2, <1>3

(* A sequence put behind them does not matter to the ones before.          *)
LEMMA UptoAppend ==
  ASSUME NEW S, NEW s \in Seq(Seq(S)), NEW x \in Seq(S), NEW k \in 0 .. Len(s)
  PROVE  Upto(Append(s, x), k) = Upto(s, k)
PROOF
<1>1. Append(s, x) \in Seq(Seq(S)) /\ \A i \in 1 .. Len(s) : Append(s, x)[i] = s[i]
  OBVIOUS
<1>2. \A i \in 1 .. Len(s) : Flat(s)[i] = Flat(Append(s, x))[i]
  <2>1. Len(s) \in 0 .. Len(s) /\ Len(s) <= Len(Append(s, x))
    OBVIOUS
  <2> QED
    BY <1>1, <2>1, FlatSame
<1> QED
  BY <1>2 DEF Upto

(* Some of them are a prefix of all of them.                               *)
LEMMA UptoPrefix ==
  ASSUME NEW S, NEW s \in Seq(Seq(S)), NEW k \in 0 .. Len(s)
  PROVE  IsPrefix(Upto(s, k), Upto(s, Len(s)))
PROOF
<1> DEFINE p == Upto(s, k)
           A == {n \in Nat : k + n <= Len(s) => IsPrefix(p, Upto(s, k + n))}
<1>0. p \in Seq(S)
  BY UptoNext
<1>1. 0 \in A
  <2>1. SubSeq(p, 1, Len(p)) = p
    BY <1>0
  <2> HIDE DEF p
  <2>2. IsPrefix(p, p)
    BY <2>1, <1>0 DEF IsPrefix
  <2> QED
    BY <2>2 DEF p
<1>2. ASSUME NEW n \in A PROVE n + 1 \in A
  <2> SUFFICES ASSUME k + (n + 1) <= Len(s) PROVE IsPrefix(p, Upto(s, k + (n + 1)))
    OBVIOUS
  <2> DEFINE q == Upto(s, k + n)
             x == s[k + n + 1]
  <2>1. k + n \in 0 .. Len(s) /\ k + n < Len(s) /\ k + (n + 1) = (k + n) + 1 /\ IsPrefix(p, q)
    OBVIOUS
  <2>2. q \in Seq(S) /\ Upto(s, k + (n + 1)) = q \o x
    BY <2>1, UptoNext
  <2>3. x \in Seq(S)
    BY <2>1
  <2> HIDE DEF p, q, x, A
  <2>4. Len(p) <= Len(q) /\ SubSeq(p, 1, Len(p)) = SubSeq(q, 1, Len(p))
    BY <2>1 DEF IsPrefix
  <2>5. Len(q \o x) = Len(q) + Len(x) /\ SubSeq(q \o x, 1, Len(p)) = SubSeq(q, 1, Len(p))
    BY <1>0, <2>2, <2>3, <2>4
  <2>6. IsPrefix(p, q \o x)
    BY <1>0, <2>2, <2>3, <2>4, <2>5 DEF IsPrefix
  <2> QED
    BY <2>2, <2>6
<1>3. Len(s) - k \in A
  <2> HIDE DEF A
  <2>1. A \in SUBSET Nat
    BY DEF A
  <2>2. \A i \in Nat : i \in A
    BY <1>1, <1>2, <2>1, NatSetInduction
  <2>3. Len(s) - k \in Nat
    OBVIOUS
  <2> QED
    BY <2>2, <2>3
<1>4. k + (Len(s) - k) = Len(s)
  OBVIOUS
<1> QED
  BY <1>3, <1>4

-----------------------------------------------------------------------------
(***************************************************************************)
(* The parts on their way.  A part of frame f follows another until the    *)
(* frame ends, and the header of the next frame follows then.              *)
(***************************************************************************)
Part == [frame : Nat, part : Nat]

IsPart(fs, p) == p.frame \in 1 .. Len(fs) /\ p.part \in 0 .. Len(fs[p.frame])

PartAfter(fs, p) ==
  IF p.part < Len(fs[p.frame]) THEN [frame |-> p.frame, part |-> p.part + 1]
                               ELSE [frame |-> p.frame + 1, part |-> 0]

\* The parts ps of the frames fs follow each other: a is the first, and z comes next.
Leads(fs, a, ps, z) ==
  /\ (IF ps = <<>> THEN z ELSE ps[1]) = a
  /\ \A i \in 1 .. Len(ps) :
       IsPart(fs, ps[i]) /\ PartAfter(fs, ps[i]) = IF i = Len(ps) THEN z ELSE ps[i + 1]

FramesOK(fs) == fs \in Seq(Seq(Message)) /\ \A k \in 1 .. Len(fs) : fs[k] # <<>>

(* The first of some parts that follow each other can be taken.            *)
LEMMA LeadsTail ==
  ASSUME NEW fs, NEW a, NEW z, NEW ps \in Seq(Part), ps # <<>>, Leads(fs, a, ps, z)
  PROVE  Head(ps) = a /\ IsPart(fs, a) /\ Leads(fs, PartAfter(fs, a), Tail(ps), z)
PROOF
<1> DEFINE tl == Tail(ps)
<1>1. Len(ps) \in Nat \ {0} /\ 1 \in 1 .. Len(ps) /\ ps[1] = a /\ Head(ps) = ps[1]
  BY DEF Leads
<1>2. /\ tl \in Seq(Part) /\ Len(tl) = Len(ps) - 1
      /\ \A i \in 1 .. Len(ps) - 1 : tl[i] = ps[i + 1]
  BY <1>1
<1> HIDE DEF tl
<1>3. tl = <<>> <=> Len(ps) = 1
  BY <1>1, <1>2
<1>4. ASSUME NEW i \in 1 .. Len(ps)
      PROVE  IsPart(fs, ps[i]) /\ PartAfter(fs, ps[i]) = IF i = Len(ps) THEN z ELSE ps[i + 1]
  BY DEF Leads
<1>5. (IF tl = <<>> THEN z ELSE tl[1]) = PartAfter(fs, a)
  <2>1. Len(ps) # 1 => tl[1] = ps[1 + 1]
    BY <1>1, <1>2
  <2> QED
    BY <1>1, <1>3, <1>4, <2>1
<1>6. ASSUME NEW i \in 1 .. Len(tl)
      PROVE  IsPart(fs, tl[i]) /\ PartAfter(fs, tl[i]) = IF i = Len(tl) THEN z ELSE tl[i + 1]
  <2>1. i + 1 \in 1 .. Len(ps) /\ tl[i] = ps[i + 1] /\ (i = Len(tl) <=> i + 1 = Len(ps))
    BY <1>1, <1>2
  <2>2. i # Len(tl) => tl[i + 1] = ps[(i + 1) + 1]
    BY <1>1, <1>2
  <2> QED
    BY <1>4, <2>1, <2>2
<1>7. Leads(fs, PartAfter(fs, a), tl, z)
  BY <1>5, <1>6 DEF Leads
<1> QED
  BY <1>1, <1>4, <1>7 DEF tl

(* Parts that follow others can be put behind them.                        *)
LEMMA LeadsOn ==
  ASSUME NEW fs, NEW a, NEW y, NEW z, NEW ps \in Seq(Part), NEW qs \in Seq(Part),
         Leads(fs, a, ps, y), Leads(fs, y, qs, z)
  PROVE  Leads(fs, a, ps \o qs, z)
PROOF
<1> DEFINE all == ps \o qs
<1>1. /\ Len(ps) \in Nat /\ Len(qs) \in Nat /\ Len(all) = Len(ps) + Len(qs) /\ all \in Seq(Part)
      /\ \A i \in 1 .. Len(ps) : all[i] = ps[i]
      /\ \A i \in 1 .. Len(qs) : all[Len(ps) + i] = qs[i]
  OBVIOUS
<1>2. ps = <<>> <=> Len(ps) = 0
  OBVIOUS
<1>3. qs = <<>> <=> Len(qs) = 0
  OBVIOUS
<1>4. all = <<>> <=> Len(all) = 0
  BY <1>1
<1> HIDE DEF all
<1>5. (IF all = <<>> THEN z ELSE all[1]) = a
  <2>1. CASE Len(ps) # 0
    BY <1>1, <1>2, <1>4, <2>1 DEF Leads
  <2>2. CASE Len(ps) = 0 /\ Len(qs) # 0
    <3>1. all[Len(ps) + 1] = qs[1] /\ Len(ps) + 1 = 1
      BY <1>1, <2>2
    <3> QED
      BY <1>1, <1>2, <1>3, <1>4, <2>2, <3>1 DEF Leads
  <2>3. CASE Len(ps) = 0 /\ Len(qs) = 0
    BY <1>1, <1>2, <1>3, <1>4, <2>3 DEF Leads
  <2> QED
    BY <2>1, <2>2, <2>3
<1>6. ASSUME NEW i \in 1 .. Len(all)
      PROVE  IsPart(fs, all[i]) /\ PartAfter(fs, all[i]) = IF i = Len(all) THEN z ELSE all[i + 1]
  <2>1. CASE i < Len(ps)
    <3>1. i \in 1 .. Len(ps) /\ i + 1 \in 1 .. Len(ps) /\ i # Len(all) /\ i # Len(ps)
      BY <1>1, <2>1
    <3>2. all[i] = ps[i] /\ all[i + 1] = ps[i + 1]
      BY <1>1, <3>1
    <3> QED
      BY <3>1, <3>2 DEF Leads
  <2>2. CASE i = Len(ps)
    <3>1. i \in 1 .. Len(ps) /\ all[i] = ps[i]
      BY <1>1, <2>2
    <3>2. IsPart(fs, all[i]) /\ PartAfter(fs, all[i]) = y
      BY <2>2, <3>1 DEF Leads
    <3>3. y = IF Len(qs) = 0 THEN z ELSE qs[1]
      BY <1>3 DEF Leads
    <3>4. Len(qs) # 0 => all[i + 1] = qs[1]
      BY <1>1, <2>2
    <3> QED
      BY <1>1, <2>2, <3>2, <3>3, <3>4
  <2>3. CASE i > Len(ps)
    <3> DEFINE j == i - Len(ps)
    <3>1. j \in 1 .. Len(qs) /\ i = Len(ps) + j /\ (i = Len(all) <=> j = Len(qs))
      BY <1>1, <2>3
    <3>2. all[i] = qs[j]
      BY <1>1, <3>1
    <3>3. j # Len(qs) => j + 1 \in 1 .. Len(qs) /\ i + 1 = Len(ps) + (j + 1)
      BY <1>1, <3>1
    <3>4. j # Len(qs) => all[i + 1] = qs[j + 1]
      BY <1>1, <3>3
    <3> HIDE DEF j
    <3> QED
      BY <3>1, <3>2, <3>4 DEF Leads
  <2> QED
    BY <1>1, <2>1, <2>2, <2>3
<1> QED
  BY <1>5, <1>6 DEF Leads, all

(* Another frame does not matter to the parts of those before.             *)
LEMMA LeadsFrames ==
  ASSUME NEW fs, FramesOK(fs), NEW x \in Seq(Message),
         NEW a, NEW z, NEW ps \in Seq(Part), Leads(fs, a, ps, z)
  PROVE  Leads(Append(fs, x), a, ps, z)
PROOF
<1>1. /\ Len(Append(fs, x)) = Len(fs) + 1 /\ Len(fs) \in Nat
      /\ \A i \in 1 .. Len(fs) : Append(fs, x)[i] = fs[i]
  BY DEF FramesOK
<1>2. ASSUME NEW p, IsPart(fs, p)
      PROVE  IsPart(Append(fs, x), p) /\ PartAfter(Append(fs, x), p) = PartAfter(fs, p)
  <2>1. p.frame \in 1 .. Len(fs) + 1 /\ Append(fs, x)[p.frame] = fs[p.frame]
    BY <1>1, <1>2 DEF IsPart
  <2> QED
    BY <1>1, <1>2, <2>1 DEF IsPart, PartAfter
<1> QED
  BY <1>2 DEF Leads

(* The parts of a frame follow each other.                                 *)
LEMMA LeadsParts ==
  ASSUME NEW fs, FramesOK(fs), NEW k \in 1 .. Len(fs)
  PROVE  /\ Parts(k, fs[k]) \in Seq(Part) /\ Len(Parts(k, fs[k])) = Len(fs[k]) + 1
         /\ \A i \in 1 .. Len(fs[k]) + 1 : Parts(k, fs[k])[i] = [frame |-> k, part |-> i - 1]
         /\ Leads(fs, [frame |-> k, part |-> 0], Parts(k, fs[k]), [frame |-> k + 1, part |-> 0])
PROOF
<1> DEFINE ps == Parts(k, fs[k])
           z  == [frame |-> k + 1, part |-> 0]
<1>1. k \in Nat /\ Len(fs[k]) \in Nat
  BY DEF FramesOK
<1>2. /\ ps \in Seq(Part) /\ Len(ps) = Len(fs[k]) + 1
      /\ \A i \in 1 .. Len(fs[k]) + 1 : ps[i] = [frame |-> k, part |-> i - 1]
  BY <1>1 DEF Parts, Part
<1> HIDE DEF ps
<1>3. ps # <<>> /\ ps[1] = [frame |-> k, part |-> 0]
  BY <1>1, <1>2
<1>4. ASSUME NEW i \in 1 .. Len(ps)
      PROVE  IsPart(fs, ps[i]) /\ PartAfter(fs, ps[i]) = IF i = Len(ps) THEN z ELSE ps[i + 1]
  <2>1. /\ ps[i] = [frame |-> k, part |-> i - 1]
        /\ ps[i].frame = k /\ ps[i].part = i - 1 /\ i - 1 \in 0 .. Len(fs[k])
    <3>1. i \in 1 .. Len(fs[k]) + 1
      BY <1>2
    <3>2. ps[i] = [frame |-> k, part |-> i - 1]
      BY <1>2, <3>1
    <3> QED
      BY <1>1, <3>1, <3>2
  <2>2. IsPart(fs, ps[i])
    BY <2>1 DEF IsPart
  <2>3. CASE i = Len(ps)
    <3>1. ~ (ps[i].part < Len(fs[ps[i].frame]))
      BY <1>1, <1>2, <2>1, <2>3
    <3>2. PartAfter(fs, ps[i]) = [frame |-> ps[i].frame + 1, part |-> 0]
      BY <3>1 DEF PartAfter
    <3> QED
      BY <2>1, <2>2, <2>3, <3>2
  <2>4. CASE i # Len(ps)
    <3>1. i - 1 < Len(fs[k]) /\ ps[i + 1] = [frame |-> k, part |-> (i - 1) + 1]
      BY <1>1, <1>2, <2>4
    <3>2. PartAfter(fs, ps[i]) = [frame |-> ps[i].frame, part |-> ps[i].part + 1]
      BY <2>1, <3>1 DEF PartAfter
    <3> QED
      BY <2>1, <2>2, <2>4, <3>1, <3>2
  <2> QED
    BY <2>2, <2>3, <2>4
<1> QED
  BY <1>2, <1>3, <1>4 DEF Leads, ps

-----------------------------------------------------------------------------
(***************************************************************************)
(* What the client has read and has not, while no two writes have been     *)
(* under way at once: of the frames the first k have been read, and of the *)
(* next one the header, if need is not empty, and what got holds.  The     *)
(* parts on their way go on from there, in the socket and then in the      *)
(* write that waits for it, up to the last frame.                          *)
(***************************************************************************)
Unread  == IF writes = <<>> THEN socket ELSE socket \o writes[1]
NewPart == [frame |-> Len(frames) + 1, part |-> 0]

Expected(k) == [frame |-> k + 1, part |-> IF need = <<>> THEN 0 ELSE Len(got) + 1]

ClientReads(k) ==
  /\ got \in Seq(Part)
  /\ need = <<>> => got = <<>>
  /\ need # <<>> => /\ k < Len(frames) /\ need = Tail(Parts(k + 1, frames[k + 1]))
                    /\ Len(got) < Len(need)
                    /\ \A i \in 1 .. Len(got) : got[i] = need[i]

Intact(k) ==
  /\ received = Upto(Counted(frames), k)
  /\ ClientReads(k)
  /\ clientOpen => Leads(frames, Expected(k), Unread, NewPart)

OneWrite ==
  /\ socket \in Seq(Part) /\ Len(socket) <= SocketSize
  /\ writes \in Seq(Seq(Part)) /\ Len(writes) <= 1
  /\ ~ deaf

StreamInv ==
  /\ mixed \in BOOLEAN /\ FramesOK(frames)
  /\ ~ mixed => OneWrite /\ \E k \in 0 .. Len(frames) : Intact(k)

(* A header counts no more messages than its frame has.                    *)
LEMMA HeaderCounts ==
  ASSUME NEW msgs \in Seq(Message)
  PROVE  unmarshalPayload(msgs) \in Seq(Message)
PROOF
<1> DEFINE a     == Len(msgs)
           limit == 2 ^ Width
           n     == a % limit
<1>1. a \in Nat /\ limit \in Nat /\ limit > 0
  BY LenProperties, ServerConnectionAssumption
<1> HIDE DEF a, limit
<1>2. n \in Nat /\ n < limit
  BY <1>1
<1>3. n <= a
  <2>1. CASE a < limit
    <3>1. n = a
      BY <1>1, <2>1
    <3> QED
      BY <1>1, <3>1
  <2>2. CASE ~ (a < limit)
    <3> HIDE DEF n
    <3> QED
      BY <1>1, <1>2, <2>2
  <2> QED
    BY <2>1, <2>2
<1> HIDE DEF n
<1>4. SubSeq(msgs, 1, n) \in Seq(Message)
  BY <1>2, <1>3 DEF a
<1> QED
  BY <1>4 DEF unmarshalPayload, n, a, limit

(* What is counted of each frame is what unmarshalPayload returns of it.   *)
LEMMA CountedFrames ==
  ASSUME NEW fs \in Seq(Seq(Message))
  PROVE  /\ Counted(fs) \in Seq(Seq(Message)) /\ Len(Counted(fs)) = Len(fs)
         /\ \A k \in 1 .. Len(fs) : Counted(fs)[k] = unmarshalPayload(fs[k])
PROOF
<1>1. Counted(fs) = [k \in 1 .. Len(fs) |-> unmarshalPayload(fs[k])]
  BY DEF Counted, unmarshalPayload
<1>2. \A k \in 1 .. Len(fs) : unmarshalPayload(fs[k]) \in Seq(Message)
  <2>1. \A k \in 1 .. Len(fs) : fs[k] \in Seq(Message)
    BY ElementOfSeq
  <2> QED
    BY <2>1, HeaderCounts
<1>3. Len(fs) \in Nat
  BY LenProperties
<1> QED
  BY <1>1, <1>2, <1>3

(* A frame more is counted behind the others.                              *)
LEMMA CountedAppend ==
  ASSUME NEW fs \in Seq(Seq(Message)), NEW x \in Seq(Message)
  PROVE  Counted(Append(fs, x)) = Append(Counted(fs), unmarshalPayload(x))
PROOF
<1> DEFINE fx == Append(fs, x)
           cx == Append(Counted(fs), unmarshalPayload(x))
<1>1. /\ fx \in Seq(Seq(Message)) /\ Len(fx) = Len(fs) + 1 /\ Len(fs) \in Nat
      /\ fx[Len(fs) + 1] = x /\ \A i \in 1 .. Len(fs) : fx[i] = fs[i]
  BY LenProperties, AppendProperties
<1>2. Counted(fs) \in Seq(Seq(Message)) /\ Len(Counted(fs)) = Len(fs) /\ unmarshalPayload(x) \in Seq(Message)
  BY CountedFrames, HeaderCounts
<1>3. /\ cx \in Seq(Seq(Message)) /\ Len(cx) = Len(fs) + 1
      /\ cx[Len(fs) + 1] = unmarshalPayload(x) /\ \A i \in 1 .. Len(fs) : cx[i] = Counted(fs)[i]
  BY <1>2, AppendProperties
<1> HIDE DEF fx, cx
<1>4. /\ Counted(fx) \in Seq(Seq(Message)) /\ Len(Counted(fx)) = Len(fs) + 1
      /\ \A i \in 1 .. Len(fs) + 1 : Counted(fx)[i] = unmarshalPayload(fx[i])
  BY <1>1, CountedFrames
<1>5. ASSUME NEW i \in 1 .. Len(fs) + 1 PROVE Counted(fx)[i] = cx[i]
  <2>1. CASE i = Len(fs) + 1
    BY <1>1, <1>3, <1>4, <2>1
  <2>2. CASE i # Len(fs) + 1
    <3>1. i \in 1 .. Len(fs)
      BY <1>1, <2>2
    <3>2. Counted(fs)[i] = unmarshalPayload(fs[i])
      BY <3>1, CountedFrames
    <3> QED
      BY <1>1, <1>3, <1>4, <3>1, <3>2
  <2> QED
    BY <2>1, <2>2
<1>6. Counted(fx) = cx
  BY <1>3, <1>4, <1>5, SeqEqual
<1> QED
  BY <1>6 DEF fx, cx

(* The invariant says that the stream is intact.                           *)
LEMMA StreamInvIntact == StreamInv => StreamIsIntact
PROOF
<1> SUFFICES ASSUME StreamInv, ~ mixed
             PROVE  /\ ~ deaf
                    /\ IsPrefix(received, FlattenSeq(Counted(frames)))
                    /\ clientOpen /\ writes = <<>> /\ socket = <<>> /\ need = <<>> => received = FlattenSeq(Counted(frames))
  BY DEF StreamIsIntact
<1>1. PICK k \in 0 .. Len(frames) : Intact(k)
  BY DEF StreamInv
<1>2. frames \in Seq(Seq(Message)) /\ Len(frames) \in Nat
  BY DEF StreamInv, FramesOK
<1> DEFINE counted == Counted(frames)
<1>3. counted \in Seq(Seq(Message)) /\ Len(counted) = Len(frames)
  BY <1>2, CountedFrames
<1>4. received = Upto(counted, k)
  BY <1>1 DEF Intact
<1> HIDE DEF counted
<1>5. FlattenSeq(counted) = Upto(counted, Len(counted))
  BY <1>3, UptoAll
<1>6. IsPrefix(received, FlattenSeq(counted))
  BY <1>5, <1>3, <1>4, UptoPrefix
<1>7. ASSUME clientOpen, writes = <<>>, socket = <<>>, need = <<>> PROVE k = Len(frames)
  <2>1. Unread = <<>>
    BY <1>7 DEF Unread
  <2>2. NewPart = Expected(k)
    BY <1>1, <1>7, <2>1 DEF Intact, Leads
  <2>3. NewPart.frame = Len(frames) + 1 /\ Expected(k).frame = k + 1
    BY DEF NewPart, Expected
  <2> QED
    BY <1>2, <2>2, <2>3
<1>8. ~ deaf
  BY DEF StreamInv, OneWrite
<1> QED
  BY <1>5, <1>6, <1>7, <1>8, <1>3, <1>4 DEF counted

(* Nothing is under way at first.                                          *)
LEMMA InitStream == Init => StreamInv
PROOF
<1> SUFFICES ASSUME Init PROVE StreamInv
  OBVIOUS
<1>1. /\ frames = <<>> /\ mixed = FALSE /\ deaf = FALSE /\ socket = <<>> /\ writes = <<>>
      /\ need = <<>> /\ got = <<>> /\ received = <<>>
  BY DEF Init
<1>2. FramesOK(frames) /\ Len(frames) = 0
  BY <1>1 DEF FramesOK
<1>3. OneWrite
  BY <1>1, ServerConnectionAssumption DEF OneWrite
<1>4. Expected(0) = [frame |-> 1, part |-> 0] /\ NewPart = [frame |-> 1, part |-> 0]
  BY <1>1, <1>2 DEF Expected, NewPart
<1>5. Leads(frames, Expected(0), Unread, NewPart)
  BY <1>1, <1>4 DEF Leads, Unread
<1>6. Intact(0)
  BY <1>1, <1>5 DEF Intact, ClientReads, Upto
<1>7. 0 \in 0 .. Len(frames)
  BY <1>2
<1>8. mixed \in BOOLEAN
  BY <1>1
<1> QED
  BY <1>2, <1>3, <1>6, <1>7, <1>8 DEF StreamInv

(* Steps that leave frames, writes and the client alone keep it.           *)
LEMMA StreamAlone ==
  ASSUME StreamInv, UNCHANGED <<writeVars, clientVars>>
  PROVE  StreamInv'
BY DEF StreamInv, FramesOK, OneWrite, Intact, ClientReads, Unread, NewPart, Expected,
       writeVars, clientVars

(* The client may close, and writes may fail then: what is unread is lost. *)
LEMMA StreamCloses ==
  ASSUME StreamInv, UNCHANGED <<frames, mixed, socket, need, got, deaf, received>>,
         ~ clientOpen', writes' = writes \/ (writes # <<>> /\ writes' = Tail(writes))
  PROVE  StreamInv'
PROOF
<1> SUFFICES ASSUME ~ mixed'
             PROVE  OneWrite' /\ \E k \in 0 .. Len(frames') : Intact(k)'
  BY DEF StreamInv, FramesOK
<1>1. OneWrite /\ ~ mixed
  BY DEF StreamInv
<1>2. writes' \in Seq(Seq(Part)) /\ Len(writes') <= 1
  BY <1>1 DEF OneWrite
<1>3. PICK k \in 0 .. Len(frames) : Intact(k)
  BY <1>1 DEF StreamInv
<1>4. Intact(k)'
  BY <1>3 DEF Intact, ClientReads
<1> QED
  BY <1>1, <1>2, <1>3, <1>4 DEF OneWrite

(***************************************************************************)
(* Writing.                                                                *)
(***************************************************************************)
(* Parts can be put behind each other in any order of the two steps.       *)
LEMMA PartsAssociative ==
  ASSUME NEW a \in Seq(Part), NEW b \in Seq(Part), NEW c \in Seq(Part)
  PROVE  (a \o b) \o c = a \o (b \o c)
BY ConcatAssociative

(* What is taken of some parts and what is left are the parts.             *)
LEMMA TakenAndLeft ==
  ASSUME NEW ps \in Seq(Part), socket \in Seq(Part), Len(socket) <= SocketSize
  PROVE  /\ Taken(ps) \in 0 .. Len(ps)
         /\ SubSeq(ps, 1, Taken(ps)) \in Seq(Part) /\ Len(socket \o SubSeq(ps, 1, Taken(ps))) <= SocketSize
         /\ SubSeq(ps, Taken(ps) + 1, Len(ps)) \in Seq(Part)
         /\ socket \o SubSeq(ps, 1, Taken(ps)) \in Seq(Part)
         /\ Taken(ps) = Len(ps) => socket \o SubSeq(ps, 1, Taken(ps)) = socket \o ps
         /\ (socket \o SubSeq(ps, 1, Taken(ps))) \o SubSeq(ps, Taken(ps) + 1, Len(ps)) = socket \o ps
PROOF
<1>1. Len(ps) \in Nat /\ Len(socket) \in Nat /\ SocketSize \in Nat
  BY ServerConnectionAssumption
<1>2. Taken(ps) \in 0 .. Len(ps) /\ Taken(ps) <= SocketSize - Len(socket)
  BY <1>1 DEF Taken, Least
<1> DEFINE k == Taken(ps)
           p == SubSeq(ps, 1, k)
           q == SubSeq(ps, k + 1, Len(ps))
<1> HIDE DEF k
<1>3. k \in 0 .. Len(ps) /\ k <= SocketSize - Len(socket)
  BY <1>2 DEF k
<1>4. p \in Seq(Part) /\ Len(p) = k /\ q \in Seq(Part)
  BY <1>3
<1>5. k = Len(ps) => p = ps
  BY <1>3
<1>6. p \o q = ps
  <2>1. 1 \in 1 .. Len(ps) + 1 /\ k \in 1 - 1 .. Len(ps) /\ Len(ps) \in k .. Len(ps)
    BY <1>1, <1>3
  <2>2. p \o q = SubSeq(ps, 1, Len(ps))
    BY <2>1, ConcatAdjacentSubSeq
  <2>3. SubSeq(ps, 1, Len(ps)) = ps
    BY SubSeqFull
  <2> HIDE DEF p, q
  <2> QED
    BY <2>2, <2>3
<1> HIDE DEF p, q
<1>7. socket \o p \in Seq(Part) /\ Len(socket \o p) = Len(socket) + k
  BY <1>4, ConcatProperties
<1>8. (socket \o p) \o q = socket \o ps
  <2>1. (socket \o p) \o q = socket \o (p \o q)
    <3>1. socket \in Seq(Part) /\ p \in Seq(Part) /\ q \in Seq(Part)
      BY <1>4
    <3> QED
      BY <3>1, PartsAssociative
  <2> QED
    BY <1>6, <2>1
<1>9. Len(socket \o p) <= SocketSize
  BY <1>1, <1>3, <1>7
<1> QED
  BY <1>2, <1>4, <1>5, <1>7, <1>8, <1>9 DEF k, p, q

(* A frame that is written while no write is under way goes behind the     *)
(* others; the parts the socket does not take are the only write left.     *)
LEMMA StreamWrite ==
  ASSUME StreamInv, NEW msgs \in Seq(Message), msgs # <<>>, async_write(msgs)
  PROVE  StreamInv'
PROOF
<1> DEFINE parts == Parts(Len(frames) + 1, msgs)
<1>1. /\ frames \in Seq(Seq(Message)) /\ Len(frames) \in Nat
      /\ frames' = Append(frames, msgs) /\ Len(frames') = Len(frames) + 1
      /\ \A i \in 1 .. Len(frames) : frames'[i] = frames[i]
      /\ frames'[Len(frames) + 1] = msgs
  BY DEF StreamInv, FramesOK, async_write
<1>2. FramesOK(frames')
  BY <1>1 DEF StreamInv, FramesOK
<1>3. mixed' \in BOOLEAN
  BY DEF StreamInv, async_write
<1> SUFFICES ASSUME ~ mixed'
             PROVE  OneWrite' /\ \E k \in 0 .. Len(frames') : Intact(k)'
  BY <1>2, <1>3 DEF StreamInv
<1>4. ~ mixed /\ writes = <<>>
  BY DEF StreamInv, async_write
<1>6. OneWrite
  BY <1>4 DEF StreamInv
<1>7. PICK k \in 0 .. Len(frames) : Intact(k)
  BY <1>4 DEF StreamInv
<1>8. UNCHANGED clientVars /\ clientOpen
  BY DEF async_write
<1>9. parts \in Seq(Part) /\ Leads(frames', NewPart, parts, NewPart')
  <2>1. Len(frames) + 1 \in 1 .. Len(frames')
    BY <1>1
  <2> QED
    BY <1>1, <1>2, <2>1, LeadsParts DEF NewPart
<1> HIDE DEF parts
<1>10. /\ socket' = socket \o SubSeq(parts, 1, Taken(parts))
       /\ writes' = IF Taken(parts) = Len(parts) THEN <<>>
                                                ELSE <<SubSeq(parts, Taken(parts) + 1, Len(parts))>>
  BY <1>4 DEF async_write, parts
<1>11. socket \in Seq(Part) /\ Len(socket) <= SocketSize
  BY <1>6 DEF OneWrite
<1>12. OneWrite'
  <2>1. socket' \in Seq(Part) /\ Len(socket') <= SocketSize
    BY <1>9, <1>10, <1>11, TakenAndLeft
  <2>2. SubSeq(parts, Taken(parts) + 1, Len(parts)) \in Seq(Part)
    BY <1>9, <1>11, TakenAndLeft
  <2>3. writes' \in Seq(Seq(Part)) /\ Len(writes') <= 1
    BY <1>10, <2>2
  <2> QED
    BY <1>6, <1>8, <2>1, <2>3 DEF OneWrite, clientVars
<1>13. Unread' = socket \o parts
  BY <1>9, <1>10, <1>11, TakenAndLeft DEF Unread
<1>14. Expected(k)' = Expected(k)
  BY <1>8 DEF Expected, clientVars
<1>15. Leads(frames', Expected(k), socket \o parts, NewPart')
  <2>1. Leads(frames, Expected(k), socket, NewPart)
    BY <1>4, <1>7, <1>8 DEF Intact, Unread
  <2>2. Leads(frames', Expected(k), socket, NewPart)
    BY <1>1, <1>11, <2>1, LeadsFrames DEF StreamInv
  <2> QED
    BY <1>9, <1>11, <2>2, LeadsOn
<1>16. ClientReads(k)'
  <2>1. k < Len(frames) => frames'[k + 1] = frames[k + 1]
    BY <1>1
  <2> QED
    <3>1. UNCHANGED <<need, got>> /\ ClientReads(k)
      BY <1>7, <1>8 DEF Intact, clientVars
    <3>2. k < Len(frames) => k < Len(frames')
      BY <1>1
    <3> QED
      BY <2>1, <3>1, <3>2 DEF ClientReads
<1>17. received' = Upto(Counted(frames'), k)
  <2> DEFINE counted == Counted(frames)
             x       == unmarshalPayload(msgs)
  <2>1. counted \in Seq(Seq(Message)) /\ Len(counted) = Len(frames) /\ x \in Seq(Message)
    BY <1>1, CountedFrames, HeaderCounts
  <2>2. Counted(frames') = Append(counted, x)
    BY <1>1, CountedAppend
  <2>3. received' = Upto(counted, k)
    BY <1>7, <1>8 DEF Intact, clientVars
  <2> HIDE DEF counted, x
  <2>4. Upto(Append(counted, x), k) = Upto(counted, k)
    BY <2>1, UptoAppend
  <2> QED
    BY <2>2, <2>3, <2>4
<1>18. Intact(k)'
  BY <1>13, <1>14, <1>15, <1>16, <1>17 DEF Intact
<1>19. k \in 0 .. Len(frames')
  BY <1>1
<1> QED
  BY <1>12, <1>18, <1>19

(* The write that goes on does so where the socket ended.                  *)
LEMMA StreamWriteOn ==
  ASSUME StreamInv, NEW i \in 1 .. Len(writes), WriteOn(i)
  PROVE  StreamInv'
PROOF
<1>1. UNCHANGED <<frames, mixed, clientVars>>
  BY DEF WriteOn
<1> SUFFICES ASSUME ~ mixed'
             PROVE  OneWrite' /\ \E k \in 0 .. Len(frames') : Intact(k)'
  BY <1>1 DEF StreamInv, FramesOK
<1>2. ~ mixed
  BY <1>1
<1>3. OneWrite
  BY <1>2 DEF StreamInv
<1>4. PICK k \in 0 .. Len(frames) : Intact(k)
  BY <1>2 DEF StreamInv
<1>5. Len(writes) = 1 /\ i = 1 /\ writes # <<>> /\ writes[1] \in Seq(Part)
  <2>1. writes \in Seq(Seq(Part)) /\ Len(writes) <= 1
    BY <1>3 DEF OneWrite
  <2>2. Len(writes) \in Nat
    BY <2>1, LenProperties
  <2>3. Len(writes) = 1 /\ i = 1
    <3> DEFINE n == Len(writes)
    <3>1. n \in Nat /\ n <= 1 /\ i \in 1 .. n
      BY <2>1, <2>2
    <3> HIDE DEF n
    <3>2. n = 1 /\ i = 1
      BY <3>1
    <3> QED
      BY <3>2 DEF n
  <2>4. writes[1] \in Seq(Part) /\ writes # <<>>
    <3>1. 1 \in 1 .. Len(writes)
      BY <2>3
    <3>2. writes[1] \in Seq(Part)
      BY <2>1, <3>1, ElementOfSeq
    <3>3. Len(<<>>) = 0
      OBVIOUS
    <3>4. writes # <<>>
      BY <2>3, <3>3
    <3> QED
      BY <3>2, <3>4
  <2> QED
    BY <2>3, <2>4
<1> DEFINE w == writes[1]
<1>6. w \in Seq(Part) /\ socket \in Seq(Part) /\ Len(socket) <= SocketSize
  BY <1>3, <1>5 DEF OneWrite
<1>7. /\ socket' = socket \o SubSeq(w, 1, Taken(w))
      /\ writes' = IF Taken(w) = Len(w) THEN <<>> ELSE <<SubSeq(w, Taken(w) + 1, Len(w))>>
  <2>1. RemoveAt(writes, 1) = <<>>
    BY <1>3, <1>5 DEF RemoveAt, OneWrite
  <2>2. [writes EXCEPT ![1] = SubSeq(@, Taken(w) + 1, Len(@))] = <<SubSeq(w, Taken(w) + 1, Len(w))>>
    BY <1>3, <1>5 DEF OneWrite
  <2> QED
    BY <1>5, <2>1, <2>2 DEF WriteOn
<1> HIDE DEF w
<1>8. OneWrite'
  <2>1. socket' \in Seq(Part) /\ Len(socket') <= SocketSize
    BY <1>6, <1>7, TakenAndLeft
  <2>2. SubSeq(w, Taken(w) + 1, Len(w)) \in Seq(Part)
    BY <1>6, TakenAndLeft
  <2>3. writes' \in Seq(Seq(Part)) /\ Len(writes') <= 1
    BY <1>7, <2>2
  <2> QED
    BY <1>1, <1>3, <2>1, <2>3 DEF OneWrite, clientVars
<1>9. Unread' = Unread
  BY <1>5, <1>6, <1>7, TakenAndLeft DEF Unread, w
<1>10. Intact(k)'
  BY <1>1, <1>4, <1>9 DEF Intact, ClientReads, Expected, NewPart, clientVars
<1> QED
  BY <1>1, <1>4, <1>8, <1>10

(***************************************************************************)
(* Reading.                                                                *)
(***************************************************************************)
(* Of two sequences one after the other the first is taken from first.     *)
LEMMA HeadTailConcat ==
  ASSUME NEW S, NEW a \in Seq(S), NEW b \in Seq(S), a # <<>>
  PROVE  Head(a \o b) = Head(a) /\ Tail(a \o b) = Tail(a) \o b
PROOF
<1> DEFINE c == a \o b
           t == Tail(a)
<1>1. Len(a) \in Nat \ {0} /\ Len(b) \in Nat
  BY EmptySeq, LenProperties
<1>2. /\ c \in Seq(S) /\ Len(c) = Len(a) + Len(b) /\ c # <<>>
      /\ \A i \in 1 .. Len(a) + Len(b) : c[i] = IF i <= Len(a) THEN a[i] ELSE b[i - Len(a)]
  BY ConcatProperties, ConcatEqualIffEmpty
<1>3. t \in Seq(S) /\ Len(t) = Len(a) - 1 /\ \A i \in 1 .. Len(t) : t[i] = a[i + 1]
  BY HeadTailProperties
<1> HIDE DEF c, t
<1>4. Tail(c) \in Seq(S) /\ Len(Tail(c)) = Len(c) - 1 /\ \A i \in 1 .. Len(Tail(c)) : Tail(c)[i] = c[i + 1]
  BY <1>2, HeadTailProperties
<1>5. /\ t \o b \in Seq(S) /\ Len(t \o b) = Len(t) + Len(b)
      /\ \A i \in 1 .. Len(t) + Len(b) : (t \o b)[i] = IF i <= Len(t) THEN t[i] ELSE b[i - Len(t)]
  BY <1>3, ConcatProperties
<1>6. ASSUME NEW i \in 1 .. Len(Tail(c)) PROVE Tail(c)[i] = (t \o b)[i]
  <2>1. i + 1 \in 1 .. Len(a) + Len(b) /\ i \in 1 .. Len(t) + Len(b) /\ (i <= Len(t) <=> i + 1 <= Len(a))
        /\ i - Len(t) = (i + 1) - Len(a)
    BY <1>1, <1>2, <1>3, <1>4
  <2>2. i <= Len(t) => t[i] = a[i + 1]
    BY <1>3, <2>1
  <2>3. Tail(c)[i] = c[i + 1]
    BY <1>4
  <2>4. c[i + 1] = IF i <= Len(t) THEN a[i + 1] ELSE b[i - Len(t)]
    BY <1>2, <2>1
  <2>5. (t \o b)[i] = IF i <= Len(t) THEN t[i] ELSE b[i - Len(t)]
    BY <1>5, <2>1
  <2> QED
    BY <2>2, <2>3, <2>4, <2>5
<1>7. Len(Tail(c)) = Len(t \o b)
  BY <1>1, <1>2, <1>3, <1>4, <1>5
<1>8. Tail(c) = t \o b
  BY <1>4, <1>5, <1>6, <1>7, SeqEqual
<1>9. Head(c) = c[1] /\ Head(a) = a[1]
  BY <1>2
<1>10. c[1] = a[1]
  BY <1>1, <1>2
<1> QED
  BY <1>8, <1>9, <1>10 DEF c, t

(* What a client takes from the socket is what it expects, and what it     *)
(* expects next comes next.                                                *)
LEMMA TakeNext ==
  ASSUME OneWrite, FramesOK(frames), NEW k \in 0 .. Len(frames), Intact(k), clientOpen,
         socket # <<>>, socket' = Tail(socket), writes' = writes
  PROVE  /\ Head(socket) = Expected(k) /\ IsPart(frames, Expected(k))
         /\ Leads(frames, PartAfter(frames, Expected(k)), Unread', NewPart)
         /\ socket' \in Seq(Part) /\ Len(socket') <= SocketSize
PROOF
<1>1. /\ socket \in Seq(Part) /\ writes \in Seq(Seq(Part)) /\ Len(writes) <= 1
      /\ Len(socket) <= SocketSize
  BY DEF OneWrite
<1>2. /\ Tail(socket) \in Seq(Part) /\ Len(Tail(socket)) = Len(socket) - 1 /\ Len(socket) \in Nat
  BY <1>1, HeadTailProperties, LenProperties
<1>3. Leads(frames, Expected(k), Unread, NewPart)
  BY DEF Intact
<1>4. /\ Unread \in Seq(Part) /\ Unread # <<>> /\ Head(Unread) = Head(socket)
      /\ Tail(Unread) = Unread'
  <2>1. CASE writes = <<>>
    BY <1>1, <2>1 DEF Unread
  <2>2. CASE writes # <<>>
    <3> DEFINE w == writes[1]
    <3>1. w \in Seq(Part)
      <4>1. 1 \in 1 .. Len(writes)
        BY <1>1, <2>2, EmptySeq
      <4> QED
        BY <1>1, <4>1, ElementOfSeq
    <3>2. Unread = socket \o w /\ Unread' = Tail(socket) \o w
      BY <2>2 DEF Unread
    <3> HIDE DEF w
    <3>3. /\ socket \o w \in Seq(Part) /\ Len(socket \o w) = Len(socket) + Len(w)
          /\ Len(w) \in Nat /\ Len(socket) > 0
      BY <1>1, <3>1, ConcatProperties, EmptySeq, LenProperties
    <3>4. socket \o w # <<>>
      BY <1>1, <3>1, ConcatEqualIffEmpty
    <3>5. Head(socket \o w) = Head(socket) /\ Tail(socket \o w) = Tail(socket) \o w
      BY <1>1, <3>1, HeadTailConcat
    <3> QED
      BY <3>2, <3>3, <3>4, <3>5
  <2> QED
    BY <2>1, <2>2
<1>5. Head(Unread) = Expected(k) /\ IsPart(frames, Expected(k))
      /\ Leads(frames, PartAfter(frames, Expected(k)), Tail(Unread), NewPart)
  BY <1>3, <1>4, LeadsTail
<1>6. Len(socket') <= SocketSize
  BY <1>1, <1>2, ServerConnectionAssumption
<1> QED
  BY <1>1, <1>2, <1>4, <1>5, <1>6

(* Reading a header is going on with the frame it is the first part of.    *)
LEMMA StreamReadHeader ==
  ASSUME StreamInv, ReadHeader
  PROVE  StreamInv'
PROOF
<1>1. /\ clientOpen /\ socket # <<>> /\ need = <<>> /\ socket' = Tail(socket)
      /\ UNCHANGED <<clientOpen, got, received, writes, frames, mixed>>
  BY DEF ReadHeader
<1> SUFFICES ASSUME ~ mixed'
             PROVE  OneWrite' /\ \E k \in 0 .. Len(frames') : Intact(k)'
  BY <1>1 DEF StreamInv, FramesOK
<1>2. OneWrite /\ FramesOK(frames) /\ \E k \in 0 .. Len(frames) : Intact(k)
  BY <1>1 DEF StreamInv
<1>3. PICK k \in 0 .. Len(frames) : Intact(k)
  BY <1>2
<1>4. /\ Head(socket) = Expected(k) /\ IsPart(frames, Expected(k))
      /\ Leads(frames, PartAfter(frames, Expected(k)), Unread', NewPart)
      /\ socket' \in Seq(Part) /\ Len(socket') <= SocketSize
  BY <1>1, <1>2, <1>3, TakeNext
<1>5. Expected(k) = [frame |-> k + 1, part |-> 0]
  BY <1>1 DEF Expected
<1>6. k + 1 \in 1 .. Len(frames) /\ k < Len(frames)
  BY <1>4, <1>5 DEF IsPart
<1> DEFINE fs == frames[k + 1]
<1>7. fs \in Seq(Message) /\ Len(fs) \in Nat /\ Len(fs) > 0
  <2>1. fs \in Seq(Message) /\ fs # <<>>
    BY <1>2, <1>6 DEF FramesOK
  <2> QED
    BY <2>1, EmptySeq
<1>8. need' = Tail(Parts(k + 1, fs)) /\ deaf' = deaf
  BY <1>4, <1>5 DEF ReadHeader
<1>9. Len(need') = Len(fs) /\ need' # <<>>
  <2>1. Parts(k + 1, fs) \in Seq(Part) /\ Len(Parts(k + 1, fs)) = Len(fs) + 1
    BY <1>2, <1>6, LeadsParts
  <2>2. Parts(k + 1, fs) # <<>>
    BY <1>7, <2>1, EmptySeq
  <2>3. need' \in Seq(Part) /\ Len(need') = Len(fs)
    BY <1>7, <1>8, <2>1, <2>2, HeadTailProperties
  <2> QED
    BY <1>7, <2>3, EmptySeq
<1>10. got = <<>> /\ Len(got) = 0 /\ got \in Seq(Part)
  BY <1>1, <1>3, EmptySeq DEF Intact, ClientReads
<1>11. OneWrite'
  BY <1>1, <1>2, <1>4, <1>8 DEF OneWrite
<1>12. ClientReads(k)'
  BY <1>1, <1>6, <1>7, <1>8, <1>9, <1>10 DEF ClientReads
<1>13. PartAfter(frames, Expected(k)) = Expected(k)'
  <2>1. Expected(k)' = [frame |-> k + 1, part |-> 1]
    BY <1>1, <1>9, <1>10 DEF Expected
  <2>2. PartAfter(frames, Expected(k)) = [frame |-> k + 1, part |-> 0 + 1]
    BY <1>5, <1>7 DEF PartAfter
  <2> QED
    BY <2>1, <2>2
<1>14. Intact(k)'
  BY <1>1, <1>3, <1>4, <1>12, <1>13 DEF Intact, NewPart
<1> QED
  BY <1>1, <1>3, <1>11, <1>14

(* Reading a part either goes on with the frame or, if it is the last,     *)
(* gives the client those messages of the frame that its header counts.    *)
LEMMA StreamReadPart ==
  ASSUME StreamInv, ReadPart
  PROVE  StreamInv'
PROOF
<1>1. /\ clientOpen /\ socket # <<>> /\ need # <<>> /\ socket' = Tail(socket)
      /\ UNCHANGED <<clientOpen, writes, frames, mixed>>
  BY DEF ReadPart
<1> SUFFICES ASSUME ~ mixed'
             PROVE  OneWrite' /\ \E k \in 0 .. Len(frames') : Intact(k)'
  BY <1>1 DEF StreamInv, FramesOK
<1>2. OneWrite /\ FramesOK(frames) /\ \E k \in 0 .. Len(frames) : Intact(k)
  BY <1>1 DEF StreamInv
<1>3. PICK k \in 0 .. Len(frames) : Intact(k)
  BY <1>2
<1>4. /\ Head(socket) = Expected(k) /\ IsPart(frames, Expected(k))
      /\ Leads(frames, PartAfter(frames, Expected(k)), Unread', NewPart)
      /\ socket' \in Seq(Part) /\ Len(socket') <= SocketSize
  BY <1>1, <1>2, <1>3, TakeNext
<1> DEFINE fs  == frames[k + 1]
           all == Append(got, Head(socket))
           n   == Len(got) + 1
<1>5. /\ k < Len(frames) /\ need = Tail(Parts(k + 1, fs)) /\ got \in Seq(Part)
      /\ Len(got) < Len(need) /\ \A i \in 1 .. Len(got) : got[i] = need[i]
  BY <1>1, <1>3 DEF Intact, ClientReads
<1>6. k \in Nat /\ Len(frames) \in Nat /\ k + 1 \in 1 .. Len(frames) /\ fs \in Seq(Message) /\ Len(fs) \in Nat
  <2>1. Len(frames) \in Nat
    BY <1>2, LenProperties DEF FramesOK
  <2>2. k + 1 \in 1 .. Len(frames)
    BY <1>5, <2>1
  <2>3. fs \in Seq(Message)
    BY <1>2, <2>2, ElementOfSeq DEF FramesOK
  <2> QED
    BY <2>1, <2>2, <2>3, LenProperties
<1>7. /\ need \in Seq(Part) /\ Len(need) = Len(fs)
      /\ \A i \in 1 .. Len(fs) : need[i] = [frame |-> k + 1, part |-> i]
  <2> DEFINE ps == Parts(k + 1, fs)
  <2>1. ps \in Seq(Part) /\ Len(ps) = Len(fs) + 1 /\ \A i \in 1 .. Len(fs) + 1 : ps[i] = [frame |-> k + 1, part |-> i - 1]
    BY <1>2, <1>6, LeadsParts
  <2> HIDE DEF ps
  <2>2. ps # <<>>
    BY <1>6, <2>1, EmptySeq
  <2>3. need \in Seq(Part) /\ Len(need) = Len(fs) /\ \A i \in 1 .. Len(need) : need[i] = ps[i + 1]
    BY <1>5, <1>6, <2>1, <2>2, HeadTailProperties DEF ps
  <2>4. ASSUME NEW i \in 1 .. Len(fs) PROVE need[i] = [frame |-> k + 1, part |-> i]
    <3>1. i + 1 \in 1 .. Len(fs) + 1 /\ (i + 1) - 1 = i
      BY <1>6
    <3>2. need[i] = ps[i + 1] /\ ps[i + 1] = [frame |-> k + 1, part |-> (i + 1) - 1]
      BY <2>1, <2>3, <3>1
    <3> QED
      BY <3>1, <3>2
  <2> QED
    BY <2>3, <2>4
<1>8. Len(got) \in Nat /\ n \in 1 .. Len(fs)
  BY <1>5, <1>6, <1>7, LenProperties
<1>9. Expected(k) = [frame |-> k + 1, part |-> n] /\ need[n] = Expected(k)
  BY <1>1, <1>7, <1>8 DEF Expected
<1>10. Expected(k) \in Part
  BY <1>6, <1>8, <1>9 DEF Part
<1>11. /\ all \in Seq(Part) /\ Len(all) = n
       /\ \A i \in 1 .. n : all[i] = need[i]
  <2>1. Head(socket) = need[n] /\ Head(socket) \in Part
    BY <1>4, <1>9, <1>10
  <2>2. all \in Seq(Part) /\ Len(all) = n
    BY <1>5, <2>1, AppendProperties
  <2>3. ASSUME NEW i \in 1 .. n PROVE all[i] = need[i]
    <3>1. i = n \/ i \in 1 .. Len(got)
      BY <1>8
    <3> QED
      BY <1>5, <2>1, <3>1, AppendProperties
  <2> QED
    BY <2>2, <2>3
<1>12. /\ received = Upto(Counted(frames), k)
       /\ Upto(Counted(frames), k + 1) = received \o unmarshalPayload(fs)
  <2> DEFINE counted == Counted(frames)
  <2>1. counted \in Seq(Seq(Message)) /\ Len(counted) = Len(frames) /\ counted[k + 1] = unmarshalPayload(fs)
    BY <1>2, <1>6, CountedFrames DEF FramesOK
  <2>2. received = Upto(counted, k)
    BY <1>3 DEF Intact
  <2> HIDE DEF counted, fs
  <2>3. k \in 0 .. Len(counted) /\ k < Len(counted)
    BY <1>5, <1>6, <2>1
  <2>4. Upto(counted, k + 1) = Upto(counted, k) \o counted[k + 1]
    BY <2>1, <2>3, UptoNext
  <2> QED
    BY <2>1, <2>2, <2>4 DEF counted
<1> HIDE DEF fs, all, n
<1>13. CASE n < Len(need)
  <2>1. got' = all /\ UNCHANGED <<need, received, deaf>>
    BY <1>11, <1>13 DEF ReadPart, all
  <2>2. OneWrite'
    BY <1>1, <1>2, <1>4, <2>1 DEF OneWrite
  <2>3. ClientReads(k)'
    BY <1>1, <1>5, <1>11, <1>13, <2>1 DEF ClientReads, fs
  <2>4. PartAfter(frames, Expected(k)) = Expected(k)'
    <3>1. Expected(k)' = [frame |-> k + 1, part |-> n + 1]
      BY <1>1, <1>11, <2>1 DEF Expected
    <3>2. PartAfter(frames, Expected(k)) = [frame |-> k + 1, part |-> n + 1]
      BY <1>7, <1>9, <1>13 DEF PartAfter, fs
    <3> QED
      BY <3>1, <3>2
  <2>5. Intact(k)'
    BY <1>1, <1>3, <1>4, <2>1, <2>3, <2>4 DEF Intact, NewPart
  <2> QED
    BY <1>1, <1>3, <2>2, <2>5
<1>14. CASE n = Len(need)
  <2>1. all = need
    BY <1>7, <1>11, <1>14, SeqEqual
  <2>2. /\ got' = <<>> /\ need' = <<>> /\ deaf' = FALSE
        /\ received' = received \o unmarshalPayload(frames[need[1].frame])
    <3>1. ~ (Len(all) < Len(need))
      BY <1>7, <1>8, <1>11, <1>14
    <3>2. deaf' = (all # need)
      BY <3>1 DEF ReadPart, all
    <3>3. deaf' = FALSE
      BY <2>1, <3>2
    <3>4. received' = received \o unmarshalPayload(frames[need[1].frame])
      BY <2>1, <3>1 DEF ReadPart, all
    <3> QED
      BY <3>1, <3>3, <3>4 DEF ReadPart, all
  <2>3. frames[need[1].frame] = fs
    <3>1. 1 \in 1 .. Len(fs)
      BY <1>6, <1>8
    <3>2. need[1] = [frame |-> k + 1, part |-> 1]
      BY <1>7, <3>1
    <3>3. need[1].frame = k + 1
      BY <3>2
    <3> QED
      BY <3>3 DEF fs
  <2>5. received' = Upto(Counted(frames'), k + 1)
    BY <1>1, <1>12, <2>2, <2>3
  <2>6. OneWrite'
    BY <1>1, <1>2, <1>4, <2>2 DEF OneWrite
  <2>7. ClientReads(k + 1)'
    BY <2>2, EmptySeq DEF ClientReads
  <2>8. PartAfter(frames, Expected(k)) = Expected(k + 1)'
    <3>1. Expected(k + 1)' = [frame |-> (k + 1) + 1, part |-> 0]
      BY <2>2 DEF Expected
    <3>2. PartAfter(frames, Expected(k)) = [frame |-> (k + 1) + 1, part |-> 0]
      BY <1>6, <1>7, <1>8, <1>9, <1>14 DEF PartAfter, fs
    <3> QED
      BY <3>1, <3>2
  <2>9. Intact(k + 1)'
    BY <1>1, <1>4, <2>5, <2>7, <2>8 DEF Intact, NewPart
  <2>10. k + 1 \in 0 .. Len(frames')
    BY <1>1, <1>6
  <2> QED
    BY <2>6, <2>9, <2>10
<1> QED
  BY <1>7, <1>8, <1>13, <1>14

(***************************************************************************)
(* What sendMessages sends.                                                *)
(***************************************************************************)
\* What has been kept of the first n messages of b, for each n.
Kept(b) ==
  CHOOSE kept : kept = [i \in 0 .. Len(b) |->
    IF i = 0 THEN <<>> ELSE IF PassesSome(b[i]) THEN Append(kept[i - 1], b[i]) ELSE kept[i - 1]]

KeptOn(g, b, n) ==
  /\ g[0] = <<>>
  /\ \A i \in Nat : i < n => g[i + 1] = IF PassesSome(b[i + 1]) THEN Append(g[i], b[i + 1]) ELSE g[i]

(* The messages of a batch that pass are messages.                         *)
LEMMA PassingAreMessages ==
  ASSUME NEW b \in Seq(Message)
  PROVE  Passing(b) \in Seq(Message)
PROOF
<1>1. Len(b) \in Nat /\ \A i \in 1 .. Len(b) : b[i] \in Message
  BY LenProperties, ElementOfSeq
<1> DEFINE A == {n \in Nat : n <= Len(b) => \E g \in [0 .. n -> Seq(Message)] : KeptOn(g, b, n)}
<1>2. 0 \in A
  <2>1. [i \in 0 .. 0 |-> <<>>] \in [0 .. 0 -> Seq(Message)]
    BY EmptySeq
  <2>2. KeptOn([i \in 0 .. 0 |-> <<>>], b, 0)
    BY DEF KeptOn
  <2> QED
    BY <2>1, <2>2
<1>3. ASSUME NEW n \in A PROVE n + 1 \in A
  <2> SUFFICES ASSUME n + 1 <= Len(b)
               PROVE  \E g \in [0 .. n + 1 -> Seq(Message)] : KeptOn(g, b, n + 1)
    OBVIOUS
  <2>1. PICK g \in [0 .. n -> Seq(Message)] : KeptOn(g, b, n)
    BY <1>1
  <2>2. n \in Nat /\ b[n + 1] \in Message
    BY <1>1
  <2> HIDE DEF A
  <2> DEFINE last == IF PassesSome(b[n + 1]) THEN Append(g[n], b[n + 1]) ELSE g[n]
             h == [i \in 0 .. n + 1 |-> IF i = n + 1 THEN last ELSE g[i]]
  <2>3. last \in Seq(Message)
    <3>1. g[n] \in Seq(Message)
      BY <2>2
    <3> QED
      BY <2>2, <3>1
  <2> HIDE DEF last
  <2>4. h \in [0 .. n + 1 -> Seq(Message)]
    BY <2>2, <2>3
  <2>5. h[n + 1] = last /\ \A i \in 0 .. n : h[i] = g[i]
    BY <2>2
  <2> HIDE DEF h
  <2>6. h[0] = <<>>
    BY <2>1, <2>2, <2>5 DEF KeptOn
  <2>7. ASSUME NEW i \in Nat, i < n + 1
        PROVE  h[i + 1] = IF PassesSome(b[i + 1]) THEN Append(h[i], b[i + 1]) ELSE h[i]
    <3>1. CASE i = n
      <4>1. h[i] = g[n] /\ h[i + 1] = last
        BY <2>2, <2>5, <3>1
      <4> QED
        BY <3>1, <4>1 DEF last
    <3>2. CASE i < n
      <4>1. h[i] = g[i] /\ h[i + 1] = g[i + 1]
        BY <2>2, <2>5, <3>2
      <4> QED
        BY <2>1, <3>2, <4>1 DEF KeptOn
    <3> QED
      BY <2>2, <2>7, <3>1, <3>2
  <2>8. KeptOn(h, b, n + 1)
    BY <2>6, <2>7 DEF KeptOn
  <2> QED
    BY <2>4, <2>8
<1>4. Len(b) \in A
  <2> HIDE DEF A
  <2>1. A \in SUBSET Nat
    BY DEF A
  <2>2. \A i \in Nat : i \in A
    BY <1>2, <1>3, <2>1, NatSetInduction
  <2> QED
    BY <1>1, <2>2
<1>5. PICK g \in [0 .. Len(b) -> Seq(Message)] : KeptOn(g, b, Len(b))
  BY <1>1, <1>4
<1> HIDE DEF A
<1> DEFINE Step(f, i) == IF i = 0 THEN <<>> ELSE IF PassesSome(b[i]) THEN Append(f[i - 1], b[i]) ELSE f[i - 1]
<1>6. g = [i \in 0 .. Len(b) |-> Step(g, i)]
  <2>1. ASSUME NEW i \in 0 .. Len(b) PROVE g[i] = Step(g, i)
    <3>1. CASE i = 0
      BY <1>5, <3>1 DEF KeptOn
    <3>2. CASE i # 0
      <4>1. i - 1 \in Nat /\ i - 1 < Len(b) /\ (i - 1) + 1 = i
        BY <1>1, <3>2
      <4>2. g[(i - 1) + 1] = IF PassesSome(b[(i - 1) + 1]) THEN Append(g[i - 1], b[(i - 1) + 1]) ELSE g[i - 1]
        BY <1>5, <4>1 DEF KeptOn
      <4> QED
        BY <3>2, <4>1, <4>2
    <3> QED
      BY <3>1, <3>2
  <2> HIDE DEF Step
  <2> QED
    BY <2>1
<1>7. Kept(b) = [i \in 0 .. Len(b) |-> Step(Kept(b), i)]
  BY <1>6 DEF Kept
<1> DEFINE B == {n \in Nat : n <= Len(b) => Kept(b)[n] \in Seq(Message)}
<1>8. 0 \in B
  <2>1. Kept(b)[0] = <<>>
    BY <1>1, <1>7
  <2> QED
    BY <2>1, EmptySeq
<1>9. ASSUME NEW n \in B PROVE n + 1 \in B
  <2> SUFFICES ASSUME n + 1 <= Len(b) PROVE Kept(b)[n + 1] \in Seq(Message)
    OBVIOUS
  <2>1. n \in Nat /\ Kept(b)[n] \in Seq(Message) /\ n + 1 \in 1 .. Len(b) /\ n + 1 \in 0 .. Len(b)
        /\ n + 1 # 0 /\ (n + 1) - 1 = n
    BY <1>1
  <2>2. Kept(b)[n + 1] = Step(Kept(b), n + 1)
    BY <1>7, <2>1
  <2>3. Step(Kept(b), n + 1) = IF PassesSome(b[n + 1]) THEN Append(Kept(b)[n], b[n + 1]) ELSE Kept(b)[n]
    BY <2>1
  <2>4. b[n + 1] \in Message
    BY <1>1, <2>1
  <2> HIDE DEF B, Step
  <2>5. Append(Kept(b)[n], b[n + 1]) \in Seq(Message)
    BY <2>1, <2>4, AppendProperties
  <2>6. CASE PassesSome(b[n + 1])
    BY <2>2, <2>3, <2>5, <2>6
  <2>7. CASE ~ PassesSome(b[n + 1])
    BY <2>1, <2>2, <2>3, <2>7
  <2> QED
    BY <2>6, <2>7
<1>10. Len(b) \in B
  <2> HIDE DEF B
  <2>1. B \in SUBSET Nat
    BY DEF B
  <2>2. \A i \in Nat : i \in B
    BY <1>8, <1>9, <2>1, NatSetInduction
  <2> QED
    BY <1>1, <2>2
<1>11. Passing(b) = Kept(b)[Len(b)]
  BY DEF Passing, Kept
<1> QED
  BY <1>1, <1>10, <1>11

(* Every step keeps the stream intact, or at least the invariant.          *)
LEMMA NextStream == StreamInv /\ [Next]_vars => StreamInv'
PROOF
<1> SUFFICES ASSUME StreamInv, [Next]_vars PROVE StreamInv'
  OBVIOUS
<1>1. CASE UNCHANGED vars
  BY <1>1, StreamAlone DEF vars
<1>2. CASE ReadFails \/ UnparsablePayload \/ ParserThrows \/ FeederEvent \/ ControlMessage
  <2>1. UNCHANGED <<writeVars, clientVars>>
    BY <1>2 DEF ReadFails, UnparsablePayload, ParserThrows, FeederEvent, ControlMessage
  <2> QED
    BY <2>1, StreamAlone
<1>3. CASE sendMessage
  <2>1. PICK m \in Relays : async_write(<<m>>)
    BY <1>3 DEF sendMessage
  <2>2. m \in Message
    BY ServerConnectionAssumption
  <2>3. <<m>> \in Seq(Message) /\ <<m>> # <<>>
    BY <2>2
  <2> QED
    BY <2>1, <2>3, StreamWrite
<1>4. CASE sendMessages
  <2>1. PICK b \in Batches :
          LET passed == IF messageStreamFilterEnabled THEN Passing(b) ELSE b IN
          passed # <<>> /\ async_write(passed)
    BY <1>4 DEF sendMessages
  <2>2. b \in Seq(Message)
    BY ServerConnectionAssumption
  <2> DEFINE passed == IF messageStreamFilterEnabled THEN Passing(b) ELSE b
  <2>3. passed \in Seq(Message)
    BY <2>2, PassingAreMessages
  <2>4. passed # <<>> /\ async_write(passed)
    BY <2>1
  <2> HIDE DEF passed
  <2> QED
    BY <2>3, <2>4, StreamWrite
<1>5. CASE \E i \in 1 .. Len(writes) : WriteOn(i)
  BY <1>5, StreamWriteOn
<1>6. CASE WriteFails
  <2>1. UNCHANGED <<frames, mixed, socket, need, got, deaf, received>> /\ ~ clientOpen'
        /\ writes # <<>> /\ writes' = Tail(writes)
    BY <1>6 DEF WriteFails, clientVars
  <2> QED
    BY <2>1, StreamCloses
<1>7. CASE ReadHeader
  BY <1>7, StreamReadHeader
<1>8. CASE ReadPart
  BY <1>8, StreamReadPart
<1>9. CASE ClientCloses
  <2>1. UNCHANGED <<frames, mixed, socket, need, got, deaf, received>> /\ ~ clientOpen'
        /\ writes' = writes
    BY <1>9 DEF ClientCloses, writeVars
  <2> QED
    BY <2>1, StreamCloses
<1> QED
  BY <1>1, <1>2, <1>3, <1>4, <1>5, <1>6, <1>7, <1>8, <1>9 DEF Next

(* The client gets the messages sent, each once and in the order in which  *)
(* they were sent, and has got all of them when nothing is under way; as   *)
(* long as no write (async_write) starts while another is under way.  Of a *)
(* frame of more messages than its header can count (marshalPayload) it    *)
(* gets the first ones, and the frames after it all the same.  This is for *)
(* any size of the socket, any filters and batches of any length: nothing  *)
(* the model bounds is needed, and the condition is what the code lacks.   *)
THEOREM StreamStaysIntact == Spec => []StreamIsIntact
PROOF
<1> QED
  BY InitStream, NextStream, StreamInvIntact, PTL DEF Spec
=============================================================================
