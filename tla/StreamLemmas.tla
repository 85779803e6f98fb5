---------------------------- MODULE StreamLemmas ----------------------------
(***************************************************************************)
(* Induction over the natural numbers for a set; what FlattenSeq, by which *)
(* the models put buffers and programs end to end, does with sequences     *)
(* that grow and shrink; messages and their tags; what a program, a        *)
(* sequence of instructions, makes of them one after the other; channels  *)
(* between parties that each run a program; and division, pieces of one    *)
(* length and parts of sequences.                                          *)
(***************************************************************************)
EXTENDS Integers, SequencesExt, FiniteSetTheorems, SequenceTheorems, TLAPS

\* A set with 0 and the successors of its members has all natural numbers.  If
\* it had not n, predecessors would map the numbers up to n that are not in it,
\* injectively, to those without n.
LEMMA InductiveSet ==
  ASSUME NEW T, 0 \in T, \A n \in Nat : n \in T => n + 1 \in T
  PROVE  Nat \subseteq T
<1> SUFFICES ASSUME NEW n \in Nat, n \notin T PROVE FALSE
  OBVIOUS
<1> DEFINE U == { k \in 0 .. n : k \notin T }
           V == U \ {n}
           f == [k \in U |-> k - 1]
<1>1. IsFiniteSet(U) /\ n \in U
  <2>1. IsFiniteSet(0 .. n) /\ U \in SUBSET (0 .. n) /\ n \in U
    BY FS_Interval
  <2> HIDE DEF U
  <2>. QED
    BY <2>1, FS_Subset
<1>2. f \in [U -> V]
  OBVIOUS
<1>3. \E x, y \in U : x # y /\ f[x] = f[y]
  <2> HIDE DEF U, f
  <2>1. IsFiniteSet(V) /\ Cardinality(V) < Cardinality(U)
    <3>1. IsFiniteSet(V) /\ Cardinality(V) = Cardinality(U) - 1
      BY <1>1, FS_RemoveElement
    <3>2. Cardinality(U) \in Nat
      BY <1>1, FS_CardinalityType
    <3>. QED
      BY <3>1, <3>2
  <2> HIDE DEF V
  <2>. QED
    BY <1>1, <1>2, <2>1, FS_PigeonHole
<1>. QED
  BY <1>3

\* g runs through the first k members of s: g[i] is i of them, end to end.
RunsTo(g, s, k) ==
  /\ g[0] = << >>
  /\ \A i \in 1 .. k : g[i] = g[i - 1] \o s[i]

HasRun(S, s, k) == \E g \in [0 .. k -> Seq(S)] : RunsTo(g, s, k)

\* There is such a function for every sequence of sequences.
LEMMA RunExists ==
  ASSUME NEW S, NEW s \in Seq(Seq(S))
  PROVE  HasRun(S, s, Len(s))
<1> DEFINE T == { k \in Nat : k <= Len(s) => HasRun(S, s, k) }
<1>1. HasRun(S, s, 0)
  <2> DEFINE g == [i \in 0 .. 0 |-> << >>]
  <2>1. g \in [0 .. 0 -> Seq(S)] /\ RunsTo(g, s, 0)
    BY DEF RunsTo
  <2>. QED
    BY <2>1 DEF HasRun
<1>2. ASSUME NEW k \in Nat, k + 1 <= Len(s), HasRun(S, s, k)
      PROVE  HasRun(S, s, k + 1)
  <2>1. PICK g \in [0 .. k -> Seq(S)] : RunsTo(g, s, k)
    BY <1>2 DEF HasRun
  <2> DEFINE h == [i \in 0 .. k + 1 |-> IF i = k + 1 THEN g[k] \o s[k + 1] ELSE g[i]]
  <2>2. s[k + 1] \in Seq(S) /\ g[k] \in Seq(S) /\ g[k] \o s[k + 1] \in Seq(S)
    BY <1>2
  <2>3. h \in [0 .. k + 1 -> Seq(S)]
    BY <2>2
  <2>4. h[k + 1] = g[k] \o s[k + 1] /\ \A i \in 0 .. k : h[i] = g[i]
    BY SMTT(30)
  <2> HIDE DEF h
  <2>5. g[0] = << >> /\ \A i \in 1 .. k : g[i] = g[i - 1] \o s[i]
    BY <2>1 DEF RunsTo
  <2>6. RunsTo(h, s, k + 1)
    <3>1. h[0] = << >>
      BY <2>4, <2>5, SMTT(30)
    <3>2. ASSUME NEW i \in 1 .. k + 1 PROVE h[i] = h[i - 1] \o s[i]
      <4>1. CASE i = k + 1
        <5>1. i - 1 = k /\ k \in 0 .. k
          BY <4>1
        <5>. QED
          BY <2>4, <4>1, <5>1
      <4>2. CASE i # k + 1
        <5>1. i \in 1 .. k /\ i \in 0 .. k /\ i - 1 \in 0 .. k
          BY <4>2
        <5>. QED
          BY <2>4, <2>5, <5>1
      <4>. QED
        BY <4>1, <4>2
    <3>. QED
      BY <3>1, <3>2 DEF RunsTo
  <2>. QED
    BY <2>3, <2>6 DEF HasRun
<1>3. Len(s) \in T
  <2>1. 0 \in T /\ \A k \in Nat : k \in T => k + 1 \in T
    BY <1>1, <1>2
  <2> HIDE DEF T
  <2>2. Nat \subseteq T
    BY <2>1, InductiveSet
  <2>. QED
    BY <2>2
<1>. QED
  BY <1>3

\* The equation by which FlattenSeq defines a function of its own.
IsFlattening(f, s) == f = [i \in 1 .. Len(s) |-> IF i = 1 THEN s[i] ELSE f[i - 1] \o s[i]]

\* FlattenSeq is where such a function ends.
LEMMA FlattenIsRun ==
  ASSUME NEW S, NEW s \in Seq(Seq(S)), NEW g \in [0 .. Len(s) -> Seq(S)], RunsTo(g, s, Len(s))
  PROVE  FlattenSeq(s) = g[Len(s)]
<1>1. CASE Len(s) = 0
  BY <1>1 DEF FlattenSeq, RunsTo
<1>2. CASE Len(s) # 0
  <2> DEFINE c == CHOOSE f : IsFlattening(f, s)
             fg == [i \in 1 .. Len(s) |-> g[i]]
             T == { k \in Nat : \A j \in 1 .. Len(s) : j <= k => c[j] = g[j] }
  <2>1. FlattenSeq(s) = c[Len(s)]
    BY <1>2 DEF FlattenSeq, IsFlattening
  <2>2. \A i \in 1 .. Len(s) : g[i] = IF i = 1 THEN s[i] ELSE fg[i - 1] \o s[i]
    <3> SUFFICES ASSUME NEW i \in 1 .. Len(s)
                 PROVE  g[i] = IF i = 1 THEN s[i] ELSE fg[i - 1] \o s[i]
      OBVIOUS
    <3>1. g[i] = g[i - 1] \o s[i] /\ s[i] \in Seq(S)
      BY SMTT(30) DEF RunsTo
    <3>2. CASE i = 1
      <4>1. << >> \o s[i] = s[i]
        BY <3>1, ConcatEmptySeq
      <4>2. g[0] = << >> /\ i - 1 = 0
        BY <3>2 DEF RunsTo
      <4>3. g[i] = s[i]
        BY <3>1, <4>1, <4>2
      <4>. QED
        BY <3>2, <4>3
    <3>3. CASE i # 1
      <4>1. i - 1 \in 1 .. Len(s)
        BY <3>3
      <4>2. fg[i - 1] = g[i - 1]
        BY <4>1
      <4> HIDE DEF fg
      <4>. QED
        BY <3>1, <3>3, <4>2
    <3>. QED
      BY <3>2, <3>3
  <2>3. IsFlattening(fg, s)
    BY <2>2 DEF IsFlattening
  <2>4. IsFlattening(c, s)
    <3> HIDE DEF fg
    <3>. QED
      BY <2>3
  <2> HIDE DEF c
  <2>5. \A i \in 1 .. Len(s) : c[i] = IF i = 1 THEN s[i] ELSE c[i - 1] \o s[i]
    BY <2>4 DEF IsFlattening
  <2>6. ASSUME NEW k \in Nat, k \in T PROVE k + 1 \in T
    <3> SUFFICES ASSUME NEW j \in 1 .. Len(s), j = k + 1 PROVE c[j] = g[j]
      BY <2>6, SMTT(30)
    <3>1. CASE j = 1
      BY <2>2, <2>5, <3>1
    <3>2. CASE j # 1
      <4>1. j - 1 \in 1 .. Len(s) /\ j - 1 <= k
        BY <3>2
      <4>2. c[j - 1] = g[j - 1] /\ fg[j - 1] = g[j - 1]
        BY <2>6, <4>1
      <4> HIDE DEF fg
      <4>. QED
        BY <2>2, <2>5, <3>2, <4>2
    <3>. QED
      BY <3>1, <3>2
  <2>7. 0 \in T
    OBVIOUS
  <2>8. Len(s) \in T
    <3> HIDE DEF T
    <3>1. Nat \subseteq T
      BY <2>6, <2>7, InductiveSet
    <3>. QED
      BY <3>1
  <2>. QED
    BY <1>2, <2>1, <2>8
<1>. QED
  BY <1>1, <1>2

\* What is flattened is a sequence of the members' members.
LEMMA FlattenType ==
  ASSUME NEW S, NEW s \in Seq(Seq(S))
  PROVE  FlattenSeq(s) \in Seq(S)
<1>1. PICK g \in [0 .. Len(s) -> Seq(S)] : RunsTo(g, s, Len(s))
  BY RunExists DEF HasRun
<1>2. FlattenSeq(s) = g[Len(s)]
  BY <1>1, FlattenIsRun
<1>. QED
  BY <1>2

\* Nothing in pieces is nothing.
LEMMA FlattenEmpty == FlattenSeq(<< >>) = << >>
BY DEF FlattenSeq

\* A member that is appended comes at the end.
LEMMA FlattenAppend ==
  ASSUME NEW S, NEW s \in Seq(Seq(S)), NEW e \in Seq(S)
  PROVE  FlattenSeq(Append(s, e)) = FlattenSeq(s) \o e
<1> DEFINE t == Append(s, e)
           n == Len(s)
<1>1. t \in Seq(Seq(S)) /\ Len(t) = n + 1 /\ t[n + 1] = e /\ n \in Nat
      /\ \A i \in 1 .. n : t[i] = s[i]
  OBVIOUS
<1> HIDE DEF t
<1>2. PICK g \in [0 .. n + 1 -> Seq(S)] : RunsTo(g, t, n + 1)
  BY <1>1, RunExists DEF HasRun
<1> DEFINE h == [i \in 0 .. n |-> g[i]]
<1>3. h \in [0 .. n -> Seq(S)] /\ RunsTo(h, s, n) /\ h[n] = g[n]
  <2>1. h \in [0 .. n -> Seq(S)] /\ \A i \in 0 .. n : h[i] = g[i]
    BY <1>1, <1>2
  <2> HIDE DEF h
  <2>2. g[0] = << >> /\ \A i \in 1 .. n + 1 : g[i] = g[i - 1] \o t[i]
    BY <1>2 DEF RunsTo
  <2>3. ASSUME NEW i \in 1 .. n PROVE h[i] = h[i - 1] \o s[i]
    <3>1. i \in 1 .. n + 1 /\ i \in 0 .. n /\ i - 1 \in 0 .. n
      BY <1>1
    <3>. QED
      BY <1>1, <2>1, <2>2, <3>1
  <2>4. 0 \in 0 .. n /\ n \in 0 .. n
    BY <1>1
  <2>5. RunsTo(h, s, n)
    BY <2>1, <2>2, <2>3, <2>4 DEF RunsTo
  <2>. QED
    BY <2>1, <2>4, <2>5
<1>4. FlattenSeq(s) = g[n]
  <2> HIDE DEF h
  <2>. QED
    BY <1>3, FlattenIsRun
<1>5. FlattenSeq(t) = g[n + 1]
  BY <1>1, <1>2, FlattenIsRun
<1>6. g[n + 1] = g[n] \o e
  <2>1. \A i \in 1 .. n + 1 : g[i] = g[i - 1] \o t[i]
    BY <1>2 DEF RunsTo
  <2>2. PICK j \in 1 .. n + 1 : j = n + 1 /\ j - 1 = n
    BY <1>1
  <2>3. g[j] = g[j - 1] \o t[j]
    BY <2>1
  <2>. QED
    BY <1>1, <2>2, <2>3
<1>. QED
  BY <1>4, <1>5, <1>6 DEF t

\* Three sequences end to end.
LEMMA ThreeParts ==
  ASSUME NEW S
  PROVE  \A a, b, c \in Seq(S) : a \o (b \o c) = (a \o b) \o c
BY ConcatAssociative, SMTT(30)

\* The first member comes at the beginning.
LEMMA FlattenHead ==
  ASSUME NEW S, NEW s \in Seq(Seq(S)), s # << >>
  PROVE  FlattenSeq(s) = Head(s) \o FlattenSeq(Tail(s))
<1> DEFINE t == Tail(s)
           n == Len(t)
           d == Head(s)
           rest(h, i) == IF i = 0 THEN << >> ELSE d \o h[i - 1]
<1>0. \A a, b, c \in Seq(S) : a \o (b \o c) = (a \o b) \o c
  BY ThreeParts, SMTT(30)
<1>1. /\ t \in Seq(Seq(S)) /\ n \in Nat /\ Len(s) = n + 1
      /\ d \in Seq(S) /\ s[1] = d
      /\ \A i \in 1 .. n : t[i] = s[i + 1] /\ t[i] \in Seq(S)
  OBVIOUS
<1> HIDE DEF t, d
<1>2. PICK h \in [0 .. n -> Seq(S)] : RunsTo(h, t, n)
  BY <1>1, RunExists DEF HasRun
<1>3. h[0] = << >> /\ \A i \in 1 .. n : h[i] = h[i - 1] \o t[i]
  BY <1>2 DEF RunsTo
<1> DEFINE g == [i \in 0 .. n + 1 |-> rest(h, i)]
<1>4. g \in [0 .. n + 1 -> Seq(S)]
  BY <1>1
<1>5. g[0] = << >> /\ \A i \in 1 .. n + 1 : g[i] = d \o h[i - 1]
  BY <1>1
<1> HIDE DEF g
<1>6. ASSUME NEW i \in 1 .. n + 1 PROVE g[i] = g[i - 1] \o s[i]
  <2>1. g[i] = d \o h[i - 1]
    BY <1>5
  <2>2. CASE i = 1
    <3>1. i - 1 = 0
      BY <2>2
    <3>2. g[i] = d \o << >> /\ g[i - 1] \o s[i] = << >> \o d
      BY <1>1, <1>3, <1>5, <2>1, <2>2, <3>1
    <3>. QED
      BY <1>1, <3>2, ConcatEmptySeq
  <2>3. CASE i # 1
    <3>1. i - 1 \in 1 .. n /\ i - 1 \in 1 .. n + 1 /\ i - 1 - 1 \in 0 .. n /\ i - 1 + 1 = i
      BY <1>1, <2>3
    <3>2. h[i - 1] = h[i - 1 - 1] \o t[i - 1] /\ t[i - 1] = s[i] /\ s[i] \in Seq(S)
      BY <1>1, <1>3, <3>1
    <3>3. g[i - 1] = d \o h[i - 1 - 1]
      BY <1>5, <3>1
    <3>4. PICK x \in Seq(S) : x = h[i - 1 - 1]
      BY <3>1
    <3>5. PICK e \in Seq(S) : e = s[i]
      BY <3>2
    <3>6. d \o (x \o e) = (d \o x) \o e
      <4>1. d \in Seq(S)
        BY <1>1
      <4>. QED
        BY <4>1, <1>0, Zenon
    <3>. QED
      BY <2>1, <3>2, <3>3, <3>4, <3>5, <3>6
  <2>. QED
    BY <2>2, <2>3
<1>7. RunsTo(g, s, n + 1)
  BY <1>5, <1>6 DEF RunsTo
<1>8. FlattenSeq(s) = g[n + 1]
  BY <1>1, <1>4, <1>7, FlattenIsRun
<1>9. FlattenSeq(t) = h[n]
  BY <1>1, <1>2, FlattenIsRun
<1>10. g[n + 1] = d \o h[n]
  <2>1. n + 1 \in 1 .. n + 1 /\ n + 1 - 1 = n
    BY <1>1
  <2>. QED
    BY <1>5, <2>1
<1>. QED
  BY <1>8, <1>9, <1>10 DEF t, d

-----------------------------------------------------------------------------
(* Splitting a sequence in two, and prefixes.                               *)

\* The first n members and the others are the sequence.
LEMMA SplitAt ==
  ASSUME NEW S, NEW s \in Seq(S), NEW n \in 0 .. Len(s)
  PROVE  /\ SubSeq(s, 1, n) \in Seq(S) /\ SubSeq(s, n + 1, Len(s)) \in Seq(S)
         /\ Len(SubSeq(s, 1, n)) = n /\ Len(SubSeq(s, n + 1, Len(s))) = Len(s) - n
         /\ SubSeq(s, 1, n) \o SubSeq(s, n + 1, Len(s)) = s
<1>1. SubSeq(s, 1, n) \in Seq(S) /\ Len(SubSeq(s, 1, n)) = n
  OBVIOUS
<1>2. SubSeq(s, n + 1, Len(s)) \in Seq(S) /\ Len(SubSeq(s, n + 1, Len(s))) = Len(s) - n
  OBVIOUS
<1>3. SubSeq(s, 1, n) \o SubSeq(s, n + 1, Len(s)) = SubSeq(s, 1, Len(s))
  <2>1. 1 \in 1 .. Len(s) + 1 /\ n \in 1 - 1 .. Len(s) /\ Len(s) \in n .. Len(s)
    OBVIOUS
  <2>. QED
    BY <2>1, ConcatAdjacentSubSeq
<1>4. SubSeq(s, 1, Len(s)) = s
  BY SubSeqFull
<1>. QED
  BY <1>1, <1>2, <1>3, <1>4

\* A sequence is a prefix of whatever begins with it.
LEMMA PrefixOfConcat ==
  ASSUME NEW S, NEW s \in Seq(S), NEW t \in Seq(S)
  PROVE  IsPrefix(s, s \o t)
BY DEF IsPrefix

\* What begins with a sequence is that and something behind it.
LEMMA PrefixRest ==
  ASSUME NEW S, NEW s \in Seq(S), NEW t \in Seq(S), IsPrefix(s, t)
  PROVE  \E r \in Seq(S) : t = s \o r
<1>1. Len(s) \in 0 .. Len(t) /\ SubSeq(t, 1, Len(s)) = SubSeq(s, 1, Len(s))
  BY DEF IsPrefix
<1>2. SubSeq(s, 1, Len(s)) = s
  BY SubSeqFull
<1>3. /\ SubSeq(t, Len(s) + 1, Len(t)) \in Seq(S)
      /\ SubSeq(t, 1, Len(s)) \o SubSeq(t, Len(s) + 1, Len(t)) = t
  BY <1>1, SplitAt
<1>. QED
  BY <1>1, <1>2, <1>3

\* It is longer with anything behind it.
LEMMA LongerConcat ==
  ASSUME NEW S, NEW s \in Seq(S), NEW t \in Seq(S), t # << >>
  PROVE  Len(s \o t) > Len(s)
OBVIOUS

\* The numbers from 1 to m, and those from m + 1 to m + n, are those to m + n.
LEMMA CountingOn ==
  ASSUME NEW m \in Nat, NEW n \in Nat
  PROVE  [i \in 1 .. m - 1 + 1 |-> 1 + i - 1] \o [i \in 1 .. m + n - (m + 1) + 1 |-> m + 1 + i - 1]
         = [i \in 1 .. m + n - 1 + 1 |-> 1 + i - 1]
OBVIOUS

\* What is left of two equal halves when the first begins the other's beginning.
LEMMA Cancel ==
  ASSUME NEW S, NEW s \in Seq(S), NEW u \in Seq(S), NEW a \in Seq(S), NEW b \in Seq(S),
         s \o u = a \o b, Len(a) <= Len(s)
  PROVE  SubSeq(s, Len(a) + 1, Len(s)) \o u = b
<1>1. PICK n \in Nat : n = Len(a)
  OBVIOUS
<1>2. PICK m \in Nat : m = Len(s)
  OBVIOUS
<1>3. PICK l \in Nat : l = Len(b)
  OBVIOUS
<1>4. PICK k \in Nat : k = Len(u)
  OBVIOUS
<1>5. PICK r : r = SubSeq(s, n + 1, m)
  OBVIOUS
<1>6. PICK j \in Nat : j = m - n
  <2>1. n <= m
    BY <1>1, <1>2
  <2>. QED
    BY <2>1
<1>7. r \in Seq(S) /\ Len(r) = j /\ \A i \in 1 .. j : r[i] = s[i + n]
  BY <1>1, <1>2, <1>5, <1>6
<1>8. m + k = n + l
  <2>1. Len(s \o u) = m + k /\ Len(a \o b) = n + l
    BY <1>1, <1>2, <1>3, <1>4
  <2>. QED
    BY <2>1
<1>9. r \o u \in Seq(S) /\ Len(r \o u) = l
  <2>1. r \o u \in Seq(S) /\ Len(r \o u) = j + k
    BY <1>4, <1>7, ConcatProperties
  <2>. QED
    BY <1>6, <1>8, <2>1
<1>10. ASSUME NEW i \in 1 .. l PROVE (r \o u)[i] = b[i]
  <2>1. (a \o b)[i + n] = b[i]
    BY <1>1, <1>3
  <2>2. CASE i <= j
    <3>1. (r \o u)[i] = s[i + n]
      BY <1>7, <2>2
    <3>2. i + n \in 1 .. m
      BY <1>6, <2>2
    <3>3. (s \o u)[i + n] = s[i + n]
      BY <1>2, <3>2
    <3>. QED
      BY <2>1, <3>1, <3>3
  <2>3. CASE ~(i <= j)
    <3>1. PICK h \in 1 .. k : h = i - j
      BY <1>6, <1>8, <2>3
    <3>2. (r \o u)[j + h] = u[h]
      <4>0. PICK z \in Nat : z = j + h
        OBVIOUS
      <4>1. \A x \in 1 .. j + k : (r \o u)[x] = IF x <= j THEN r[x] ELSE u[x - j]
        <5>1. \A x \in 1 .. Len(r) + Len(u) : (r \o u)[x] = IF x <= Len(r) THEN r[x] ELSE u[x - Len(r)]
          <6>1. r \in Seq(S) /\ u \in Seq(S)
            BY <1>7
          <6>. QED
            BY <6>1, ConcatProperties
        <5>2. Len(r) = j /\ Len(u) = k
          BY <1>4, <1>7
        <5>. QED
          BY <5>1, <5>2
      <4>2. z \in 1 .. j + k /\ ~(z <= j) /\ z - j = h
        BY <4>0
      <4>3. (r \o u)[z] = u[h]
        BY <4>1, <4>2
      <4>. QED
        BY <4>0, <4>3
    <3>3. (s \o u)[m + h] = u[h]
      <4>0. PICK z \in Nat : z = m + h
        OBVIOUS
      <4>1. \A x \in 1 .. m + k : (s \o u)[x] = IF x <= m THEN s[x] ELSE u[x - m]
        BY <1>2, <1>4, ConcatProperties
      <4>2. z \in 1 .. m + k /\ ~(z <= m) /\ z - m = h
        BY <4>0
      <4>3. (s \o u)[z] = u[h]
        BY <4>1, <4>2
      <4>. QED
        BY <4>0, <4>3
    <3>4. i + n = m + h /\ i = j + h
      BY <1>6, <3>1
    <3>. QED
      BY <2>1, <3>2, <3>3, <3>4
  <2>. QED
    BY <2>2, <2>3
<1>11. b \in Seq(S) /\ Len(b) = l
  BY <1>3
<1>12. r \o u = b
  BY <1>9, <1>10, <1>11, SeqEqual
<1>. QED
  BY <1>1, <1>2, <1>5, <1>12

\* A sequence of some length is not the empty one.
LEMMA NotEmpty ==
  ASSUME NEW S, NEW s \in Seq(S), Len(s) # 0
  PROVE  s # << >>
BY EmptySeq

\* Four sequences in one.
LEMMA FlattenFour ==
  ASSUME NEW S, NEW g \in Seq(Seq(S)), Len(g) = 4
  PROVE  FlattenSeq(g) = g[1] \o (g[2] \o (g[3] \o g[4]))
<1>0. PICK T : T = Seq(S)
  OBVIOUS
<1>1. g # << >>
  BY <1>0, EmptySeq
<1>2. PICK t1 : t1 = Tail(g)
  OBVIOUS
<1>3. t1 \in Seq(Seq(S)) /\ Len(t1) = 3 /\ t1 # << >> /\ \A i \in 1 .. 3 : t1[i] = g[i + 1]
  <2>1. /\ t1 \in Seq(Seq(S)) /\ Len(t1) = Len(g) - 1
        /\ \A i \in 1 .. Len(t1) : t1[i] = g[i + 1]
    BY <1>2, <1>1, HeadTailProperties
  <2>2. Len(t1) = 3
    BY <2>1
  <2>4. t1 \in Seq(T)
    BY <1>0, <2>1
  <2>3. Len(t1) # 0
    BY <2>2
  <2>5. t1 # << >>
    BY <2>3, <2>4, NotEmpty
  <2>. QED
    BY <2>1, <2>2, <2>5
<1>4. PICK t2 : t2 = Tail(t1)
  OBVIOUS
<1>5. t2 \in Seq(Seq(S)) /\ Len(t2) = 2 /\ t2 # << >> /\ \A i \in 1 .. 2 : t2[i] = t1[i + 1]
  <2>1. /\ t2 \in Seq(Seq(S)) /\ Len(t2) = Len(t1) - 1
        /\ \A i \in 1 .. Len(t2) : t2[i] = t1[i + 1]
    BY <1>3, <1>4, HeadTailProperties
  <2>2. Len(t2) = 2
    BY <1>3, <2>1
  <2>4. t2 \in Seq(T)
    BY <1>0, <2>1
  <2>3. Len(t2) # 0
    BY <2>2
  <2>5. t2 # << >>
    BY <2>3, <2>4, NotEmpty
  <2>. QED
    BY <2>1, <2>2, <2>5
<1>6. PICK t3 : t3 = Tail(t2)
  OBVIOUS
<1>7. t3 \in Seq(Seq(S)) /\ Len(t3) = 1 /\ t3[1] = t2[2]
  <2>1. /\ t3 \in Seq(Seq(S)) /\ Len(t3) = Len(t2) - 1
        /\ \A i \in 1 .. Len(t3) : t3[i] = t2[i + 1]
    BY <1>5, <1>6, HeadTailProperties
  <2>. QED
    BY <1>5, <2>1
<1>8. t1[1] = g[2] /\ t2[1] = g[3] /\ t3[1] = g[4]
  BY <1>3, <1>5, <1>7
<1>9. FlattenSeq(t3) = g[4]
  <2>0. PICK e : e = t3[1]
    OBVIOUS
  <2>1. t3 = << e >> /\ e \in Seq(S)
    <3>1. e \in Seq(S)
      <4>1. t3 \in Seq(T) /\ 1 \in 1 .. Len(t3)
        BY <1>0, <1>7
      <4>2. t3[1] \in T
        BY <4>1, ElementOfSeq
      <4>. QED
        BY <1>0, <2>0, <4>2
    <3>2. << e >> \in Seq(Seq(S)) /\ Len(<< e >>) = 1 /\ << e >>[1] = e
      BY <3>1
    <3>3. \A i \in 1 .. 1 : t3[i] = << e >>[i]
      BY <2>0, <3>2
    <3>. QED
      BY <1>7, <3>1, <3>2, <3>3, SeqEqual
  <2>4. Append(<< >>, e) = << e >> /\ << >> \in Seq(Seq(S))
    OBVIOUS
  <2>2. FlattenSeq(Append(<< >>, e)) = FlattenSeq(<< >>) \o e
    BY <2>1, <2>4, FlattenAppend
  <2>3. << >> \o e = e
    BY <2>1
  <2>. QED
    BY <1>8, <2>0, <2>1, <2>2, <2>3, <2>4, FlattenEmpty
<1>10. FlattenSeq(t2) = g[3] \o g[4]
  <2>1. FlattenSeq(t2) = Head(t2) \o FlattenSeq(Tail(t2)) /\ Head(t2) = t2[1]
    BY <1>5, FlattenHead
  <2>. QED
    BY <1>6, <1>8, <1>9, <2>1
<1>11. FlattenSeq(t1) = g[2] \o (g[3] \o g[4])
  <2>1. FlattenSeq(t1) = Head(t1) \o FlattenSeq(Tail(t1)) /\ Head(t1) = t1[1]
    BY <1>3, FlattenHead
  <2>. QED
    BY <1>4, <1>8, <1>10, <2>1
<1>12. FlattenSeq(g) = Head(g) \o FlattenSeq(Tail(g)) /\ Head(g) = g[1]
  BY <1>1, FlattenHead
<1>. QED
  BY <1>2, <1>11, <1>12

-----------------------------------------------------------------------------
(* Messages and their tags.  Of the values they carry nothing is known.      *)

IsSeq(s) == s \in Seq(Range(s))

TagsOf(s) == [i \in 1 .. Len(s) |-> s[i].tag]

\* A sequence over any set is one over its own members.
LEMMA OwnMembers ==
  ASSUME NEW S, NEW s \in Seq(S)
  PROVE  IsSeq(s)
<1>1. Len(s) \in Nat /\ s \in [1 .. Len(s) -> Range(s)]
  BY DEF Range
<1>. QED
  BY <1>1 DEF IsSeq

\* What has the places from 1 to a number is a sequence.
LEMMA FromPlaces ==
  ASSUME NEW n \in Nat, NEW s, s = [i \in 1 .. n |-> s[i]]
  PROVE  IsSeq(s) /\ Len(s) = n
<1>1. s \in [1 .. n -> Range(s)]
  BY DEF Range
<1>2. s \in Seq(Range(s))
  BY <1>1
<1>. QED
  BY <1>1, <1>2 DEF IsSeq

\* Tags come behind tags as messages do behind messages.
LEMMA TagsBehind ==
  ASSUME NEW s, NEW m, IsSeq(s), IsSeq(m)
  PROVE  /\ IsSeq(s \o m) /\ Len(s \o m) = Len(s) + Len(m)
         /\ TagsOf(s \o m) = TagsOf(s) \o TagsOf(m)
<1> DEFINE R == Range(s) \cup Range(m)
<1>1. s \in Seq(R) /\ m \in Seq(R) /\ Len(s) \in Nat /\ Len(m) \in Nat
  BY DEF IsSeq
<1>2. s \o m \in Seq(R) /\ Len(s \o m) = Len(s) + Len(m)
  BY <1>1
<1>3. IsSeq(s \o m)
  BY <1>2, OwnMembers
<1>4. PICK c : c = s \o m
  OBVIOUS
<1>5. /\ \A i \in 1 .. Len(s) : c[i] = s[i]
      /\ \A i \in 1 .. Len(s) + Len(m) : i > Len(s) => c[i] = m[i - Len(s)]
  BY <1>1, <1>4
<1>6. /\ TagsOf(c) = [i \in 1 .. Len(s) + Len(m) |-> c[i].tag]
      /\ IsSeq(TagsOf(s)) /\ IsSeq(TagsOf(m)) /\ Len(TagsOf(s)) = Len(s) /\ Len(TagsOf(m)) = Len(m)
  BY <1>1, <1>2, <1>4, FromPlaces DEF TagsOf
<1>7. TagsOf(s) \o TagsOf(m) = [i \in 1 .. Len(s) + Len(m) |->
        IF i <= Len(s) THEN TagsOf(s)[i] ELSE TagsOf(m)[i - Len(s)]]
  <2>1. PICK x, y : x = TagsOf(s) /\ y = TagsOf(m)
    OBVIOUS
  <2>2. PICK Q : Q = Range(x) \cup Range(y)
    OBVIOUS
  <2>3. x \in Seq(Q) /\ y \in Seq(Q)
    BY <1>6, <2>1, <2>2 DEF IsSeq
  <2>4. PICK z : z = x \o y
    OBVIOUS
  <2>5. /\ z \in Seq(Q) /\ Len(z) = Len(x) + Len(y) /\ Len(x) \in Nat /\ Len(y) \in Nat
        /\ \A i \in 1 .. Len(x) + Len(y) : z[i] = IF i <= Len(x) THEN x[i] ELSE y[i - Len(x)]
    BY <2>3, <2>4, ConcatProperties
  <2>6. z = [i \in 1 .. Len(x) + Len(y) |-> z[i]]
    BY <2>5
  <2>. QED
    BY <1>6, <2>1, <2>4, <2>5, <2>6
<1>8. /\ \A i \in 1 .. Len(s) : TagsOf(s)[i] = s[i].tag
      /\ \A i \in 1 .. Len(m) : TagsOf(m)[i] = m[i].tag
  BY DEF TagsOf
<1>9. TagsOf(c) = TagsOf(s) \o TagsOf(m)
  BY <1>1, <1>5, <1>6, <1>7, <1>8
<1>. QED
  BY <1>2, <1>3, <1>4, <1>9

\* The tags of what is left are what is left of the tags.
LEMMA TagsLeft ==
  ASSUME NEW s, IsSeq(s), NEW n \in 0 .. Len(s)
  PROVE  /\ IsSeq(SubSeq(s, n + 1, Len(s)))
         /\ Len(TagsOf(s)) = Len(s)
         /\ TagsOf(SubSeq(s, n + 1, Len(s))) = SubSeq(TagsOf(s), n + 1, Len(s))
<1>1. s \in Seq(Range(s)) /\ Len(s) \in Nat
  BY DEF IsSeq
<1>2. PICK r : r = SubSeq(s, n + 1, Len(s))
  OBVIOUS
<1>3. r \in Seq(Range(s)) /\ Len(r) = Len(s) - n /\ \A i \in 1 .. Len(r) : r[i] = s[i + n]
  BY <1>1, <1>2
<1>4. IsSeq(r)
  BY <1>3, OwnMembers
<1>5. PICK t : t = TagsOf(s)
  OBVIOUS
<1>6. t = [i \in 1 .. Len(s) |-> t[i]] /\ \A i \in 1 .. Len(s) : t[i] = s[i].tag
  BY <1>5 DEF TagsOf
<1>7. IsSeq(t) /\ Len(t) = Len(s)
  BY <1>1, <1>6, FromPlaces
<1>8. t \in Seq(Range(t))
  BY <1>7 DEF IsSeq
<1>9. SubSeq(t, n + 1, Len(s)) = [i \in 1 .. Len(s) - n |-> t[i + n]]
  BY <1>7, <1>8
<1>10. TagsOf(r) = [i \in 1 .. Len(s) - n |-> s[i + n].tag]
  BY <1>3 DEF TagsOf
<1>11. \A i \in 1 .. Len(s) - n : t[i + n] = s[i + n].tag
  BY <1>1, <1>6
<1>. QED
  BY <1>2, <1>4, <1>5, <1>7, <1>9, <1>10, <1>11

-----------------------------------------------------------------------------
(* Programs: what a function makes of the members of a sequence, end to end. *)

\* In pieces that are all empty but for two that follow each other there is
\* what these hold.
LEMMA FlattenTwo ==
  ASSUME NEW S, NEW s \in Seq(Seq(S)), NEW k \in Nat, 1 <= k, k + 1 <= Len(s),
         \A i \in 1 .. Len(s) : i # k /\ i # k + 1 => s[i] = << >>
  PROVE  FlattenSeq(s) = s[k] \o s[k + 1]
<1>1. PICK n \in Nat : n = Len(s) /\ k + 1 <= n
  OBVIOUS
<1>2. PICK a, b \in Seq(S) : a = s[k] /\ b = s[k + 1]
  <2>1. k \in 1 .. Len(s) /\ k + 1 \in 1 .. Len(s)
    BY <1>1
  <2>. QED
    BY <2>1
<1>3. PICK ab \in Seq(S) : ab = a \o b
  BY ConcatProperties
<1> DEFINE g == [i \in 0 .. n |-> IF i < k THEN << >> ELSE IF i = k THEN a ELSE ab]
<1>4. g \in [0 .. n -> Seq(S)]
  BY <1>2, <1>3
<1>5. g[n] = ab
  BY <1>1
<1>6. \A i \in 0 .. n : g[i] = IF i < k THEN << >> ELSE IF i = k THEN a ELSE ab
  OBVIOUS
<1> HIDE DEF g
<1>7. ASSUME NEW i \in 1 .. n PROVE g[i] = g[i - 1] \o s[i]
  <2>0. PICK j \in 0 .. n : j = i - 1 /\ j + 1 = i
    OBVIOUS
  <2>1. i \in 0 .. n /\ << >> \in Seq(S)
    OBVIOUS
  <2>2. \A x \in Seq(S) : << >> \o x = x /\ x \o << >> = x
    BY ConcatEmptySeq
  <2>3. CASE i < k
    <3>1. g[i] = << >> /\ g[j] = << >> /\ s[i] = << >>
      <4>1. g[i] = << >> /\ g[j] = << >>
        BY <1>6, <2>0, <2>1, <2>3
      <4>2. i # k /\ i # k + 1 /\ i \in 1 .. Len(s)
        BY <1>1, <2>3
      <4>. QED
        BY <4>1, <4>2
    <3>. QED
      BY <2>0, <2>1, <2>2, <3>1
  <2>4. CASE i = k
    <3>1. g[i] = a /\ g[j] = << >> /\ s[i] = a
      BY <1>2, <1>6, <2>0, <2>1, <2>4
    <3>. QED
      BY <2>0, <2>2, <3>1
  <2>5. CASE i = k + 1
    <3>1. g[i] = ab /\ g[j] = a /\ s[i] = b
      BY <1>2, <1>6, <2>0, <2>1, <2>5
    <3>. QED
      BY <1>3, <2>0, <3>1
  <2>6. CASE i > k + 1
    <3>1. g[i] = ab /\ g[j] = ab /\ s[i] = << >>
      <4>1. g[i] = ab /\ g[j] = ab
        BY <1>6, <2>0, <2>1, <2>6
      <4>2. i # k /\ i # k + 1 /\ i \in 1 .. Len(s)
        BY <1>1, <2>6
      <4>. QED
        BY <4>1, <4>2
    <3>. QED
      BY <2>0, <2>2, <3>1
  <2>. QED
    <3>1. i < k \/ i = k \/ i = k + 1 \/ i > k + 1
      OBVIOUS
    <3>. QED
      BY <2>3, <2>4, <2>5, <2>6, <3>1
<1>8. RunsTo(g, s, n)
  <2>1. g[0] = << >>
    BY <1>6
  <2>. QED
    BY <1>7, <2>1 DEF RunsTo
<1>. QED
  BY <1>1, <1>2, <1>3, <1>4, <1>5, <1>8, FlattenIsRun

\* In pieces that are all empty but for one there is what that one holds.
LEMMA FlattenOne ==
  ASSUME NEW S, NEW s \in Seq(Seq(S)), NEW k \in 1 .. Len(s),
         \A i \in 1 .. Len(s) : i # k => s[i] = << >>
  PROVE  FlattenSeq(s) = s[k]
<1>1. PICK n \in Nat : n = Len(s) /\ k <= n
  OBVIOUS
<1>2. PICK a \in Seq(S) : a = s[k]
  OBVIOUS
<1> DEFINE g == [i \in 0 .. n |-> IF i < k THEN << >> ELSE a]
<1>4. g \in [0 .. n -> Seq(S)]
  BY <1>2
<1>5. g[n] = a
  BY <1>1
<1>6. \A i \in 0 .. n : g[i] = IF i < k THEN << >> ELSE a
  OBVIOUS
<1> HIDE DEF g
<1>7. ASSUME NEW i \in 1 .. n PROVE g[i] = g[i - 1] \o s[i]
  <2>0. PICK j \in 0 .. n : j = i - 1 /\ j + 1 = i
    OBVIOUS
  <2>1. i \in 0 .. n /\ << >> \in Seq(S)
    OBVIOUS
  <2>2. \A x \in Seq(S) : << >> \o x = x /\ x \o << >> = x
    BY ConcatEmptySeq
  <2>3. CASE i < k
    <3>1. g[i] = << >> /\ g[j] = << >> /\ s[i] = << >>
      BY <1>1, <1>6, <2>0, <2>1, <2>3, SMTT(30)
    <3>. QED
      BY <2>0, <2>1, <2>2, <3>1
  <2>4. CASE i = k
    <3>1. g[i] = a /\ g[j] = << >> /\ s[i] = a
      BY <1>2, <1>6, <2>0, <2>1, <2>4
    <3>. QED
      BY <2>0, <2>2, <3>1
  <2>6. CASE i > k
    <3>1. g[i] = a /\ g[j] = a /\ s[i] = << >>
      <4>1. g[i] = a /\ g[j] = a
        BY <1>6, <2>0, <2>1, <2>6
      <4>2. i # k /\ i \in 1 .. Len(s)
        BY <1>1, <2>6
      <4>. QED
        BY <4>1, <4>2
    <3>. QED
      BY <2>0, <2>2, <3>1
  <2>. QED
    <3>1. k \in Nat /\ (i < k \/ i = k \/ i > k)
      BY <1>1
    <3>. QED
      BY <2>3, <2>4, <2>6, <3>1
<1>8. RunsTo(g, s, n)
  <2>1. g[0] = << >>
    BY <1>6
  <2>. QED
    BY <1>7, <2>1 DEF RunsTo
<1>. QED
  BY <1>1, <1>2, <1>4, <1>5, <1>8, FlattenIsRun

\* In empty pieces there is nothing.
LEMMA FlattenNothing ==
  ASSUME NEW S, NEW s \in Seq(Seq(S)), \A i \in 1 .. Len(s) : s[i] = << >>
  PROVE  FlattenSeq(s) = << >>
<1>1. CASE Len(s) = 0
  BY <1>1 DEF FlattenSeq
<1>2. CASE Len(s) # 0
  <2>1. 1 \in 1 .. Len(s)
    BY <1>2
  <2>. QED
    BY <2>1, FlattenOne
<1>. QED
  BY <1>1, <1>2

\* Pieces of one member each.
LEMMA FlattenSingles ==
  ASSUME NEW S, NEW t \in Seq(S), NEW s \in Seq(Seq(S)), Len(s) = Len(t),
         \A i \in 1 .. Len(s) : s[i] = << t[i] >>
  PROVE  FlattenSeq(s) = t
<1>1. PICK n \in Nat : n = Len(s) /\ n = Len(t)
  OBVIOUS
<1> DEFINE g == [i \in 0 .. n |-> SubSeq(t, 1, i)]
<1>2. g \in [0 .. n -> Seq(S)] /\ \A i \in 0 .. n : g[i] = SubSeq(t, 1, i)
  BY <1>1
<1> HIDE DEF g
<1>3. g[n] = t
  <2>1. g[n] = SubSeq(t, 1, n)
    BY <1>2
  <2>. QED
    BY <1>1, <2>1, SubSeqFull
<1>4. g[0] = << >>
  BY <1>1, <1>2
<1>5. ASSUME NEW i \in 1 .. n PROVE g[i] = g[i - 1] \o s[i]
  <2>1. PICK j \in 0 .. n : j = i - 1 /\ j + 1 = i /\ i \in 0 .. n
    OBVIOUS
  <2>2. PICK e \in S : e = t[i]
    BY <1>1
  <2>3. PICK x : x = SubSeq(t, 1, j)
    OBVIOUS
  <2>4. x \in Seq(S) /\ Len(x) = j /\ \A h \in 1 .. j : x[h] = t[h]
    BY <1>1, <2>1, <2>3
  <2>5. PICK y : y = SubSeq(t, 1, i)
    OBVIOUS
  <2>6. y \in Seq(S) /\ Len(y) = i /\ \A h \in 1 .. i : y[h] = t[h]
    BY <1>1, <2>1, <2>5
  <2>7. PICK z : z = x \o << e >>
    OBVIOUS
  <2>8. z \in Seq(S) /\ Len(z) = i /\ \A h \in 1 .. i : z[h] = IF h <= j THEN x[h] ELSE e
    BY <2>1, <2>4, <2>7
  <2>9. \A h \in 1 .. i : y[h] = z[h]
    <3>1. TAKE h \in 1 .. i
    <3>2. CASE h <= j
      <4>1. h \in 1 .. j
        BY <3>2
      <4>2. z[h] = x[h] /\ x[h] = t[h] /\ y[h] = t[h]
        BY <2>4, <2>6, <2>8, <3>2, <4>1
      <4>. QED
        BY <4>2
    <3>3. CASE ~(h <= j)
      <4>1. h = i
        BY <2>1, <3>3
      <4>2. y[h] = e
        BY <2>2, <2>6, <4>1
      <4>. QED
        BY <2>8, <3>3, <4>2
    <3>. QED
      BY <3>2, <3>3
  <2>10. y = z
    BY <2>6, <2>8, <2>9, SeqEqual
  <2>11. g[i] = y /\ g[j] = x /\ s[i] = << e >>
    BY <1>1, <1>2, <2>1, <2>2, <2>3, <2>5
  <2>. QED
    BY <2>1, <2>7, <2>10, <2>11
<1>6. RunsTo(g, s, n)
  BY <1>4, <1>5 DEF RunsTo
<1>. QED
  BY <1>1, <1>2, <1>3, <1>6, FlattenIsRun

\* One time more.
LEMMA OneMore == \A k, m \in Nat : k * m \in Nat /\ (k + 1) * m = k * m + m
OBVIOUS

\* Pieces of m members each.
LEMMA FlattenEqual ==
  ASSUME NEW S, NEW s \in Seq(Seq(S)), NEW m \in Nat, \A i \in 1 .. Len(s) : Len(s[i]) = m
  PROVE  FlattenSeq(s) \in Seq(S) /\ Len(FlattenSeq(s)) = Len(s) * m
<1>1. PICK n \in Nat : n = Len(s)
  OBVIOUS
<1>2. PICK g \in [0 .. n -> Seq(S)] : RunsTo(g, s, n)
  BY <1>1, RunExists DEF HasRun
<1>3. FlattenSeq(s) = g[n]
  BY <1>1, <1>2, FlattenIsRun
<1> DEFINE T == { k \in Nat : k <= n => Len(g[k]) = k * m }
<1>4. 0 \in T
  BY <1>2 DEF RunsTo
<1>5. ASSUME NEW k \in Nat, k \in T PROVE k + 1 \in T
  <2> SUFFICES ASSUME k + 1 <= n PROVE Len(g[k + 1]) = (k + 1) * m
    OBVIOUS
  <2>1. PICK a \in Seq(S) : a = g[k] /\ Len(a) = k * m
    BY <1>2, <1>5
  <2>2. PICK b \in Seq(S) : b = s[k + 1] /\ Len(b) = m
    BY <1>1
  <2>3. g[k + 1] = a \o b
    <3>1. \A i \in 1 .. n : g[i] = g[i - 1] \o s[i]
      BY <1>2 DEF RunsTo
    <3>2. PICK i \in 1 .. n : i = k + 1 /\ i - 1 = k
      OBVIOUS
    <3>3. g[i] = g[i - 1] \o s[i]
      BY <3>1
    <3>4. g[i - 1] = a /\ s[i] = b
      BY <2>1, <2>2, <3>2
    <3>. QED
      BY <3>2, <3>3, <3>4, Zenon
  <2>4. Len(a \o b) = Len(a) + Len(b)
    OBVIOUS
  <2>5. Len(a) + Len(b) = (k + 1) * m
    BY <2>1, <2>2, OneMore
  <2>. QED
    BY <2>3, <2>4, <2>5
<1>6. Nat \subseteq T
  <2> HIDE DEF T
  <2>. QED
    BY <1>4, <1>5, InductiveSet
<1>. QED
  BY <1>1, <1>2, <1>3, <1>6

\* Pieces behind pieces.
LEMMA FlattenConcat ==
  ASSUME NEW S, NEW a \in Seq(Seq(S)), NEW b \in Seq(Seq(S))
  PROVE  FlattenSeq(a \o b) = FlattenSeq(a) \o FlattenSeq(b)
<1>0. \A p, q, r \in Seq(S) : p \o (q \o r) = (p \o q) \o r
  BY ThreeParts, SMTT(30)
<1>1. PICK n, m \in Nat : n = Len(a) /\ m = Len(b)
  OBVIOUS
<1>2. PICK g \in [0 .. n -> Seq(S)] : RunsTo(g, a, n)
  BY <1>1, RunExists DEF HasRun
<1>3. PICK h \in [0 .. m -> Seq(S)] : RunsTo(h, b, m)
  BY <1>1, RunExists DEF HasRun
<1>4. PICK c : c = a \o b
  OBVIOUS
<1>5. /\ c \in Seq(Seq(S)) /\ Len(c) = n + m
      /\ \A i \in 1 .. n : c[i] = a[i]
      /\ \A i \in 1 .. m : c[n + i] = b[i]
  <2>1. c \in Seq(Seq(S)) /\ Len(c) = n + m
    BY <1>1, <1>4, ConcatProperties
  <2>2. \A i \in 1 .. n + m : c[i] = IF i <= n THEN a[i] ELSE b[i - n]
    BY <1>1, <1>4, ConcatProperties
  <2>3. \A i \in 1 .. n : i \in 1 .. n + m /\ i <= n
    OBVIOUS
  <2>4. \A i \in 1 .. m : n + i \in 1 .. n + m /\ ~(n + i <= n) /\ n + i - n = i
    OBVIOUS
  <2>. QED
    <3>1. \A i \in 1 .. n : c[i] = a[i]
      BY <2>2, <2>3
    <3>2. ASSUME NEW i \in 1 .. m PROVE c[n + i] = b[i]
      <4>1. PICK j \in 1 .. n + m : j = n + i /\ ~(j <= n) /\ j - n = i
        BY <2>4
      <4>. QED
        BY <2>2, <4>1
    <3>. QED
      BY <2>1, <3>1, <3>2
<1>6. PICK x \in Seq(S) : x = g[n]
  OBVIOUS
<1>7. /\ \A i \in 1 .. n : g[i] = g[i - 1] \o a[i]
      /\ \A i \in 1 .. m : h[i] = h[i - 1] \o b[i]
      /\ g[0] = << >> /\ h[0] = << >>
  BY <1>2, <1>3 DEF RunsTo
<1> DEFINE k == [i \in 0 .. n + m |-> IF i <= n THEN g[i] ELSE x \o h[i - n]]
<1>8. \A i \in 0 .. n : g[i] \in Seq(S)
  OBVIOUS
<1>9. \A i \in 0 .. m : h[i] \in Seq(S) /\ x \o h[i] \in Seq(S)
  BY ConcatProperties
<1>10. k \in [0 .. n + m -> Seq(S)]
  <2>1. \A i \in 0 .. n + m : ~(i <= n) => i - n \in 0 .. m
    OBVIOUS
  <2>2. \A i \in 0 .. n + m : i <= n => i \in 0 .. n
    OBVIOUS
  <2>. QED
    BY <1>8, <1>9, <2>1, <2>2
<1>11. /\ \A i \in 0 .. n : k[i] = g[i]
       /\ \A i \in 0 .. m : i # 0 => k[n + i] = x \o h[i]
  <2>1. \A i \in 0 .. m : i # 0 => n + i \in 0 .. n + m /\ ~(n + i <= n) /\ n + i - n = i
    OBVIOUS
  <2>2. ASSUME NEW i \in 0 .. m, i # 0 PROVE k[n + i] = x \o h[i]
    <3>1. PICK j \in 0 .. n + m : j = n + i /\ ~(j <= n) /\ j - n = i
      BY <2>1, <2>2
    <3>. QED
      BY <3>1
  <2>3. ASSUME NEW i \in 0 .. n PROVE k[i] = g[i]
    <3>1. i \in 0 .. n + m /\ i <= n
      OBVIOUS
    <3>. QED
      BY <3>1
  <2>. QED
    BY <2>2, <2>3
<1> HIDE DEF k
<1>12. \A i \in 0 .. m : k[n + i] = x \o h[i]
  <2>1. TAKE i \in 0 .. m
  <2>2. CASE i = 0
    <3>1. n + i = n /\ n \in 0 .. n
      BY <2>2
    <3>2. x \o << >> = x
      BY ConcatEmptySeq
    <3>. QED
      BY <1>6, <1>7, <1>11, <2>2, <3>1, <3>2
  <2>. QED
    BY <1>11, <2>2
<1>13. ASSUME NEW i \in 1 .. n + m PROVE k[i] = k[i - 1] \o c[i]
  <2>1. CASE i <= n
    <3>1. i \in 1 .. n /\ i \in 0 .. n /\ i - 1 \in 0 .. n
      BY <2>1
    <3>. QED
      BY <1>5, <1>7, <1>11, <3>1
  <2>2. CASE i > n
    <3>1. PICK j \in 1 .. m : j = i - n
      BY <2>2
    <3>2. PICK l \in 0 .. m : l = j - 1
      OBVIOUS
    <3>3. n + j = i /\ n + l = i - 1 /\ j \in 0 .. m
      BY <3>1, <3>2
    <3>4. k[n + j] = x \o h[j] /\ k[n + l] = x \o h[l] /\ c[n + j] = b[j]
      BY <1>5, <1>12, <3>3
    <3>5. h[j] = h[l] \o b[j]
      BY <1>7, <3>2
    <3>6. PICK y, z \in Seq(S) : y = h[l] /\ z = b[j]
      <4>1. b[j] \in Seq(S)
        <5>1. PICK T : T = Seq(S)
          OBVIOUS
        <5>2. b \in Seq(T) /\ j \in 1 .. Len(b)
          BY <1>1, <5>1
        <5>. QED
          BY <5>1, <5>2, ElementOfSeq
      <4>. QED
        BY <1>9, <4>1
    <3>7. x \o (y \o z) = (x \o y) \o z
      <4>2. x \in Seq(S) /\ y \in Seq(S) /\ z \in Seq(S)
        OBVIOUS
      <4>. QED
        BY <1>0, <4>2, Zenon
    <3>. QED
      BY <3>3, <3>4, <3>5, <3>6, <3>7
  <2>. QED
    <3>1. i <= n \/ i > n
      OBVIOUS
    <3>. QED
      BY <2>1, <2>2, <3>1
<1>14. RunsTo(k, c, n + m)
  <2>1. k[0] = << >>
    BY <1>7, <1>11, SMTT(30)
  <2>. QED
    BY <1>13, <2>1 DEF RunsTo
<1>15. FlattenSeq(c) = k[n + m]
  BY <1>5, <1>10, <1>14, FlattenIsRun, ZenonT(60)
<1>16. FlattenSeq(a) = x
  BY <1>1, <1>2, <1>6, FlattenIsRun
<1>17. FlattenSeq(b) = h[m]
  BY <1>1, <1>3, FlattenIsRun
<1>18. k[n + m] = x \o h[m]
  <2>1. m \in 0 .. m
    OBVIOUS
  <2>. QED
    BY <1>12, <2>1
<1>. QED
  BY <1>4, <1>15, <1>16, <1>17, <1>18

\* f makes a sequence of members of T of a member of D.  (The provers find it
\* by its name where they would not find the set of functions.)
Maps(f, D, T) == f \in [D -> Seq(T)]

\* What f makes of the members of s, one by one and end to end.
Pieces(f, s) == [i \in 1 .. Len(s) |-> f[s[i]]]

Projected(f, s) == FlattenSeq(Pieces(f, s))

\* What it makes of those from the n-th on.
Ahead(f, s, n) == Projected(f, SubSeq(s, n, Len(s)))

\* The pieces are as many as the members.
LEMMA PiecesType ==
  ASSUME NEW D, NEW T, NEW f, Maps(f, D, T)
  PROVE  \A s \in Seq(D) :
           /\ Pieces(f, s) \in Seq(Seq(T)) /\ Len(Pieces(f, s)) = Len(s)
           /\ \A i \in 1 .. Len(s) : Pieces(f, s)[i] = f[s[i]]
<1> SUFFICES ASSUME NEW s \in Seq(D)
             PROVE  /\ Pieces(f, s) \in Seq(Seq(T)) /\ Len(Pieces(f, s)) = Len(s)
                    /\ \A i \in 1 .. Len(s) : Pieces(f, s)[i] = f[s[i]]
  OBVIOUS
<1>1. \A i \in 1 .. Len(s) : f[s[i]] \in Seq(T)
  BY DEF Maps
<1>2. PICK U : U = Seq(T)
  OBVIOUS
<1>3. PICK n \in Nat : n = Len(s)
  OBVIOUS
<1>4. PICK g : g = Pieces(f, s)
  OBVIOUS
<1>5. g = [i \in 1 .. n |-> f[s[i]]]
  BY <1>3, <1>4 DEF Pieces
<1>6. g \in Seq(U) /\ Len(g) = n /\ \A i \in 1 .. n : g[i] = f[s[i]]
  BY <1>1, <1>2, <1>3, <1>5
<1>7. g \in Seq(Seq(T))
  BY <1>2, <1>6
<1>. QED
  BY <1>3, <1>4, <1>6, <1>7

\* What they hold, end to end.
LEMMA ProjectedType ==
  ASSUME NEW D, NEW T, NEW f, Maps(f, D, T)
  PROVE  \A s \in Seq(D) : Projected(f, s) \in Seq(T)
<1>1. \A s \in Seq(D) : Pieces(f, s) \in Seq(Seq(T))
  BY PiecesType
<1>. QED
  BY <1>1, FlattenType DEF Projected

\* Of one sequence behind another.
LEMMA ProjectedConcat ==
  ASSUME NEW D, NEW T, NEW f, Maps(f, D, T)
  PROVE  \A a, b \in Seq(D) : Projected(f, a \o b) = Projected(f, a) \o Projected(f, b)
<1> SUFFICES ASSUME NEW a \in Seq(D), NEW b \in Seq(D)
             PROVE  Projected(f, a \o b) = Projected(f, a) \o Projected(f, b)
  OBVIOUS
<1>0. \A r \in Seq(D) : /\ Pieces(f, r) \in Seq(Seq(T)) /\ Len(Pieces(f, r)) = Len(r)
                         /\ \A i \in 1 .. Len(r) : Pieces(f, r)[i] = f[r[i]]
  BY PiecesType
<1>1. PICK n, m \in Nat : n = Len(a) /\ m = Len(b)
  OBVIOUS
<1>2. PICK c : c = a \o b
  OBVIOUS
<1>3. c \in Seq(D) /\ Len(c) = n + m /\ \A i \in 1 .. n + m : c[i] = IF i <= n THEN a[i] ELSE b[i - n]
  BY <1>1, <1>2, ConcatProperties
<1>4. PICK U : U = Seq(T)
  OBVIOUS
<1>5. PICK x, y, z : x = Pieces(f, a) /\ y = Pieces(f, b) /\ z = Pieces(f, c)
  OBVIOUS
<1>6. x \in Seq(U) /\ Len(x) = n /\ \A i \in 1 .. n : x[i] = f[a[i]]
  BY <1>0, <1>1, <1>4, <1>5
<1>7. y \in Seq(U) /\ Len(y) = m /\ \A i \in 1 .. m : y[i] = f[b[i]]
  BY <1>0, <1>1, <1>4, <1>5
<1>8. z \in Seq(U) /\ Len(z) = n + m /\ \A i \in 1 .. n + m : z[i] = f[c[i]]
  BY <1>0, <1>3, <1>4, <1>5
<1>9. PICK w : w = x \o y
  OBVIOUS
<1>10. w \in Seq(U) /\ Len(w) = n + m /\ \A i \in 1 .. n + m : w[i] = IF i <= n THEN x[i] ELSE y[i - n]
  <2>1. \A i \in 1 .. n + m : (x \o y)[i] = IF i <= n THEN x[i] ELSE y[i - n]
    <3>1. x \in Seq(U) /\ y \in Seq(U) /\ Len(x) = n /\ Len(y) = m
      BY <1>6, <1>7
    <3>2. \A i \in 1 .. Len(x) + Len(y) : (x \o y)[i] = IF i <= Len(x) THEN x[i] ELSE y[i - Len(x)]
      BY <3>1, ConcatProperties
    <3>. QED
      BY <3>1, <3>2
  <2>2. x \o y \in Seq(U) /\ Len(x \o y) = n + m
    BY <1>6, <1>7, ConcatProperties
  <2>. QED
    BY <1>9, <2>1, <2>2
<1>11. ASSUME NEW i \in 1 .. n + m PROVE z[i] = w[i]
  <2>1. CASE i <= n
    <3>1. i \in 1 .. n
      BY <2>1
    <3>2. c[i] = a[i] /\ w[i] = x[i] /\ z[i] = f[c[i]]
      BY <1>3, <1>8, <1>10, <2>1
    <3>. QED
      BY <1>6, <3>1, <3>2
  <2>2. CASE ~(i <= n)
    <3>1. PICK j \in 1 .. m : j = i - n
      BY <2>2
    <3>2. c[i] = b[j] /\ w[i] = y[j]
      BY <1>3, <1>10, <2>2, <3>1
    <3>. QED
      BY <1>7, <1>8, <3>2
  <2>. QED
    BY <2>1, <2>2
<1>12. z = w
  BY <1>8, <1>10, <1>11, SeqEqual
<1>13. FlattenSeq(x \o y) = FlattenSeq(x) \o FlattenSeq(y)
  BY <1>4, <1>6, <1>7, FlattenConcat
<1>. QED
  BY <1>2, <1>5, <1>9, <1>12, <1>13 DEF Projected

\* What is made of every piece of a sequence that is put together.
Parted(f, ss) == [i \in 1 .. Len(ss) |-> Projected(f, ss[i])]

\* It has as many members as there are pieces.
LEMMA PartedType ==
  ASSUME NEW D, NEW T, NEW f, Maps(f, D, T)
  PROVE  \A ss \in Seq(Seq(D)) :
           /\ Parted(f, ss) \in Seq(Seq(T)) /\ Len(Parted(f, ss)) = Len(ss)
           /\ \A i \in 1 .. Len(ss) : Parted(f, ss)[i] = Projected(f, ss[i])
<1> SUFFICES ASSUME NEW ss \in Seq(Seq(D))
             PROVE  /\ Parted(f, ss) \in Seq(Seq(T)) /\ Len(Parted(f, ss)) = Len(ss)
                    /\ \A i \in 1 .. Len(ss) : Parted(f, ss)[i] = Projected(f, ss[i])
  OBVIOUS
<1>1. \A i \in 1 .. Len(ss) : Projected(f, ss[i]) \in Seq(T)
  <2>1. TAKE i \in 1 .. Len(ss)
  <2>2. PICK e \in Seq(D) : e = ss[i]
    OBVIOUS
  <2>. QED
    BY <2>2, ProjectedType
<1>2. PICK U : U = Seq(T)
  OBVIOUS
<1>3. PICK n \in Nat : n = Len(ss)
  OBVIOUS
<1>4. PICK g : g = Parted(f, ss)
  OBVIOUS
<1>5. g = [i \in 1 .. n |-> Projected(f, ss[i])]
  BY <1>3, <1>4 DEF Parted
<1>6. g \in Seq(U) /\ Len(g) = n /\ \A i \in 1 .. n : g[i] = Projected(f, ss[i])
  BY <1>1, <1>2, <1>3, <1>5
<1>. QED
  BY <1>2, <1>3, <1>4, <1>6

\* It is the same to make it of the pieces first.
LEMMA ProjectedFlatten ==
  ASSUME NEW D, NEW T, NEW f, Maps(f, D, T)
  PROVE  \A s \in Seq(Seq(D)) : Projected(f, FlattenSeq(s)) = FlattenSeq(Parted(f, s))
<1> SUFFICES ASSUME NEW s \in Seq(Seq(D)) PROVE Projected(f, FlattenSeq(s)) = FlattenSeq(Parted(f, s))
  OBVIOUS
<1> DEFINE Holds(ss) == Projected(f, FlattenSeq(ss)) = FlattenSeq(Parted(f, ss))
           N == { n \in Nat : \A ss \in Seq(Seq(D)) : Len(ss) = n => Holds(ss) }
<1>0. \A r \in Seq(D) : /\ Pieces(f, r) \in Seq(Seq(T)) /\ Len(Pieces(f, r)) = Len(r)
                         /\ \A i \in 1 .. Len(r) : Pieces(f, r)[i] = f[r[i]]
  BY PiecesType
<1>p. \A ss \in Seq(Seq(D)) : /\ Parted(f, ss) \in Seq(Seq(T)) /\ Len(Parted(f, ss)) = Len(ss)
                              /\ \A i \in 1 .. Len(ss) : Parted(f, ss)[i] = Projected(f, ss[i])
  BY PartedType
<1>q. \A a, b \in Seq(D) : Projected(f, a \o b) = Projected(f, a) \o Projected(f, b)
  BY ProjectedConcat
<1>r. \A a \in Seq(D) : Projected(f, a) \in Seq(T)
  BY ProjectedType
<1>1. 0 \in N
  <2>1. ASSUME NEW ss \in Seq(Seq(D)), Len(ss) = 0 PROVE Holds(ss)
    <3>1. FlattenSeq(ss) = << >>
      BY <2>1 DEF FlattenSeq
    <3>2. Len(Parted(f, ss)) = 0
      BY <1>p, <2>1
    <3>3. FlattenSeq(Parted(f, ss)) = << >>
      BY <3>2 DEF FlattenSeq
    <3>4. Projected(f, << >>) = << >>
      <4>1. << >> \in Seq(D) /\ Len(<< >>) = 0
        OBVIOUS
      <4>2. Len(Pieces(f, << >>)) = 0
        BY <1>0, <4>1
      <4>. QED
        BY <4>2 DEF Projected, FlattenSeq
    <3>. QED
      BY <3>1, <3>3, <3>4
  <2>. QED
    BY <2>1
<1>2. ASSUME NEW n \in Nat, n \in N PROVE n + 1 \in N
  <2>1. ASSUME NEW ss \in Seq(Seq(D)), Len(ss) = n + 1 PROVE Holds(ss)
    <3>1. PICK U, V : U = Seq(D) /\ V = Seq(T)
      OBVIOUS
    <3>2. PICK a : a = SubSeq(ss, 1, n)
      OBVIOUS
    <3>3. a \in Seq(U) /\ Len(a) = n /\ \A i \in 1 .. n : a[i] = ss[i]
      BY <2>1, <3>1, <3>2
    <3>4. PICK e \in Seq(D) : e = ss[n + 1]
      <4>1. n + 1 \in 1 .. Len(ss) /\ ss \in Seq(U)
        BY <2>1, <3>1
      <4>2. ss[n + 1] \in U
        BY <4>1, ElementOfSeq
      <4>. QED
        BY <3>1, <4>2
    <3>5. PICK b : b = Append(a, e)
      OBVIOUS
    <3>6. ss = b
      <4>1. b \in Seq(U) /\ Len(b) = n + 1 /\ b[n + 1] = e /\ \A i \in 1 .. n : b[i] = a[i]
        <5>1. a \in Seq(U) /\ e \in U /\ Len(a) = n
          BY <3>1, <3>3
        <5>. QED
          BY <3>5, <5>1
      <4>2. ss \in Seq(U) /\ Len(ss) = n + 1
        BY <2>1, <3>1
      <4>3. ASSUME NEW i \in 1 .. n + 1 PROVE ss[i] = b[i]
        <5>1. CASE i = n + 1
          BY <3>4, <4>1, <5>1
        <5>2. CASE i # n + 1
          <6>1. i \in 1 .. n
            BY <5>2
          <6>. QED
            BY <3>3, <4>1, <6>1
        <5>. QED
          BY <5>1, <5>2
      <4>. QED
        BY <4>1, <4>2, <4>3, SeqEqual
    <3>7. FlattenSeq(ss) = FlattenSeq(a) \o e /\ FlattenSeq(a) \in Seq(D)
      BY <3>1, <3>3, <3>5, <3>6, FlattenAppend, FlattenType
    <3>8. Projected(f, FlattenSeq(ss)) = Projected(f, FlattenSeq(a)) \o Projected(f, e)
      BY <1>q, <3>7
    <3>9. Projected(f, FlattenSeq(a)) = FlattenSeq(Parted(f, a))
      <4>1. a \in Seq(Seq(D)) /\ Len(a) = n
        BY <3>1, <3>3
      <4>. QED
        BY <1>2, <4>1
    <3>10. PICK x, y : x = Parted(f, a) /\ y = Parted(f, ss)
      OBVIOUS
    <3>11. x \in Seq(V) /\ Len(x) = n /\ \A i \in 1 .. n : x[i] = Projected(f, a[i])
      BY <1>p, <3>1, <3>3, <3>10
    <3>12. y \in Seq(V) /\ Len(y) = n + 1 /\ \A i \in 1 .. n + 1 : y[i] = Projected(f, ss[i])
      BY <1>p, <2>1, <3>1, <3>10
    <3>13. PICK d \in V : d = Projected(f, e)
      BY <1>r, <3>1
    <3>14. PICK z : z = Append(x, d)
      OBVIOUS
    <3>15. y = z
      <4>1. z \in Seq(V) /\ Len(z) = n + 1 /\ z[n + 1] = d /\ \A i \in 1 .. n : z[i] = x[i]
        BY <3>11, <3>14
      <4>2. ASSUME NEW i \in 1 .. n + 1 PROVE y[i] = z[i]
        <5>1. CASE i = n + 1
          BY <3>4, <3>12, <3>13, <4>1, <5>1
        <5>2. CASE i # n + 1
          <6>1. i \in 1 .. n
            BY <5>2
          <6>. QED
            BY <3>3, <3>11, <3>12, <4>1, <6>1
        <5>. QED
          BY <5>1, <5>2
      <4>. QED
        BY <3>12, <4>1, <4>2, SeqEqual
    <3>16. FlattenSeq(Append(x, d)) = FlattenSeq(x) \o d
      BY <3>1, <3>11, <3>13, FlattenAppend
    <3>. QED
      BY <3>8, <3>9, <3>10, <3>13, <3>14, <3>15, <3>16
  <2>. QED
    BY <2>1
<1>3. Nat \subseteq N
  <2> HIDE DEF N
  <2>. QED
    BY <1>1, <1>2, InductiveSet
<1>4. Len(s) \in N
  <2> HIDE DEF N
  <2>1. Len(s) \in Nat
    OBVIOUS
  <2>. QED
    BY <1>3, <2>1
<1>. QED
  BY <1>4

\* t is what f makes of the members of s, one thing of each.
Spells(f, s, t) == Len(t) = Len(s) /\ \A i \in 1 .. Len(s) : f[s[i]] = << t[i] >>

\* Then t is what it makes of s.
LEMMA ProjectedEach ==
  ASSUME NEW D, NEW T, NEW f, Maps(f, D, T)
  PROVE  \A s \in Seq(D), t \in Seq(T) : Spells(f, s, t) => Projected(f, s) = t
<1> SUFFICES ASSUME NEW s \in Seq(D), NEW t \in Seq(T), Len(t) = Len(s),
                    \A i \in 1 .. Len(s) : f[s[i]] = << t[i] >>
             PROVE  Projected(f, s) = t
  BY DEF Spells
<1>0. \A r \in Seq(D) : /\ Pieces(f, r) \in Seq(Seq(T)) /\ Len(Pieces(f, r)) = Len(r)
                         /\ \A i \in 1 .. Len(r) : Pieces(f, r)[i] = f[r[i]]
  BY PiecesType
<1>1. PICK g : g = Pieces(f, s)
  OBVIOUS
<1>2. g \in Seq(Seq(T)) /\ Len(g) = Len(t) /\ \A i \in 1 .. Len(g) : g[i] = << t[i] >>
  <2>1. g \in Seq(Seq(T)) /\ Len(g) = Len(s) /\ \A i \in 1 .. Len(s) : g[i] = f[s[i]]
    BY <1>0, <1>1
  <2>. QED
    BY <2>1
<1>3. FlattenSeq(g) = t
  BY <1>2, FlattenSingles
<1>. QED
  BY <1>1, <1>3 DEF Projected

\* Nothing is made of any.
LEMMA ProjectedNothing ==
  ASSUME NEW D, NEW T, NEW f, Maps(f, D, T)
  PROVE  \A s \in Seq(D) : (\A i \in 1 .. Len(s) : f[s[i]] = << >>) => Projected(f, s) = << >>
<1> SUFFICES ASSUME NEW s \in Seq(D), \A i \in 1 .. Len(s) : f[s[i]] = << >>
             PROVE  Projected(f, s) = << >>
  OBVIOUS
<1>0. \A r \in Seq(D) : /\ Pieces(f, r) \in Seq(Seq(T)) /\ Len(Pieces(f, r)) = Len(r)
                         /\ \A i \in 1 .. Len(r) : Pieces(f, r)[i] = f[r[i]]
  BY PiecesType
<1>1. PICK g : g = Pieces(f, s)
  OBVIOUS
<1>2. g \in Seq(Seq(T)) /\ \A i \in 1 .. Len(g) : g[i] = << >>
  <2>1. g \in Seq(Seq(T)) /\ Len(g) = Len(s) /\ \A i \in 1 .. Len(s) : g[i] = f[s[i]]
    BY <1>0, <1>1
  <2>. QED
    BY <2>1
<1>3. FlattenSeq(g) = << >>
  BY <1>2, FlattenNothing
<1>. QED
  BY <1>1, <1>3 DEF Projected

\* Of nothing, nothing is made.
LEMMA NothingOfNothing ==
  ASSUME NEW D, NEW T, NEW f, Maps(f, D, T)
  PROVE  Projected(f, << >>) = << >>
<1>1. << >> \in Seq(D) /\ \A i \in 1 .. Len(<< >>) : f[<< >>[i]] = << >>
  OBVIOUS
<1>. QED
  BY <1>1, ProjectedNothing

\* f makes t of the k-th member of s, or t and u of it and the next, and
\* nothing of the others.
OnlyAt(f, s, k, t) ==
  k \in 1 .. Len(s) /\ f[s[k]] = t /\ \A i \in 1 .. Len(s) : i # k => f[s[i]] = << >>

OnlyAtTwo(f, s, k, t, u) ==
  /\ 1 <= k /\ k + 1 <= Len(s) /\ f[s[k]] = t /\ f[s[k + 1]] = u
  /\ \A i \in 1 .. Len(s) : i # k /\ i # k + 1 => f[s[i]] = << >>

\* Then this is what it makes of s.
LEMMA ProjectedFew ==
  ASSUME NEW D, NEW T, NEW f, Maps(f, D, T)
  PROVE  /\ \A s \in Seq(D), k \in Nat, t \in Seq(T) : OnlyAt(f, s, k, t) => Projected(f, s) = t
         /\ \A s \in Seq(D), k \in Nat, t, u \in Seq(T) :
              OnlyAtTwo(f, s, k, t, u) => Projected(f, s) = t \o u
<1> SUFFICES ASSUME NEW s \in Seq(D), NEW k \in Nat, NEW t \in Seq(T), NEW u \in Seq(T)
             PROVE  /\ OnlyAt(f, s, k, t) => Projected(f, s) = t
                    /\ OnlyAtTwo(f, s, k, t, u) => Projected(f, s) = t \o u
  OBVIOUS
<1>0. \A r \in Seq(D) : /\ Pieces(f, r) \in Seq(Seq(T)) /\ Len(Pieces(f, r)) = Len(r)
                         /\ \A i \in 1 .. Len(r) : Pieces(f, r)[i] = f[r[i]]
  BY PiecesType
<1>1. PICK g : g = Pieces(f, s)
  OBVIOUS
<1>2. g \in Seq(Seq(T)) /\ Len(g) = Len(s) /\ \A i \in 1 .. Len(s) : g[i] = f[s[i]]
  BY <1>0, <1>1
<1>3. FlattenSeq(g) = Projected(f, s)
  BY <1>1 DEF Projected
<1>4. ASSUME OnlyAt(f, s, k, t) PROVE Projected(f, s) = t
  <2>1. k \in 1 .. Len(g) /\ f[s[k]] = t /\ \A i \in 1 .. Len(g) : i # k => g[i] = << >>
    BY <1>2, <1>4 DEF OnlyAt
  <2>2. FlattenSeq(g) = g[k]
    BY <1>2, <2>1, FlattenOne
  <2>. QED
    BY <1>2, <1>3, <2>1, <2>2
<1>5. ASSUME OnlyAtTwo(f, s, k, t, u) PROVE Projected(f, s) = t \o u
  <2>1. 1 <= k /\ k + 1 <= Len(g) /\ f[s[k]] = t /\ f[s[k + 1]] = u /\ \A i \in 1 .. Len(g) : i # k /\ i # k + 1 => g[i] = << >>
    BY <1>2, <1>5 DEF OnlyAtTwo
  <2>2. FlattenSeq(g) = g[k] \o g[k + 1]
    BY <1>2, <2>1, FlattenTwo
  <2>3. k \in 1 .. Len(s) /\ k + 1 \in 1 .. Len(s)
    BY <1>2, <2>1
  <2>. QED
    BY <1>2, <1>3, <2>1, <2>2, <2>3
<1>. QED
  BY <1>4, <1>5

\* r is what f makes of the rows of s.
SpellsRows(f, s, r) == Len(r) = Len(s) /\ \A i \in 1 .. Len(s) : Projected(f, s[i]) = r[i]

\* f makes nothing of the rows of s but the k-th.
OnlyRow(f, s, k) == k \in 1 .. Len(s) /\ \A i \in 1 .. Len(s) : i # k => Projected(f, s[i]) = << >>

\* Of rows end to end, when one knows it of the rows.
LEMMA ProjectedRows ==
  ASSUME NEW D, NEW T, NEW f, Maps(f, D, T)
  PROVE  /\ \A s \in Seq(Seq(D)), r \in Seq(Seq(T)) :
              SpellsRows(f, s, r) => Projected(f, FlattenSeq(s)) = FlattenSeq(r)
         /\ \A s \in Seq(Seq(D)) :
              (\A i \in 1 .. Len(s) : Projected(f, s[i]) = << >>) => Projected(f, FlattenSeq(s)) = << >>
         /\ \A s \in Seq(Seq(D)), k \in Nat :
              OnlyRow(f, s, k) => Projected(f, FlattenSeq(s)) = Projected(f, s[k])
<1> SUFFICES ASSUME NEW s \in Seq(Seq(D))
             PROVE  /\ \A r \in Seq(Seq(T)) :
                         SpellsRows(f, s, r) => Projected(f, FlattenSeq(s)) = FlattenSeq(r)
                    /\ (\A i \in 1 .. Len(s) : Projected(f, s[i]) = << >>)
                       => Projected(f, FlattenSeq(s)) = << >>
                    /\ \A k \in Nat : OnlyRow(f, s, k) => Projected(f, FlattenSeq(s)) = Projected(f, s[k])
  OBVIOUS
<1>0. \A ss \in Seq(Seq(D)) : /\ Parted(f, ss) \in Seq(Seq(T)) /\ Len(Parted(f, ss)) = Len(ss)
                              /\ \A i \in 1 .. Len(ss) : Parted(f, ss)[i] = Projected(f, ss[i])
  BY PartedType
<1>1. PICK g : g = Parted(f, s)
  OBVIOUS
<1>2. g \in Seq(Seq(T)) /\ Len(g) = Len(s) /\ \A i \in 1 .. Len(s) : g[i] = Projected(f, s[i])
  BY <1>0, <1>1
<1>3. Projected(f, FlattenSeq(s)) = FlattenSeq(g)
  <2>1. \A ss \in Seq(Seq(D)) : Projected(f, FlattenSeq(ss)) = FlattenSeq(Parted(f, ss))
    BY ProjectedFlatten
  <2>. QED
    BY <1>1, <2>1
<1>4. ASSUME NEW r \in Seq(Seq(T)), SpellsRows(f, s, r)
      PROVE  Projected(f, FlattenSeq(s)) = FlattenSeq(r)
  <2>1. PICK U : U = Seq(T)
    OBVIOUS
  <2>2. g \in Seq(U) /\ r \in Seq(U) /\ Len(g) = Len(r) /\ \A i \in 1 .. Len(r) : g[i] = r[i]
    BY <1>2, <1>4, <2>1 DEF SpellsRows
  <2>3. g = r
    BY <2>2, SeqEqual
  <2>. QED
    BY <1>3, <2>3
<1>5. ASSUME \A i \in 1 .. Len(s) : Projected(f, s[i]) = << >>
      PROVE  Projected(f, FlattenSeq(s)) = << >>
  <2>1. \A i \in 1 .. Len(g) : g[i] = << >>
    BY <1>2, <1>5
  <2>. QED
    BY <1>2, <1>3, <2>1, FlattenNothing
<1>6. ASSUME NEW k \in Nat, OnlyRow(f, s, k)
      PROVE  Projected(f, FlattenSeq(s)) = Projected(f, s[k])
  <2>1. k \in 1 .. Len(g) /\ \A i \in 1 .. Len(g) : i # k => g[i] = << >>
    BY <1>2, <1>6 DEF OnlyRow
  <2>2. FlattenSeq(g) = g[k]
    BY <1>2, <2>1, FlattenOne
  <2>. QED
    BY <1>2, <1>3, <2>1, <2>2
<1>. QED
  BY <1>4, <1>5, <1>6

\* What f makes of what F makes of s is what g makes of s, when g makes at once
\* of a member of s what F and f make of it one after the other.
AtOnce(g, f, F, B) == \A b \in B : g[b] = Projected(f, F[b])

LEMMA ProjectedTwice ==
  ASSUME NEW B, NEW D, NEW T, NEW F, Maps(F, B, D), NEW f, Maps(f, D, T), NEW g, Maps(g, B, T),
         AtOnce(g, f, F, B)
  PROVE  \A s \in Seq(B) : Projected(F, s) \in Seq(D) /\ Projected(f, Projected(F, s)) = Projected(g, s)
<1> SUFFICES ASSUME NEW s \in Seq(B) PROVE Projected(F, s) \in Seq(D) /\ Projected(f, Projected(F, s)) = Projected(g, s)
  OBVIOUS
<1>0. Projected(F, s) \in Seq(D)
  BY ProjectedType
<1>1. PICK p : p = Pieces(F, s)
  OBVIOUS
<1>2. p \in Seq(Seq(D)) /\ Len(p) = Len(s) /\ \A i \in 1 .. Len(s) : p[i] = F[s[i]]
  BY <1>1, PiecesType
<1>3. Projected(f, FlattenSeq(p)) = FlattenSeq(Parted(f, p))
  BY <1>2, ProjectedFlatten
<1>4. PICK U : U = Seq(T)
  OBVIOUS
<1>5. PICK x, y : x = Parted(f, p) /\ y = Pieces(g, s)
  OBVIOUS
<1>6. x \in Seq(U) /\ Len(x) = Len(s) /\ \A i \in 1 .. Len(s) : x[i] = Projected(f, p[i])
  BY <1>2, <1>4, <1>5, PartedType
<1>7. y \in Seq(U) /\ Len(y) = Len(s) /\ \A i \in 1 .. Len(s) : y[i] = g[s[i]]
  BY <1>4, <1>5, PiecesType
<1>8. ASSUME NEW i \in 1 .. Len(s) PROVE x[i] = y[i]
  <2>1. PICK b \in B : b = s[i]
    BY ElementOfSeq
  <2>2. g[b] = Projected(f, F[b])
    BY DEF AtOnce
  <2>. QED
    BY <1>2, <1>6, <1>7, <2>1, <2>2
<1>9. x = y
  BY <1>6, <1>7, <1>8, SeqEqual
<1>. QED
  BY <1>0, <1>1, <1>3, <1>5, <1>9 DEF Projected

\* f makes t of the n-th member of s.
Makes(f, s, n, t) == f[s[n]] = t

\* What is made of the next member comes first, and at the end there is nothing.
LEMMA AheadInTurn ==
  ASSUME NEW D, NEW T, NEW f, Maps(f, D, T)
  PROVE  /\ \A s \in Seq(D) : \A n \in 1 .. Len(s) + 1 : Ahead(f, s, n) \in Seq(T)
         /\ \A s \in Seq(D) : \A n \in 1 .. Len(s), t \in Seq(T) :
              Makes(f, s, n, t) => Ahead(f, s, n) = t \o Ahead(f, s, n + 1)
         /\ \A s \in Seq(D) : Ahead(f, s, Len(s) + 1) = << >>
<1> SUFFICES ASSUME NEW s \in Seq(D)
             PROVE  /\ \A n \in 1 .. Len(s) + 1 : Ahead(f, s, n) \in Seq(T)
                    /\ \A n \in 1 .. Len(s) : Ahead(f, s, n) = f[s[n]] \o Ahead(f, s, n + 1)
                    /\ Ahead(f, s, Len(s) + 1) = << >>
  BY DEF Makes
<1>p. \A r \in Seq(D) : /\ Pieces(f, r) \in Seq(Seq(T)) /\ Len(Pieces(f, r)) = Len(r)
                         /\ \A i \in 1 .. Len(r) : Pieces(f, r)[i] = f[r[i]]
  BY PiecesType
<1>q. \A a, b \in Seq(D) : Projected(f, a \o b) = Projected(f, a) \o Projected(f, b)
  BY ProjectedConcat
<1>r. \A a \in Seq(D) : Projected(f, a) \in Seq(T)
  BY ProjectedType
<1>0. PICK l \in Nat : l = Len(s)
  OBVIOUS
<1>1. ASSUME NEW n \in 1 .. l + 1 PROVE SubSeq(s, n, l) \in Seq(D) /\ Ahead(f, s, n) \in Seq(T)
  <2>1. SubSeq(s, n, l) \in Seq(D)
    BY <1>0
  <2>. QED
    BY <1>0, <1>r, <2>1 DEF Ahead
<1>2. ASSUME NEW n \in 1 .. l PROVE s[n] \in D /\ Ahead(f, s, n) = f[s[n]] \o Ahead(f, s, n + 1)
  <2>1. n \in 1 .. l + 1 /\ n + 1 \in 1 .. l + 1
    OBVIOUS
  <2>2. PICK a, b : a = SubSeq(s, n, l) /\ b = SubSeq(s, n + 1, l)
    OBVIOUS
  <2>3. a \in Seq(D) /\ b \in Seq(D)
    BY <1>1, <2>1, <2>2
  <2>4. PICK e \in D : e = s[n]
    BY <1>0
  <2>5. << e >> \in Seq(D) /\ Len(<< e >>) = 1 /\ << e >>[1] = e
    OBVIOUS
  <2>6. a = << e >> \o b
    <3>1. Len(a) = l - n + 1 /\ \A i \in 1 .. l - n + 1 : a[i] = s[n + i - 1]
      BY <1>0, <2>2
    <3>2. Len(b) = l - n /\ \A i \in 1 .. l - n : b[i] = s[n + i]
      <4>1. PICK h \in 2 .. l + 1 : h = n + 1
        OBVIOUS
      <4>2. b = SubSeq(s, h, l)
        BY <2>2, <4>1
      <4>3. Len(b) = l - h + 1 /\ \A i \in 1 .. l - h + 1 : b[i] = s[h + i - 1]
        <5>1. h \in Nat \ {0} /\ l \in Nat /\ s \in Seq(D) /\ l = Len(s)
          BY <1>0
        <5>. QED
          BY <4>1, <4>2, <5>1
      <4>4. l - h + 1 = l - n /\ \A i \in 1 .. l - n : h + i - 1 = n + i
        BY <4>1
      <4>. QED
        BY <4>3, <4>4
    <3>3. PICK c : c = << e >> \o b
      OBVIOUS
    <3>4. /\ c \in Seq(D) /\ Len(c) = 1 + (l - n)
          /\ \A i \in 1 .. 1 + (l - n) : c[i] = IF i <= 1 THEN e ELSE b[i - 1]
      <4>1. PICK d : d = << e >>
        OBVIOUS
      <4>2. PICK m \in Nat : m = l - n
        OBVIOUS
      <4>3. d \in Seq(D) /\ Len(d) = 1 /\ Len(b) = m
        BY <2>5, <3>2, <4>1, <4>2
      <4>4. \A i \in 1 .. 1 + m : (d \o b)[i] = IF i <= 1 THEN d[i] ELSE b[i - 1]
        <5>1. \A i \in 1 .. Len(d) + Len(b) : (d \o b)[i] = IF i <= Len(d) THEN d[i] ELSE b[i - Len(d)]
          BY <2>3, <4>3, ConcatProperties
        <5>. QED
          BY <4>3, <5>1
      <4>5. d \o b \in Seq(D) /\ Len(d \o b) = 1 + m
        BY <2>3, <4>3, ConcatProperties, ZenonT(60)
      <4>6. \A i \in 1 .. 1 + m : i <= 1 => d[i] = e
        BY <4>1
      <4>. QED
        BY <3>3, <4>1, <4>2, <4>4, <4>5, <4>6
    <3>5. ASSUME NEW i \in 1 .. 1 + (l - n) PROVE a[i] = c[i]
      <4>1. CASE i = 1
        <5>1. i \in 1 .. l - n + 1 /\ n + i - 1 = n /\ i <= 1
          BY <4>1
        <5>. QED
          BY <2>4, <3>1, <3>4, <5>1
      <4>2. CASE i # 1
        <5>1. PICK j \in 1 .. l - n : j = i - 1
          BY <4>2
        <5>2. i \in 1 .. l - n + 1 /\ n + i - 1 = n + j /\ ~(i <= 1)
          BY <4>2, <5>1
        <5>3. a[i] = s[n + j] /\ c[i] = b[j]
          BY <3>1, <3>4, <5>1, <5>2
        <5>. QED
          BY <3>2, <5>3
      <4>. QED
        BY <4>1, <4>2
    <3>6. Len(a) = Len(c)
      BY <3>1, <3>4
    <3>7. \A i \in 1 .. Len(c) : a[i] = c[i]
      BY <3>4, <3>5
    <3>. QED
      BY <2>3, <3>3, <3>4, <3>6, <3>7, SeqEqual
  <2>7. Projected(f, << e >> \o b) = Projected(f, << e >>) \o Projected(f, b)
    BY <1>q, <2>3, <2>5
  <2>8. Projected(f, << e >>) = f[e]
    <3>1. PICK g : g = Pieces(f, << e >>)
      OBVIOUS
    <3>2. g \in Seq(Seq(T)) /\ Len(g) = 1 /\ g[1] = f[e]
      <4>1. g \in Seq(Seq(T)) /\ Len(g) = Len(<< e >>) /\ \A i \in 1 .. Len(<< e >>) : g[i] = f[<< e >>[i]]
        BY <1>p, <2>5, <3>1
      <4>2. 1 \in 1 .. Len(<< e >>)
        BY <2>5
      <4>3. g[1] = f[<< e >>[1]]
        BY <4>1, <4>2
      <4>. QED
        BY <2>5, <4>1, <4>3
    <3>3. 1 \in 1 .. Len(g) /\ \A i \in 1 .. Len(g) : i # 1 => g[i] = << >>
      BY <3>2
    <3>4. FlattenSeq(g) = g[1]
      BY <3>2, <3>3, FlattenOne
    <3>. QED
      BY <3>1, <3>2, <3>4 DEF Projected
  <2>9. Ahead(f, s, n) = Projected(f, a) /\ Ahead(f, s, n + 1) = Projected(f, b)
    BY <1>0, <2>2 DEF Ahead
  <2>. QED
    BY <2>4, <2>6, <2>7, <2>8, <2>9
<1>4. Ahead(f, s, l + 1) = << >>
  <2>1. SubSeq(s, l + 1, l) \in Seq(D) /\ Len(SubSeq(s, l + 1, l)) = 0
    BY <1>0
  <2>2. Len(Pieces(f, SubSeq(s, l + 1, l))) = 0
    BY <1>p, <2>1
  <2>3. FlattenSeq(Pieces(f, SubSeq(s, l + 1, l))) = << >>
    BY <2>2 DEF FlattenSeq
  <2>. QED
    BY <1>0, <2>3 DEF Ahead, Projected
<1>. QED
  BY <1>0, <1>1, <1>2, <1>4

\* From the beginning it is everything.
LEMMA AheadAll ==
  ASSUME NEW D
  PROVE  \A f : \A s \in Seq(D) : Ahead(f, s, 1) = Projected(f, s)
<1> SUFFICES ASSUME NEW f, NEW s \in Seq(D) PROVE Ahead(f, s, 1) = Projected(f, s)
  OBVIOUS
<1>1. SubSeq(s, 1, Len(s)) = s
  BY SubSeqFull
<1>. QED
  BY <1>1 DEF Ahead

-----------------------------------------------------------------------------
(* A channel.  c is on its way on it; the sender's program is x, of which f  *)
(* sends something here, and goes on at i; the receiver's is y, of which g   *)
(* receives something from here, and goes on at j.                           *)

\* What is on its way and what is still to be sent is what is still to be received.
Matches(c, f, x, i, g, y, j) == TagsOf(c) \o Ahead(f, x, i) = Ahead(g, y, j)

OnItsWay(c, T) == IsSeq(c) /\ TagsOf(c) \in Seq(T)

\* Nothing in front of tags, or behind them, is nothing; and they can be put
\* together in any way.
LEMMA TagsTogether ==
  ASSUME NEW T
  PROVE  /\ << >> \in Seq(T)
         /\ \A a \in Seq(T) : a \o << >> = a /\ << >> \o a = a
         /\ \A a, b \in Seq(T) : a \o b \in Seq(T)
         /\ \A a, b, c \in Seq(T) : a \o (b \o c) = (a \o b) \o c
<1>1. << >> \in Seq(T) /\ \A a \in Seq(T) : a \o << >> = a /\ << >> \o a = a
  BY ConcatEmptySeq
<1>2. \A a, b \in Seq(T) : a \o b \in Seq(T)
  BY ConcatProperties
<1>3. \A a, b, c \in Seq(T) : a \o (b \o c) = (a \o b) \o c
  BY ThreeParts
<1>. QED
  BY <1>1, <1>2, <1>3

\* A tag on its own.
LEMMA TagAlone ==
  ASSUME NEW T, NEW t \in T
  PROVE  << t >> \in Seq(T) /\ Len(<< t >>) = 1 /\ << t >>[1] = t
OBVIOUS

\* Nothing is on its way on an empty channel.
LEMMA NoTags ==
  ASSUME NEW T
  PROVE  OnItsWay(<< >>, T) /\ TagsOf(<< >>) = << >>
<1>1. << >> \in Seq(Range(<< >>))
  OBVIOUS
<1>2. TagsOf(<< >>) = << >> /\ << >> \in Seq(T)
  BY DEF TagsOf
<1>. QED
  BY <1>1, <1>2 DEF OnItsWay, IsSeq

\* What a program makes from its n-th instruction on.
LEMMA AheadAt ==
  ASSUME NEW D, NEW T, NEW f, Maps(f, D, T), NEW s \in Seq(D), NEW n \in 1 .. Len(s)
  PROVE  /\ s[n] \in D
         /\ Ahead(f, s, n) \in Seq(T) /\ Ahead(f, s, n + 1) \in Seq(T) /\ f[s[n]] \in Seq(T)
         /\ Ahead(f, s, n) = f[s[n]] \o Ahead(f, s, n + 1)
<1>1. n \in 1 .. Len(s) + 1 /\ n + 1 \in 1 .. Len(s) + 1 /\ s[n] \in D
  BY ElementOfSeq
<1>2. PICK t \in Seq(T) : t = f[s[n]]
  BY <1>1 DEF Maps
<1>3. Makes(f, s, n, t)
  BY <1>2 DEF Makes
<1>4. \A r \in Seq(D) : \A m \in 1 .. Len(r), u \in Seq(T) :
        Makes(f, r, m, u) => Ahead(f, r, m) = u \o Ahead(f, r, m + 1)
  BY AheadInTurn
<1>5. \A r \in Seq(D) : \A m \in 1 .. Len(r) + 1 : Ahead(f, r, m) \in Seq(T)
  BY AheadInTurn
<1>6. Ahead(f, s, n) = t \o Ahead(f, s, n + 1)
  BY <1>3, <1>4
<1>. QED
  BY <1>1, <1>2, <1>5, <1>6

\* What an instruction makes, and what those behind it make.
HeadAndRest(f, s, n, T) ==
  \E t, u \in Seq(T) : t = f[s[n]] /\ u = Ahead(f, s, n + 1) /\ Ahead(f, s, n) = t \o u

LEMMA AheadParts ==
  ASSUME NEW D, NEW T, NEW f, Maps(f, D, T), NEW s \in Seq(D), NEW n \in 1 .. Len(s)
  PROVE  HeadAndRest(f, s, n, T)
<1>2. PICK t \in Seq(T) : t = f[s[n]]
  BY AheadAt
<1>3. PICK u \in Seq(T) : u = Ahead(f, s, n + 1)
  BY AheadAt
<1>1. Ahead(f, s, n) = t \o Ahead(f, s, n + 1)
  <2>1. Makes(f, s, n, t)
    BY <1>2 DEF Makes
  <2>2. \A r \in Seq(D) : \A m \in 1 .. Len(r), a \in Seq(T) :
          Makes(f, r, m, a) => Ahead(f, r, m) = a \o Ahead(f, r, m + 1)
    BY AheadInTurn
  <2>. QED
    BY <2>1, <2>2
<1>. QED
  BY <1>1, <1>2, <1>3 DEF HeadAndRest

\* A message behind the others.
LEMMA OneBehind ==
  ASSUME NEW T, NEW c, OnItsWay(c, T), NEW m, m.tag \in T
  PROVE  OnItsWay(Append(c, m), T) /\ TagsOf(Append(c, m)) = TagsOf(c) \o << m.tag >>
<1>1. PICK d : d = << m >>
  OBVIOUS
<1>2. IsSeq(d) /\ TagsOf(d) = << m.tag >>
  <2>1. PICK R : R = {m}
    OBVIOUS
  <2>2. d \in Seq(R) /\ Len(d) = 1 /\ d[1] = m
    BY <1>1, <2>1
  <2>3. IsSeq(d)
    BY <2>2, OwnMembers
  <2>. QED
    BY <2>2, <2>3 DEF TagsOf
<1>3. Append(c, m) = c \o d
  <2>1. PICK R : R = Range(c) \cup {m}
    OBVIOUS
  <2>2. c \in Seq(R) /\ m \in R
    BY <2>1 DEF OnItsWay, IsSeq
  <2>. QED
    BY <1>1, <2>2, AppendIsConcat
<1>4. IsSeq(c \o d) /\ TagsOf(c \o d) = TagsOf(c) \o << m.tag >>
  BY <1>2, TagsBehind DEF OnItsWay
<1>5. TagsOf(c) \o << m.tag >> \in Seq(T)
  BY TagAlone, TagsTogether DEF OnItsWay
<1>. QED
  BY <1>3, <1>4, <1>5 DEF OnItsWay

\* The first message taken.
LEMMA OneTaken ==
  ASSUME NEW T, NEW c, OnItsWay(c, T), c # << >>
  PROVE  /\ OnItsWay(Tail(c), T) /\ TagsOf(Tail(c)) = Tail(TagsOf(c))
         /\ Len(TagsOf(c)) = Len(c) /\ TagsOf(c) # << >> /\ Head(c).tag = TagsOf(c)[1]
<1>1. c \in Seq(Range(c)) /\ IsSeq(c)
  BY DEF OnItsWay, IsSeq
<1>2. Tail(c) = SubSeq(c, 2, Len(c)) /\ Len(c) \in Nat \ {0} /\ Head(c) = c[1]
  BY <1>1, TailIsSubSeq, EmptySeq, HeadTailProperties
<1>3. 1 + 1 = 2 /\ 1 \in 0 .. Len(c)
  BY <1>2
<1>4. /\ IsSeq(SubSeq(c, 1 + 1, Len(c))) /\ Len(TagsOf(c)) = Len(c)
      /\ TagsOf(SubSeq(c, 1 + 1, Len(c))) = SubSeq(TagsOf(c), 1 + 1, Len(c))
  BY <1>1, <1>3, TagsLeft
<1>5. PICK t \in Seq(T) : t = TagsOf(c)
  BY DEF OnItsWay
<1>6. Len(t) = Len(c) /\ t # << >>
  BY <1>2, <1>4, <1>5, EmptySeq
<1>7. Tail(t) = SubSeq(t, 2, Len(t)) /\ Tail(t) \in Seq(T)
  BY <1>6, TailIsSubSeq, HeadTailProperties
<1>8. t[1] = c[1].tag
  BY <1>2, <1>5 DEF TagsOf
<1>. QED
  BY <1>2, <1>3, <1>4, <1>5, <1>6, <1>7, <1>8 DEF OnItsWay

\* The sender goes on: it sends nothing here, or one message.
LEMMA SenderGoesOn ==
  ASSUME NEW D, NEW T, NEW f, Maps(f, D, T), NEW x \in Seq(D), NEW i \in 1 .. Len(x),
         NEW c, OnItsWay(c, T), NEW g, NEW y, NEW j, Matches(c, f, x, i, g, y, j)
  PROVE  /\ f[x[i]] = << >> => Matches(c, f, x, i + 1, g, y, j)
         /\ \A m : m.tag \in T /\ f[x[i]] = << m.tag >> => Matches(Append(c, m), f, x, i + 1, g, y, j)
<1>1. PICK u \in Seq(T) : u = Ahead(f, x, i + 1)
  BY AheadAt
<1>2. Ahead(f, x, i) = f[x[i]] \o u
  <2>1. PICK v \in Seq(T) : v = f[x[i]]
    BY AheadAt
  <2>2. Makes(f, x, i, v)
    BY <2>1 DEF Makes
  <2>3. \A r \in Seq(D) : \A n \in 1 .. Len(r), a \in Seq(T) :
          Makes(f, r, n, a) => Ahead(f, r, n) = a \o Ahead(f, r, n + 1)
    BY AheadInTurn
  <2>4. Ahead(f, x, i) = v \o Ahead(f, x, i + 1)
    BY <2>2, <2>3
  <2>. QED
    BY <1>1, <2>1, <2>4
<1>3. PICK s \in Seq(T) : s = TagsOf(c)
  BY DEF OnItsWay
<1>4. s \o (f[x[i]] \o u) = Ahead(g, y, j)
  BY <1>2, <1>3 DEF Matches
<1>5. ASSUME f[x[i]] = << >> PROVE Matches(c, f, x, i + 1, g, y, j)
  <2>1. << >> \o u = u
    BY TagsTogether
  <2>. QED
    BY <1>1, <1>3, <1>4, <1>5, <2>1 DEF Matches
<1>6. ASSUME NEW m, m.tag \in T, f[x[i]] = << m.tag >>
      PROVE  Matches(Append(c, m), f, x, i + 1, g, y, j)
  <2>1. PICK t \in Seq(T) : t = << m.tag >>
    BY <1>6, TagAlone
  <2>2. s \o (t \o u) = (s \o t) \o u
    BY TagsTogether, SMTT(30)
  <2>3. TagsOf(Append(c, m)) = s \o t
    BY <1>3, <1>6, <2>1, OneBehind
  <2>. QED
    BY <1>1, <1>4, <1>6, <2>1, <2>2, <2>3 DEF Matches
<1>. QED
  BY <1>5, <1>6

\* The receiver goes on: it expects nothing from here, or one message, and that
\* is the first of those on their way.
LEMMA ReceiverGoesOn ==
  ASSUME NEW D, NEW T, NEW g, Maps(g, D, T), NEW y \in Seq(D), NEW j \in 1 .. Len(y),
         NEW c, OnItsWay(c, T), NEW f, NEW x \in Seq(D), NEW i, Ahead(f, x, i) \in Seq(T),
         Matches(c, f, x, i, g, y, j)
  PROVE  /\ g[y[j]] = << >> => Matches(c, f, x, i, g, y, j + 1)
         /\ \A t \in T : g[y[j]] = << t >> /\ c # << >> =>
              Head(c).tag = t /\ Matches(Tail(c), f, x, i, g, y, j + 1)
<1>1. PICK w \in Seq(T) : w = Ahead(g, y, j + 1)
  BY AheadAt
<1>2. Ahead(g, y, j) = g[y[j]] \o w
  <2>1. PICK v \in Seq(T) : v = g[y[j]]
    BY AheadAt
  <2>2. Makes(g, y, j, v)
    BY <2>1 DEF Makes
  <2>3. \A r \in Seq(D) : \A n \in 1 .. Len(r), a \in Seq(T) :
          Makes(g, r, n, a) => Ahead(g, r, n) = a \o Ahead(g, r, n + 1)
    BY AheadInTurn, SMTT(30)
  <2>4. Ahead(g, y, j) = v \o Ahead(g, y, j + 1)
    BY <2>2, <2>3
  <2>. QED
    BY <1>1, <2>1, <2>4
<1>3. PICK s \in Seq(T) : s = TagsOf(c)
  BY DEF OnItsWay
<1>4. PICK u \in Seq(T) : u = Ahead(f, x, i)
  OBVIOUS
<1>5. s \o u = g[y[j]] \o w
  BY <1>2, <1>3, <1>4 DEF Matches
<1>6. ASSUME g[y[j]] = << >> PROVE Matches(c, f, x, i, g, y, j + 1)
  <2>1. << >> \o w = w
    BY TagsTogether
  <2>. QED
    BY <1>1, <1>3, <1>4, <1>5, <1>6, <2>1 DEF Matches
<1>7. ASSUME NEW t \in T, g[y[j]] = << t >>, c # << >>
      PROVE  Head(c).tag = t /\ Matches(Tail(c), f, x, i, g, y, j + 1)
  <2>1. PICK h \in Seq(T) : h = << t >>
    BY <1>7, TagAlone
  <2>2. Len(h) = 1 /\ h[1] = t
    BY <2>1
  <2>3. TagsOf(Tail(c)) = Tail(s) /\ s # << >> /\ Head(c).tag = s[1]
    BY <1>3, <1>7, OneTaken
  <2>4. Len(s) \in Nat \ {0} /\ Tail(s) = SubSeq(s, 2, Len(s))
    BY <2>3, EmptySeq, TailIsSubSeq
  <2>5. s \o u = h \o w
    BY <1>5, <1>7, <2>1
  <2>6. SubSeq(s, Len(h) + 1, Len(s)) \o u = w
    <3>1. Len(h) <= Len(s)
      BY <2>2, <2>4
    <3>. QED
      BY <2>5, <3>1, Cancel
  <2>7. Len(h) + 1 = 2
    BY <2>2
  <2>8. Tail(s) \o u = w
    BY <2>4, <2>6, <2>7
  <2>9. (s \o u)[1] = s[1] /\ (h \o w)[1] = h[1]
    <3>1. \A a, b \in Seq(T) : Len(a) # 0 => (a \o b)[1] = a[1]
      <4>1. TAKE a, b \in Seq(T)
      <4>2. HAVE Len(a) # 0
      <4>3. \A k \in 1 .. Len(a) + Len(b) : (a \o b)[k] = IF k <= Len(a) THEN a[k] ELSE b[k - Len(a)]
        BY ConcatProperties
      <4>4. 1 \in 1 .. Len(a) + Len(b) /\ 1 <= Len(a)
        BY <4>2
      <4>. QED
        BY <4>3, <4>4
    <3>2. Len(s) # 0 /\ Len(h) # 0
      BY <2>2, <2>4
    <3>. QED
      BY <3>1, <3>2
  <2>. QED
    BY <1>1, <1>4, <2>2, <2>3, <2>5, <2>8, <2>9 DEF Matches
<1>. QED
  BY <1>6, <1>7

\* The receiver is at the end: nothing is on its way.
LEMMA NothingExpected ==
  ASSUME NEW D, NEW T, NEW g, Maps(g, D, T), NEW y \in Seq(D),
         NEW c, OnItsWay(c, T), NEW f, NEW x, NEW i, Ahead(f, x, i) \in Seq(T),
         Matches(c, f, x, i, g, y, Len(y) + 1)
  PROVE  c = << >>
<1>1. Ahead(g, y, Len(y) + 1) = << >>
  <2>1. \A r \in Seq(D) : Ahead(g, r, Len(r) + 1) = << >>
    BY AheadInTurn
  <2>. QED
    BY <2>1
<1>2. PICK s, u \in Seq(T) : s = TagsOf(c) /\ u = Ahead(f, x, i)
  BY DEF OnItsWay
<1>3. s \o u = << >>
  BY <1>1, <1>2 DEF Matches
<1>4. Len(s) = 0
  BY <1>3, ConcatProperties
<1>5. s = << >>
  BY <1>4, EmptySeq
<1>. QED
  BY <1>2, <1>5, OneTaken

-----------------------------------------------------------------------------
(* Parties of a set Q that run programs of instructions of D and send one    *)
(* another messages with tags of T.  snd[p] is what an instruction sends p,  *)
(* rcv[q] what it receives from q; pos[p] is the place in p's program, and   *)
(* ch[q][p] what is on its way from q to p.                                  *)

Traders(Q, D, T, snd, rcv, prog) ==
  \A p \in Q : prog[p] \in Seq(D) /\ Maps(snd[p], D, T) /\ Maps(rcv[p], D, T)

Running(Q, T, prog, pos, ch) ==
  /\ pos = [p \in Q |-> pos[p]]
  /\ \A p \in Q : pos[p] \in 1 .. Len(prog[p]) + 1
  /\ ch = [p \in Q |-> [q \in Q |-> ch[p][q]]]
  /\ \A p, q \in Q : OnItsWay(ch[p][q], T)

InTurn(Q, snd, rcv, prog, pos, ch) ==
  \A p, q \in Q : Matches(ch[q][p], snd[p], prog[q], pos[q], rcv[q], prog[p], pos[p])

Agreeing(Q, D, T, snd, rcv, prog, pos, ch) ==
  /\ Traders(Q, D, T, snd, rcv, prog)
  /\ Running(Q, T, prog, pos, ch)
  /\ InTurn(Q, snd, rcv, prog, pos, ch)

\* An instruction that sends one message, for t and to r, or receives one from r.
SendsOnly(Q, snd, rcv, i, r, t) ==
  /\ snd[r][i] = << t >>
  /\ \A c \in Q : (c # r => snd[c][i] = << >>) /\ rcv[c][i] = << >>

ReceivesOnly(Q, snd, rcv, i, r, t) ==
  /\ rcv[r][i] = << t >>
  /\ \A c \in Q : (c # r => rcv[c][i] = << >>) /\ snd[c][i] = << >>

\* What programs that match begin with.
LEMMA AgreeingAtFirst ==
  ASSUME NEW Q, NEW D, NEW T, NEW snd, NEW rcv, NEW prog, Traders(Q, D, T, snd, rcv, prog),
         \A p, q \in Q : Projected(snd[p], prog[q]) = Projected(rcv[q], prog[p])
  PROVE  Agreeing(Q, D, T, snd, rcv, prog, [p \in Q |-> 1], [p \in Q |-> [q \in Q |-> << >>]])
<1>1. PICK pos, ch : pos = [p \in Q |-> 1] /\ ch = [p \in Q |-> [q \in Q |-> << >>]]
  OBVIOUS
<1>2. \A p, q \in Q : ch[p][q] = << >> /\ pos[p] = 1
  BY <1>1
<1>3. Running(Q, T, prog, pos, ch)
  <2>1. \A p \in Q : 1 \in 1 .. Len(prog[p]) + 1
    BY DEF Traders
  <2>2. pos = [p \in Q |-> pos[p]] /\ ch = [p \in Q |-> [q \in Q |-> ch[p][q]]]
    BY <1>1
  <2>. QED
    BY <1>2, <2>1, <2>2, NoTags DEF Running
<1>4. ASSUME NEW p \in Q, NEW q \in Q
      PROVE  Matches(ch[q][p], snd[p], prog[q], pos[q], rcv[q], prog[p], pos[p])
  <2>1. PICK a, b \in Seq(D) : a = prog[q] /\ b = prog[p]
    BY DEF Traders
  <2>2. PICK f, g : f = snd[p] /\ g = rcv[q]
    OBVIOUS
  <2>3. Maps(f, D, T) /\ Projected(f, a) = Projected(g, b)
    BY <2>1, <2>2 DEF Traders
  <2>4. \A h : \A s \in Seq(D) : Ahead(h, s, 1) = Projected(h, s)
    BY AheadAll
  <2>5. Ahead(f, a, 1) = Ahead(g, b, 1) /\ Ahead(f, a, 1) \in Seq(T)
    BY <2>3, <2>4, ProjectedType
  <2>6. TagsOf(<< >>) \o Ahead(f, a, 1) = Ahead(f, a, 1)
    BY <2>5, NoTags, TagsTogether
  <2>. QED
    BY <1>2, <2>1, <2>2, <2>5, <2>6 DEF Matches
<1>. QED
  BY <1>1, <1>3, <1>4 DEF Agreeing, InTurn

\* What is known of a pair of parties.
LEMMA OfPairs ==
  ASSUME NEW Q, NEW D, NEW T, NEW snd, NEW rcv, NEW prog, NEW pos, NEW ch,
         Agreeing(Q, D, T, snd, rcv, prog, pos, ch), NEW p \in Q, NEW q \in Q
  PROVE  /\ Maps(snd[p], D, T) /\ Maps(rcv[q], D, T)
         /\ prog[p] \in Seq(D) /\ prog[q] \in Seq(D)
         /\ pos[p] \in 1 .. Len(prog[p]) + 1 /\ pos[q] \in 1 .. Len(prog[q]) + 1
         /\ OnItsWay(ch[q][p], T)
         /\ Matches(ch[q][p], snd[p], prog[q], pos[q], rcv[q], prog[p], pos[p])
         /\ Ahead(snd[p], prog[q], pos[q]) \in Seq(T)
<1>1. /\ Maps(snd[p], D, T) /\ Maps(rcv[q], D, T)
      /\ prog[p] \in Seq(D) /\ prog[q] \in Seq(D)
  BY DEF Agreeing, Traders
<1>2. /\ pos[p] \in 1 .. Len(prog[p]) + 1 /\ pos[q] \in 1 .. Len(prog[q]) + 1
      /\ OnItsWay(ch[q][p], T)
  BY DEF Agreeing, Running
<1>3. Matches(ch[q][p], snd[p], prog[q], pos[q], rcv[q], prog[p], pos[p])
  BY DEF Agreeing, InTurn
<1>4. Ahead(snd[p], prog[q], pos[q]) \in Seq(T)
  <2>1. PICK f : f = snd[p]
    OBVIOUS
  <2>2. \A s \in Seq(D) : \A n \in 1 .. Len(s) + 1 : Ahead(f, s, n) \in Seq(T)
    BY <1>1, <2>1, AheadInTurn
  <2>. QED
    BY <1>1, <1>2, <2>1, <2>2
<1>. QED
  BY <1>1, <1>2, <1>3, <1>4

\* A party sends the message its instruction tells it to, to whom it tells it to.
LEMMA SendingAgrees ==
  ASSUME NEW Q, NEW D, NEW T, NEW snd, NEW rcv, NEW prog, NEW pos, NEW ch,
         Agreeing(Q, D, T, snd, rcv, prog, pos, ch),
         NEW p \in Q, NEW i, ~(pos[p] > Len(prog[p])), i = prog[p][pos[p]],
         NEW r \in Q, NEW m, m.tag \in T, SendsOnly(Q, snd, rcv, i, r, m.tag),
         NEW pos2, pos2 = [pos EXCEPT ![p] = @ + 1],
         NEW ch2, ch2 = [ch EXCEPT ![p][r] = Append(@, m)]
  PROVE  Agreeing(Q, D, T, snd, rcv, prog, pos2, ch2)
<1>1. prog[p] \in Seq(D) /\ pos[p] \in 1 .. Len(prog[p])
  <2>1. prog[p] \in Seq(D) /\ pos[p] \in 1 .. Len(prog[p]) + 1
    BY OfPairs
  <2>. QED
    BY <2>1
<1>2. pos = [a \in Q |-> pos[a]] /\ ch = [a \in Q |-> [b \in Q |-> ch[a][b]]]
  BY DEF Agreeing, Running
<1>3. /\ pos2 = [a \in Q |-> pos2[a]] /\ pos2[p] = pos[p] + 1
      /\ \A a \in Q : a # p => pos2[a] = pos[a]
  BY <1>2
<1>4. /\ ch2 = [a \in Q |-> [b \in Q |-> ch2[a][b]]] /\ ch2[p][r] = Append(ch[p][r], m)
      /\ \A a, b \in Q : ~(a = r /\ b = p) => ch2[b][a] = ch[b][a]
  <2>1. DOMAIN ch = Q /\ \A a \in Q : ch[a] = [b \in Q |-> ch[a][b]]
    BY <1>2
  <2>. QED
    BY <2>1
<1>5. ASSUME NEW a \in Q, NEW b \in Q
      PROVE  /\ Matches(ch2[b][a], snd[a], prog[b], pos2[b], rcv[b], prog[a], pos[a])
             /\ OnItsWay(ch2[b][a], T)
             /\ Ahead(snd[a], prog[b], pos2[b]) \in Seq(T)
  <2>1. PICK f, g, c, j : f = snd[a] /\ g = rcv[b] /\ c = ch[b][a] /\ j = pos[a]
    OBVIOUS
  <2>2. PICK x, y \in Seq(D) : x = prog[b] /\ y = prog[a]
    BY OfPairs
  <2>3. /\ Maps(f, D, T) /\ OnItsWay(c, T) /\ Matches(c, f, x, pos[b], g, y, j)
        /\ Ahead(f, x, pos[b]) \in Seq(T)
    BY <2>1, <2>2, OfPairs
  <2>4. CASE b # p
    BY <1>3, <1>4, <2>1, <2>2, <2>3, <2>4
  <2>5. CASE b = p
    <3>1. PICK n \in 1 .. Len(x) : n = pos[b]
      BY <1>1, <2>2, <2>5
    <3>2. Matches(c, f, x, n, g, y, j) /\ pos2[b] = n + 1 /\ i = x[n]
      BY <1>3, <2>2, <2>3, <2>5, <3>1
    <3>3. Ahead(f, x, n + 1) \in Seq(T)
      BY <2>3, AheadAt
    <3>4. CASE a = r
      <4>1. f[x[n]] = << m.tag >> /\ ch2[b][a] = Append(c, m)
        BY <1>4, <2>1, <2>5, <3>2, <3>4 DEF SendsOnly
      <4>2. Matches(Append(c, m), f, x, n + 1, g, y, j)
        BY <2>3, <3>2, <4>1, SenderGoesOn
      <4>3. OnItsWay(Append(c, m), T)
        BY <2>3, OneBehind
      <4>. QED
        BY <2>1, <2>2, <3>2, <3>3, <4>1, <4>2, <4>3
    <3>5. CASE a # r
      <4>1. f[x[n]] = << >> /\ ch2[b][a] = c
        BY <1>4, <2>1, <2>5, <3>2, <3>5 DEF SendsOnly
      <4>2. Matches(c, f, x, n + 1, g, y, j)
        BY <2>3, <3>2, <4>1, SenderGoesOn
      <4>. QED
        BY <2>1, <2>2, <2>3, <3>2, <3>3, <4>1, <4>2
    <3>. QED
      BY <3>4, <3>5
  <2>. QED
    BY <2>4, <2>5
<1>6. ASSUME NEW a \in Q, NEW b \in Q
      PROVE  Matches(ch2[b][a], snd[a], prog[b], pos2[b], rcv[b], prog[a], pos2[a])
  <2>1. PICK f, g, c, k : f = snd[a] /\ g = rcv[b] /\ c = ch2[b][a] /\ k = pos2[b]
    OBVIOUS
  <2>2. PICK x, y \in Seq(D) : x = prog[b] /\ y = prog[a]
    BY OfPairs
  <2>3. /\ Maps(g, D, T) /\ OnItsWay(c, T) /\ Matches(c, f, x, k, g, y, pos[a])
        /\ Ahead(f, x, k) \in Seq(T)
    BY <1>5, <2>1, <2>2, OfPairs
  <2>4. CASE a # p
    BY <1>3, <2>1, <2>2, <2>3, <2>4
  <2>5. CASE a = p
    <3>1. PICK n \in 1 .. Len(y) : n = pos[a]
      BY <1>1, <2>2, <2>5
    <3>2. Matches(c, f, x, k, g, y, n) /\ pos2[a] = n + 1 /\ i = y[n]
      BY <1>3, <2>2, <2>3, <2>5, <3>1
    <3>3. g[y[n]] = << >>
      BY <2>1, <3>2 DEF SendsOnly
    <3>4. Matches(c, f, x, k, g, y, n + 1)
      BY <2>3, <3>2, <3>3, ReceiverGoesOn
    <3>. QED
      BY <2>1, <2>2, <3>2, <3>4
  <2>. QED
    BY <2>4, <2>5
<1>7. ASSUME NEW a \in Q PROVE pos2[a] \in 1 .. Len(prog[a]) + 1
  <2>1. pos[a] \in 1 .. Len(prog[a]) + 1
    BY OfPairs
  <2>. QED
    BY <1>1, <1>3, <2>1
<1>8. Running(Q, T, prog, pos2, ch2)
  BY <1>3, <1>4, <1>5, <1>7 DEF Running
<1>9. InTurn(Q, snd, rcv, prog, pos2, ch2)
  BY <1>6 DEF InTurn
<1>. QED
  BY <1>8, <1>9 DEF Agreeing

\* A party takes a message from the party its instruction names.
LEMMA ReceivingAgrees ==
  ASSUME NEW Q, NEW D, NEW T, NEW snd, NEW rcv, NEW prog, NEW pos, NEW ch,
         Agreeing(Q, D, T, snd, rcv, prog, pos, ch),
         NEW p \in Q, NEW i, ~(pos[p] > Len(prog[p])), i = prog[p][pos[p]],
         NEW r \in Q, NEW t \in T, ReceivesOnly(Q, snd, rcv, i, r, t), ch[r][p] # << >>,
         NEW pos2, pos2 = [pos EXCEPT ![p] = @ + 1],
         NEW ch2, ch2 = [ch EXCEPT ![r][p] = Tail(@)]
  PROVE  Agreeing(Q, D, T, snd, rcv, prog, pos2, ch2)
<1>1. prog[p] \in Seq(D) /\ pos[p] \in 1 .. Len(prog[p])
  <2>1. prog[p] \in Seq(D) /\ pos[p] \in 1 .. Len(prog[p]) + 1
    BY OfPairs
  <2>. QED
    BY <2>1
<1>2. pos = [a \in Q |-> pos[a]] /\ ch = [a \in Q |-> [b \in Q |-> ch[a][b]]]
  BY DEF Agreeing, Running
<1>3. /\ pos2 = [a \in Q |-> pos2[a]] /\ pos2[p] = pos[p] + 1
      /\ \A a \in Q : a # p => pos2[a] = pos[a]
  BY <1>2
<1>4. /\ ch2 = [a \in Q |-> [b \in Q |-> ch2[a][b]]] /\ ch2[r][p] = Tail(ch[r][p])
      /\ \A a, b \in Q : ~(a = p /\ b = r) => ch2[b][a] = ch[b][a]
  <2>1. DOMAIN ch = Q /\ \A a \in Q : ch[a] = [b \in Q |-> ch[a][b]]
    BY <1>2
  <2>. QED
    BY <2>1
<1>5. ASSUME NEW a \in Q, NEW b \in Q
      PROVE  /\ Matches(ch2[b][a], snd[a], prog[b], pos[b], rcv[b], prog[a], pos2[a])
             /\ OnItsWay(ch2[b][a], T)
  <2>1. PICK f, g, c, k : f = snd[a] /\ g = rcv[b] /\ c = ch[b][a] /\ k = pos[b]
    OBVIOUS
  <2>2. PICK x, y \in Seq(D) : x = prog[b] /\ y = prog[a]
    BY OfPairs
  <2>3. /\ Maps(g, D, T) /\ OnItsWay(c, T) /\ Matches(c, f, x, k, g, y, pos[a])
        /\ Ahead(f, x, k) \in Seq(T)
    BY <2>1, <2>2, OfPairs
  <2>4. CASE a # p
    BY <1>3, <1>4, <2>1, <2>2, <2>3, <2>4
  <2>5. CASE a = p
    <3>1. PICK n \in 1 .. Len(y) : n = pos[a]
      BY <1>1, <2>2, <2>5
    <3>2. Matches(c, f, x, k, g, y, n) /\ pos2[a] = n + 1 /\ i = y[n]
      BY <1>3, <2>2, <2>3, <2>5, <3>1
    <3>3. CASE b = r
      <4>1. g[y[n]] = << t >> /\ ch2[b][a] = Tail(c) /\ c # << >>
        BY <1>4, <2>1, <2>5, <3>2, <3>3 DEF ReceivesOnly
      <4>2. \A u \in T : g[y[n]] = << u >> /\ c # << >> => Matches(Tail(c), f, x, k, g, y, n + 1)
        BY <2>3, <3>2, ReceiverGoesOn, SMTT(30)
      <4>4. Matches(Tail(c), f, x, k, g, y, n + 1)
        BY <4>1, <4>2
      <4>3. OnItsWay(Tail(c), T)
        BY <2>3, <4>1, OneTaken
      <4>. QED
        BY <2>1, <2>2, <3>2, <4>1, <4>3, <4>4
    <3>4. CASE b # r
      <4>1. g[y[n]] = << >> /\ ch2[b][a] = c
        BY <1>4, <2>1, <2>5, <3>2, <3>4 DEF ReceivesOnly
      <4>2. Matches(c, f, x, k, g, y, n + 1)
        BY <2>3, <3>2, <4>1, ReceiverGoesOn
      <4>. QED
        BY <2>1, <2>2, <2>3, <3>2, <4>1, <4>2
    <3>. QED
      BY <3>3, <3>4
  <2>. QED
    BY <2>4, <2>5
<1>6. ASSUME NEW a \in Q, NEW b \in Q
      PROVE  Matches(ch2[b][a], snd[a], prog[b], pos2[b], rcv[b], prog[a], pos2[a])
  <2>1. PICK f, g, c, j : f = snd[a] /\ g = rcv[b] /\ c = ch2[b][a] /\ j = pos2[a]
    OBVIOUS
  <2>2. PICK x, y \in Seq(D) : x = prog[b] /\ y = prog[a]
    BY OfPairs
  <2>3. Maps(f, D, T) /\ OnItsWay(c, T) /\ Matches(c, f, x, pos[b], g, y, j)
    BY <1>5, <2>1, <2>2, OfPairs
  <2>4. CASE b # p
    BY <1>3, <2>1, <2>2, <2>3, <2>4
  <2>5. CASE b = p
    <3>1. PICK n \in 1 .. Len(x) : n = pos[b]
      BY <1>1, <2>2, <2>5
    <3>2. Matches(c, f, x, n, g, y, j) /\ pos2[b] = n + 1 /\ i = x[n]
      BY <1>3, <2>2, <2>3, <2>5, <3>1
    <3>3. f[x[n]] = << >>
      BY <2>1, <3>2 DEF ReceivesOnly
    <3>4. Matches(c, f, x, n + 1, g, y, j)
      BY <2>3, <3>2, <3>3, SenderGoesOn
    <3>. QED
      BY <2>1, <2>2, <3>2, <3>4
  <2>. QED
    BY <2>4, <2>5
<1>7. ASSUME NEW a \in Q PROVE pos2[a] \in 1 .. Len(prog[a]) + 1
  <2>1. pos[a] \in 1 .. Len(prog[a]) + 1
    BY OfPairs
  <2>. QED
    BY <1>1, <1>3, <2>1
<1>8. Running(Q, T, prog, pos2, ch2)
  BY <1>3, <1>4, <1>5, <1>7 DEF Running
<1>9. InTurn(Q, snd, rcv, prog, pos2, ch2)
  BY <1>6 DEF InTurn
<1>. QED
  BY <1>8, <1>9 DEF Agreeing

\* The first message on its way is the one its receiver expects.
LEMMA FirstIsExpected ==
  ASSUME NEW Q, NEW D, NEW T, NEW snd, NEW rcv, NEW prog, NEW pos, NEW ch,
         Agreeing(Q, D, T, snd, rcv, prog, pos, ch),
         NEW p \in Q, NEW i, ~(pos[p] > Len(prog[p])), i = prog[p][pos[p]],
         NEW r \in Q, NEW t \in T, ReceivesOnly(Q, snd, rcv, i, r, t), ch[r][p] # << >>
  PROVE  Head(ch[r][p]).tag = t
<1>1. prog[p] \in Seq(D) /\ pos[p] \in 1 .. Len(prog[p])
  <2>1. prog[p] \in Seq(D) /\ pos[p] \in 1 .. Len(prog[p]) + 1
    BY OfPairs
  <2>. QED
    BY <2>1
<1>2. PICK f, g, c, k : f = snd[p] /\ g = rcv[r] /\ c = ch[r][p] /\ k = pos[r]
  OBVIOUS
<1>3. PICK x, y \in Seq(D) : x = prog[r] /\ y = prog[p]
  BY OfPairs
<1>4. PICK n \in 1 .. Len(y) : n = pos[p]
  BY <1>1, <1>3
<1>5. /\ Maps(g, D, T) /\ OnItsWay(c, T) /\ Matches(c, f, x, k, g, y, n)
      /\ Ahead(f, x, k) \in Seq(T)
  BY <1>2, <1>3, <1>4, OfPairs
<1>6. g[y[n]] = << t >> /\ c # << >>
  BY <1>2, <1>3, <1>4 DEF ReceivesOnly
<1>. QED
  BY <1>2, <1>5, <1>6, ReceiverGoesOn

\* When all are done nothing is on its way.
LEMMA AllAtTheEnd ==
  ASSUME NEW Q, NEW D, NEW T, NEW snd, NEW rcv, NEW prog, NEW pos, NEW ch,
         Agreeing(Q, D, T, snd, rcv, prog, pos, ch), \A p \in Q : pos[p] > Len(prog[p])
  PROVE  ch = [p \in Q |-> [q \in Q |-> << >>]]
<1>1. ASSUME NEW p \in Q, NEW q \in Q PROVE ch[q][p] = << >>
  <2>1. PICK f, g, c, k : f = snd[p] /\ g = rcv[q] /\ c = ch[q][p] /\ k = pos[q]
    OBVIOUS
  <2>2. PICK x, y \in Seq(D) : x = prog[q] /\ y = prog[p]
    BY OfPairs
  <2>3. pos[p] = Len(y) + 1
    <3>1. pos[p] \in 1 .. Len(y) + 1 /\ pos[p] > Len(y) /\ Len(y) \in Nat
      BY <2>2, OfPairs
    <3>. QED
      BY <3>1
  <2>4. /\ Maps(g, D, T) /\ OnItsWay(c, T) /\ Matches(c, f, x, k, g, y, Len(y) + 1)
        /\ Ahead(f, x, k) \in Seq(T)
    BY <2>1, <2>2, <2>3, OfPairs
  <2>5. c = << >>
    BY <2>4, NothingExpected
  <2>. QED
    BY <2>1, <2>5
<1>2. ch = [a \in Q |-> [b \in Q |-> ch[a][b]]]
  BY DEF Agreeing, Running
<1>. QED
  BY <1>1, <1>2

\* The next instruction of a party that is not done.
LEMMA NextIsOne ==
  ASSUME NEW Q, NEW D, NEW T, NEW snd, NEW rcv, NEW prog, NEW pos, NEW ch,
         Agreeing(Q, D, T, snd, rcv, prog, pos, ch), NEW p \in Q, ~(pos[p] > Len(prog[p]))
  PROVE  prog[p][pos[p]] \in D
<1>1. PICK s \in Seq(D) : s = prog[p]
  BY OfPairs
<1>2. PICK n : n = pos[p]
  OBVIOUS
<1>3. n \in 1 .. Len(s) + 1 /\ ~(n > Len(s)) /\ Len(s) \in Nat
  BY <1>1, <1>2, OfPairs
<1>4. s[n] \in D
  BY <1>3, ElementOfSeq
<1>. QED
  BY <1>1, <1>2, <1>4

-----------------------------------------------------------------------------
(* What the instructions of a program have to do with, L[i] for instruction  *)
(* i: whether two of them have anything in common.                           *)

Apart(L, s) == \A m, n \in 1 .. Len(s) : m # n => L[s[m]] \cap L[s[n]] = {}

Together(L, s) == UNION { L[s[n]] : n \in 1 .. Len(s) }

\* One program and another behind it.
LEMMA ApartConcat ==
  ASSUME NEW D, NEW L
  PROVE  \A a, b \in Seq(D) :
           /\ Together(L, a \o b) = Together(L, a) \cup Together(L, b)
           /\ Apart(L, a) /\ Apart(L, b) /\ Together(L, a) \cap Together(L, b) = {} => Apart(L, a \o b)
<1> SUFFICES ASSUME NEW a \in Seq(D), NEW b \in Seq(D)
             PROVE  /\ Together(L, a \o b) = Together(L, a) \cup Together(L, b)
                    /\ Apart(L, a) /\ Apart(L, b) /\ Together(L, a) \cap Together(L, b) = {} => Apart(L, a \o b)
  OBVIOUS
<1>1. PICK m, n \in Nat : m = Len(a) /\ n = Len(b)
  OBVIOUS
<1>2. PICK c \in Seq(D) : c = a \o b
  <2>1. a \o b \in Seq(D)
    BY ConcatProperties
  <2>. QED
    BY <2>1
<1>3. /\ Len(c) = m + n
      /\ \A i \in 1 .. m : c[i] = a[i]
      /\ \A i \in 1 .. n : c[m + i] = b[i]
  BY <1>1, <1>2
<1>4. \A i \in 1 .. m + n : i \in 1 .. m \/ \E j \in 1 .. n : i = m + j
  <2> SUFFICES ASSUME NEW i \in 1 .. m + n, i \notin 1 .. m PROVE \E j \in 1 .. n : i = m + j
    OBVIOUS
  <2>1. i - m \in 1 .. n /\ i = m + (i - m)
    OBVIOUS
  <2>. QED
    BY <2>1
<1>5. \A i \in 1 .. m + n : \/ i \in 1 .. m /\ c[i] = a[i]
                            \/ \E j \in 1 .. n : i = m + j /\ c[i] = b[j]
  BY <1>3, <1>4
<1>6. /\ \A i \in 1 .. m : i \in 1 .. m + n
      /\ \A i \in 1 .. n : m + i \in 1 .. m + n
  OBVIOUS
<1>7. Together(L, c) = Together(L, a) \cup Together(L, b)
  <2>1. ASSUME NEW e, e \in Together(L, c) PROVE e \in Together(L, a) \cup Together(L, b)
    <3>1. PICK i \in 1 .. m + n : e \in L[c[i]]
      BY <1>3, <2>1 DEF Together
    <3>2. CASE i \in 1 .. m /\ c[i] = a[i]
      BY <1>1, <3>1, <3>2 DEF Together
    <3>3. ASSUME NEW j \in 1 .. n, c[i] = b[j] PROVE e \in Together(L, b)
      BY <1>1, <3>1, <3>3 DEF Together
    <3>. QED
      BY <1>5, <3>2, <3>3
  <2>2. ASSUME NEW e, e \in Together(L, a) PROVE e \in Together(L, c)
    <3>1. PICK i \in 1 .. m : e \in L[a[i]]
      BY <1>1, <2>2 DEF Together
    <3>. QED
      BY <1>3, <1>6, <3>1 DEF Together
  <2>3. ASSUME NEW e, e \in Together(L, b) PROVE e \in Together(L, c)
    <3>1. PICK i \in 1 .. n : e \in L[b[i]]
      BY <1>1, <2>3 DEF Together
    <3>2. PICK k \in 1 .. m + n : k = m + i /\ c[k] = b[i]
      BY <1>3, <1>6
    <3>. QED
      BY <1>3, <3>1, <3>2 DEF Together
  <2>. QED
    BY <2>1, <2>2, <2>3
<1>8. ASSUME Apart(L, a), Apart(L, b), Together(L, a) \cap Together(L, b) = {} PROVE Apart(L, c)
  <2> SUFFICES ASSUME NEW i \in 1 .. m + n, NEW j \in 1 .. m + n, i # j PROVE L[c[i]] \cap L[c[j]] = {}
    BY <1>3 DEF Apart
  <2>1. \A x \in 1 .. m : L[a[x]] \subseteq Together(L, a)
    BY <1>1 DEF Together
  <2>2. \A x \in 1 .. n : L[b[x]] \subseteq Together(L, b)
    BY <1>1 DEF Together
  <2>3. \A x, y \in 1 .. m : x # y => L[a[x]] \cap L[a[y]] = {}
    BY <1>1, <1>8 DEF Apart
  <2>4. \A x, y \in 1 .. n : x # y => L[b[x]] \cap L[b[y]] = {}
    BY <1>1, <1>8 DEF Apart
  <2>5. CASE i \in 1 .. m /\ c[i] = a[i] /\ j \in 1 .. m /\ c[j] = a[j]
    BY <2>3, <2>5
  <2>6. CASE i \in 1 .. m /\ c[i] = a[i] /\ \E y \in 1 .. n : j = m + y /\ c[j] = b[y]
    BY <1>8, <2>1, <2>2, <2>6
  <2>7. CASE (\E x \in 1 .. n : i = m + x /\ c[i] = b[x]) /\ j \in 1 .. m /\ c[j] = a[j]
    BY <1>8, <2>1, <2>2, <2>7
  <2>8. CASE (\E x \in 1 .. n : i = m + x /\ c[i] = b[x]) /\ \E y \in 1 .. n : j = m + y /\ c[j] = b[y]
    BY <2>4, <2>8
  <2>. QED
    BY <1>5, <2>5, <2>6, <2>7, <2>8
<1>. QED
  BY <1>2, <1>7, <1>8

\* The parts have nothing in common, neither each in itself nor two of them.
RowsApart(L, s) ==
  /\ \A i \in 1 .. Len(s) : Apart(L, s[i])
  /\ \A i, j \in 1 .. Len(s) : i # j => Together(L, s[i]) \cap Together(L, s[j]) = {}

\* Parts end to end.
LEMMA ApartFlatten ==
  ASSUME NEW D, NEW L
  PROVE  \A s \in Seq(Seq(D)) :
           /\ Together(L, FlattenSeq(s)) = UNION { Together(L, s[i]) : i \in 1 .. Len(s) }
           /\ RowsApart(L, s) => Apart(L, FlattenSeq(s))
<1> SUFFICES ASSUME NEW s \in Seq(Seq(D))
             PROVE  /\ Together(L, FlattenSeq(s)) = UNION { Together(L, s[i]) : i \in 1 .. Len(s) }
                    /\ RowsApart(L, s) => Apart(L, FlattenSeq(s))
  OBVIOUS
<1>1. PICK n \in Nat : n = Len(s)
  OBVIOUS
<1>2. PICK g \in [0 .. n -> Seq(D)] : RunsTo(g, s, n)
  BY <1>1, RunExists DEF HasRun
<1>3. FlattenSeq(s) = g[n]
  BY <1>1, <1>2, FlattenIsRun
<1> DEFINE All(k) == UNION { Together(L, s[i]) : i \in 1 .. k }
           T == { k \in Nat : k <= n => /\ Together(L, g[k]) = All(k)
                                        /\ RowsApart(L, s) => Apart(L, g[k]) }
<1>4. 0 \in T
  <2>1. g[0] = << >>
    BY <1>2 DEF RunsTo
  <2>2. Together(L, << >>) = {} /\ Apart(L, << >>)
    BY DEF Together, Apart
  <2>3. All(0) = {}
    OBVIOUS
  <2>. QED
    BY <2>1, <2>2, <2>3
<1>5. ASSUME NEW k \in Nat, k \in T PROVE k + 1 \in T
  <2> SUFFICES ASSUME k + 1 <= n
               PROVE  /\ Together(L, g[k + 1]) = All(k + 1)
                      /\ RowsApart(L, s) => Apart(L, g[k + 1])
    OBVIOUS
  <2>1. PICK a \in Seq(D) : a = g[k] /\ Together(L, a) = All(k) /\ (RowsApart(L, s) => Apart(L, a))
    BY <1>2, <1>5
  <2>2. PICK i \in 1 .. n : i = k + 1 /\ i - 1 = k
    OBVIOUS
  <2>3. PICK b \in Seq(D) : b = s[i]
    BY <1>1
  <2>4. g[i] = a \o b
    <3>1. \A x \in 1 .. n : g[x] = g[x - 1] \o s[x]
      BY <1>2 DEF RunsTo
    <3>2. g[i] = g[i - 1] \o s[i]
      BY <3>1
    <3>3. g[i - 1] = a
      BY <2>1, <2>2
    <3>. QED
      BY <2>3, <3>2, <3>3, Zenon
  <2>5. /\ Together(L, a \o b) = Together(L, a) \cup Together(L, b)
        /\ Apart(L, a) /\ Apart(L, b) /\ Together(L, a) \cap Together(L, b) = {} => Apart(L, a \o b)
    BY ApartConcat
  <2>6. All(k + 1) = All(k) \cup Together(L, b)
    <3>1. /\ \A x \in 1 .. k + 1 : x \in 1 .. k \/ x = k + 1
          /\ \A x \in 1 .. k : x \in 1 .. k + 1
          /\ k + 1 \in 1 .. k + 1
      OBVIOUS
    <3>2. Together(L, b) = Together(L, s[k + 1])
      BY <2>2, <2>3
    <3>. QED
      BY <3>1, <3>2
  <2>7. ASSUME RowsApart(L, s) PROVE Apart(L, a \o b)
    <3>1. Apart(L, b)
      BY <1>1, <2>3, <2>7 DEF RowsApart
    <3>2. ASSUME NEW x \in 1 .. k PROVE Together(L, s[x]) \cap Together(L, b) = {}
      <4>1. x \in 1 .. n /\ x # i
        BY <2>2
      <4>. QED
        BY <1>1, <2>3, <2>7, <4>1 DEF RowsApart
    <3>3. Together(L, a) \cap Together(L, b) = {}
      BY <2>1, <3>2
    <3>. QED
      BY <2>1, <2>5, <2>7, <3>1, <3>3
  <2>. QED
    BY <2>1, <2>2, <2>4, <2>5, <2>6, <2>7
<1>6. Nat \subseteq T
  <2> HIDE DEF T
  <2>. QED
    BY <1>4, <1>5, InductiveSet
<1>7. n \in T
  <2> HIDE DEF T
  <2>. QED
    BY <1>6
<1>. QED
  BY <1>1, <1>3, <1>7

-----------------------------------------------------------------------------
(* Division, pieces of one length, and parts of sequences. *)

\* A product with more factors is not smaller.
LEMMA NoFewer == \A a, b, m \in Nat : a <= b => a * m \in Nat /\ a * m <= b * m
<1> SUFFICES ASSUME NEW a \in Nat, NEW b \in Nat, NEW m \in Nat, a <= b PROVE a * m \in Nat /\ a * m <= b * m
  OBVIOUS
<1>1. PICK d \in Nat : d = b - a /\ b = a + d
  OBVIOUS
<1>2. (a + d) * m = a * m + d * m /\ a * m \in Nat /\ d * m \in Nat
  OBVIOUS
<1>. QED
  BY <1>1, <1>2

\* Who finds a quotient and a remainder has found the quotient and the
\* remainder.
Divided(x, m, q, r) == x = q * m + r

\* The quotient and the remainder are the only ones.
LEMMA OneQuotient ==
  ASSUME NEW m \in Nat \ {0}, NEW q \in Nat, NEW r \in 0 .. m - 1, NEW x \in Nat, Divided(x, m, q, r)
  PROVE  x \div m = q /\ x % m = r
<1>0. x = q * m + r
  BY DEF Divided
<1>1. x \div m \in Nat /\ x % m \in Nat /\ x % m < m /\ x = (x \div m) * m + (x % m)
  OBVIOUS
<1>2. PICK d \in Nat, e \in 0 .. m - 1 : d = x \div m /\ e = x % m /\ x = d * m + e
  BY <1>1
<1>3. q * m \in Nat /\ d * m \in Nat
  OBVIOUS
<1>4. ~(q < d)
  <2> SUFFICES ASSUME q < d PROVE FALSE
    OBVIOUS
  <2>1. q + 1 <= d /\ q + 1 \in Nat
    OBVIOUS
  <2>2. (q + 1) * m <= d * m
    BY <2>1, NoFewer
  <2>3. (q + 1) * m = q * m + m
    BY OneMore
  <2>. QED
    BY <1>0, <1>2, <1>3, <2>2, <2>3
<1>5. ~(d < q)
  <2> SUFFICES ASSUME d < q PROVE FALSE
    OBVIOUS
  <2>1. d + 1 <= q /\ d + 1 \in Nat
    OBVIOUS
  <2>2. (d + 1) * m <= q * m
    BY <2>1, NoFewer
  <2>3. (d + 1) * m = d * m + m
    BY OneMore
  <2>. QED
    BY <1>0, <1>2, <1>3, <2>2, <2>3
<1>6. q = d
  BY <1>4, <1>5
<1>7. r = e
  BY <1>0, <1>2, <1>3, <1>6
<1>. QED
  BY <1>2, <1>6, <1>7

\* Every number has a quotient and a remainder.
LEMMA Quotient ==
  ASSUME NEW m \in Nat \ {0}, NEW x \in Nat
  PROVE  \E q \in Nat, r \in 0 .. m - 1 : x = q * m + r /\ q = x \div m /\ r = x % m
<1>1. x \div m \in Nat /\ x % m \in Nat /\ x % m < m /\ x = (x \div m) * m + (x % m)
  OBVIOUS
<1>. QED
  BY <1>1

\* A number is its own remainder below the modulus.
LEMMA SmallRemainder ==
  ASSUME NEW x \in Nat, NEW m \in Nat, x < m
  PROVE  x % m = x
OBVIOUS

\* Sums that the provers are not left to find among other facts.
LEMMA FewerFit == \A a, s, l \in Nat : \A o \in 0 .. l : o \in Nat /\ a + s + o <= a + s + l
OBVIOUS

LEMMA Difference == \A l \in Nat : \A o \in 0 .. l : \E d \in Nat : d = l - o /\ o + d = l /\ o \in Nat
OBVIOUS

LEMMA PlaceBehind == \A e \in Nat, q \in Nat : \A i \in 1 .. q : e + i \in 1 .. e + q
OBVIOUS

LEMMA PlacesBehind ==
  \A p, o, d \in Nat : \A x \in 1 .. d : o + x \in 1 .. o + d /\ p + (o + x) = p + o + x
OBVIOUS

LEMMA LongerLength == \A p, o, d \in Nat : p <= p + o /\ p + (o + d) = p + o + d
OBVIOUS

LEMMA PartsFit ==
  ASSUME NEW l \in Nat, NEW m \in Nat, NEW s \in Nat, NEW o \in Nat, m + s + o <= l
  PROVE  s + o \in Nat /\ m + (s + o) <= l /\ m + s <= l
OBVIOUS

\* Where piece i of n is, if all pieces have w members and t pieces are before
\* them.
LEMMA WordAt ==
  ASSUME NEW w \in Nat, NEW t \in Nat, NEW n \in Nat, NEW i \in 1 .. n
  PROVE  \E d \in Nat, v \in Nat : /\ d = (i - 1) * w /\ v = t + (i - 1) /\ v * w = t * w + d
                                   /\ (v + 1) * w = t * w + d + w /\ d + w <= n * w
<1>1. PICK p \in Nat : p = i - 1 /\ i = p + 1 /\ p + 1 <= n
  OBVIOUS
<1>2. PICK d \in Nat, v \in Nat : d = p * w /\ v = t + p
  BY OneMore
<1>3. (t + p) * w = t * w + p * w
  OBVIOUS
<1>4. (v + 1) * w = v * w + w /\ (p + 1) * w = d + w
  BY <1>2, OneMore
<1>5. (p + 1) * w <= n * w
  BY <1>1, NoFewer
<1>. QED
  BY <1>1, <1>2, <1>3, <1>4, <1>5

\* Piece by piece, where all pieces have m members.
AllOfLength(s, m) == \A i \in 1 .. Len(s) : Len(s[i]) = m

InPlace(s, m) == \A j \in 1 .. Len(s), r \in 1 .. m : FlattenSeq(s)[(j - 1) * m + r] = s[j][r]

\* Pieces of one length put end to end: where each member of each piece is.
LEMMA FlattenPlaces ==
  ASSUME NEW S, NEW s \in Seq(Seq(S)), NEW m \in Nat, AllOfLength(s, m)
  PROVE  InPlace(s, m)
<1>0. \A i \in 1 .. Len(s) : Len(s[i]) = m
  BY DEF AllOfLength
<1>1. PICK n \in Nat : n = Len(s)
  OBVIOUS
<1>2. PICK g \in [0 .. n -> Seq(S)] : RunsTo(g, s, n)
  BY <1>1, RunExists DEF HasRun
<1>3. FlattenSeq(s) = g[n]
  BY <1>1, <1>2, FlattenIsRun
<1> DEFINE Right(k) == /\ Len(g[k]) = k * m
                       /\ \A j \in 1 .. k, r \in 1 .. m : g[k][(j - 1) * m + r] = s[j][r]
           T == { k \in Nat : k <= n => Right(k) }
<1>4. 0 \in T
  BY <1>2 DEF RunsTo
<1>5. ASSUME NEW k \in Nat, k \in T PROVE k + 1 \in T
  <2> SUFFICES ASSUME k + 1 <= n PROVE Right(k + 1)
    OBVIOUS
  <2>0. Right(k) /\ k \in 0 .. n
    BY <1>5
  <2>1. PICK a \in Seq(S) : a = g[k]
    BY <1>2, <2>0
  <2>a. Len(a) = k * m /\ \A j \in 1 .. k, r \in 1 .. m : a[(j - 1) * m + r] = s[j][r]
    BY <2>0, <2>1
  <2>2. PICK b \in Seq(S) : b = s[k + 1] /\ Len(b) = m
    BY <1>0, <1>1
  <2>3. g[k + 1] = a \o b
    <3>1. \A i \in 1 .. n : g[i] = g[i - 1] \o s[i]
      BY <1>2 DEF RunsTo
    <3>2. PICK i \in 1 .. n : i = k + 1 /\ i - 1 = k
      OBVIOUS
    <3>3. g[i] = g[i - 1] \o s[i]
      BY <3>1
    <3>4. g[i - 1] = a /\ s[i] = b
      BY <2>1, <2>2, <3>2
    <3>. QED
      BY <3>2, <3>3, <3>4, Zenon
  <2>4. PICK l \in Nat : l = k * m
    BY OneMore
  <2>b. Len(a) = l /\ (k + 1) * m = l + m
    BY <2>a, <2>4, OneMore
  <2>c. /\ Len(a \o b) = Len(a) + Len(b)
        /\ \A i \in 1 .. Len(a) + Len(b) : (a \o b)[i] = IF i <= Len(a) THEN a[i] ELSE b[i - Len(a)]
    BY ConcatProperties
  <2>5. Len(a \o b) = (k + 1) * m
    BY <2>2, <2>b, <2>c
  <2>6. \A i \in 1 .. l + m : (a \o b)[i] = IF i <= l THEN a[i] ELSE b[i - l]
    BY <2>2, <2>b, <2>c
  <2> HIDE DEF T
  <2>7. ASSUME NEW j \in 1 .. k + 1, NEW r \in 1 .. m PROVE (a \o b)[(j - 1) * m + r] = s[j][r]
    <3>1. CASE j = k + 1
      <4>1. j - 1 = k /\ l + r \in 1 .. l + m /\ ~(l + r <= l) /\ (l + r) - l = r
        BY <3>1
      <4>2. (a \o b)[l + r] = b[r]
        BY <2>6, <4>1
      <4>. QED
        BY <2>2, <2>4, <3>1, <4>1, <4>2
    <3>2. CASE j # k + 1
      <4>1. PICK h \in Nat : h = j - 1 /\ j = h + 1 /\ h + 1 <= k /\ j \in 1 .. k
        BY <3>2
      <4>2. (h + 1) * m <= k * m /\ (h + 1) * m = h * m + m /\ h * m \in Nat
        BY <4>1, NoFewer, OneMore
      <4>3. PICK p \in Nat : p = h * m
        BY <4>2
      <4>a. p + m <= l
        BY <2>4, <4>2, <4>3
      <4>4. p + r \in 1 .. l + m /\ p + r <= l
        BY <4>a
      <4>5. (a \o b)[p + r] = a[p + r]
        BY <2>6, <4>4
      <4>6. a[(j - 1) * m + r] = s[j][r]
        BY <2>a, <4>1
      <4>. QED
        BY <4>1, <4>3, <4>5, <4>6
    <3>. QED
      BY <3>1, <3>2
  <2>. QED
    BY <2>3, <2>5, <2>7
<1>6. Nat \subseteq T
  <2> HIDE DEF T
  <2>. QED
    BY <1>4, <1>5, InductiveSet
<1>7. Right(n)
  <2>1. n \in T
    <3> HIDE DEF T
    <3>. QED
      BY <1>1, <1>6
  <2>. QED
    BY <2>1
<1>. QED
  BY <1>1, <1>3, <1>7 DEF InPlace

\* A sequence of anything, one longer.
LEMMA AppendAny ==
  ASSUME NEW s, IsSeq(s), NEW e
  PROVE  /\ IsSeq(Append(s, e)) /\ Len(s) \in Nat /\ Len(Append(s, e)) = Len(s) + 1
         /\ Append(s, e)[Len(s) + 1] = e /\ \A i \in 1 .. Len(s) : Append(s, e)[i] = s[i]
         /\ DOMAIN s = 1 .. Len(s) /\ DOMAIN Append(s, e) = 1 .. Len(s) + 1
<1>1. PICK S : S = Range(s) \cup {e}
  OBVIOUS
<1>2. s \in Seq(S) /\ e \in S
  BY <1>1 DEF IsSeq
<1>3. Append(s, e) \in Seq(S)
  BY <1>2
<1>4. IsSeq(Append(s, e))
  BY <1>3, OwnMembers
<1>. QED
  BY <1>2, <1>3, <1>4

\* The type of a sequence one longer.
LEMMA AppendType ==
  ASSUME NEW S, NEW v \in Seq(S), NEW e \in S
  PROVE  Append(v, e) \in Seq(S)
OBVIOUS

Behind(a, b, e) == Append(a \o b, e) = a \o Append(b, e)

\* A member is appended to two sequences by appending it to the second.
LEMMA AppendBehind ==
  ASSUME NEW S, NEW a \in Seq(S), NEW b \in Seq(S), NEW e \in S
  PROVE  Behind(a, b, e)
BY DEF Behind

\* What ends the last piece of the last list of pieces is behind all the rest.
LEMMA LastOfAll ==
  ASSUME NEW S, NEW p \in Seq(Seq(Seq(S))), NEW b \in Seq(Seq(S)), NEW v \in Seq(S), NEW pad \in S
  PROVE  FlattenSeq(FlattenSeq(Append(p, Append(b, Append(v, pad)))))
           = Append(FlattenSeq(FlattenSeq(p) \o b) \o v, pad)
<1>1. PICK c \in Seq(S) : c = Append(v, pad)
  <2>1. Append(v, pad) \in Seq(S)
    BY AppendType, Zenon
  <2>. QED
    BY <2>1
<1>2. PICK f \in Seq(Seq(S)) : f = Append(b, c)
  <2>1. PICK T : T = Seq(S)
    OBVIOUS
  <2>2. b \in Seq(T) /\ c \in T
    BY <2>1
  <2>3. Append(b, c) \in Seq(T)
    BY <2>2
  <2>. QED
    BY <2>1, <2>3
<1>3. PICK q \in Seq(Seq(S)) : q = FlattenSeq(p)
  BY FlattenType
<1>4. FlattenSeq(Append(p, f)) = q \o f
  BY <1>3, FlattenAppend
<1>5. PICK x \in Seq(Seq(S)) : x = q \o b /\ q \o f = Append(x, c)
  <2>1. Behind(q, b, c)
    BY AppendBehind
  <2>2. q \o b \in Seq(Seq(S))
    OBVIOUS
  <2>. QED
    BY <1>2, <2>1, <2>2 DEF Behind
<1>6. FlattenSeq(Append(x, c)) = FlattenSeq(x) \o c
  BY FlattenAppend
<1>7. PICK y \in Seq(S) : y = FlattenSeq(x)
  BY FlattenType
<1>8. y \o c = Append(y \o v, pad)
  <2>1. Behind(y, v, pad)
    BY AppendBehind
  <2>. QED
    BY <1>1, <2>1 DEF Behind
<1>. QED
  BY <1>1, <1>2, <1>3, <1>4, <1>5, <1>6, <1>7, <1>8, Zenon

\* Sequences over a set are sequences over a larger one.
LEMMA SeqWider ==
  ASSUME NEW S, NEW T, S \subseteq T
  PROVE  Seq(S) \subseteq Seq(T)
<1> SUFFICES ASSUME NEW s \in Seq(S) PROVE s \in Seq(T)
  OBVIOUS
<1>1. PICK n \in Nat : n = Len(s)
  OBVIOUS
<1>2. s = [i \in 1 .. n |-> s[i]] /\ \A i \in 1 .. n : s[i] \in T
  BY <1>1
<1>3. s \in [1 .. n -> T]
  BY <1>2
<1>. QED
  BY <1>3

\* A beginning, and what follows it up to a later place, are a longer
\* beginning.
LEMMA LongerBeginning ==
  ASSUME NEW S, NEW s \in Seq(S), NEW n \in 0 .. Len(s), NEW m \in 0 .. n
  PROVE  /\ SubSeq(s, 1, m) \o SubSeq(s, m + 1, n) = SubSeq(s, 1, n)
         /\ SubSeq(s, m + 1, n) \in Seq(S) /\ Len(SubSeq(s, m + 1, n)) = n - m
<1>1. PICK h \in Nat : h = m + 1 /\ 1 <= h /\ n - h + 1 = n - m
  OBVIOUS
<1>2. /\ SubSeq(s, h, n) \in Seq(S) /\ Len(SubSeq(s, h, n)) = n - m
      /\ \A i \in 1 .. n - m : SubSeq(s, h, n)[i] = s[h + i - 1]
  BY <1>1
<1>3. /\ SubSeq(s, 1, n) \in Seq(S) /\ Len(SubSeq(s, 1, n)) = n
      /\ \A i \in 1 .. n : SubSeq(s, 1, n)[i] = s[i]
  OBVIOUS
<1>4. PICK t \in Seq(S) : t = SubSeq(s, 1, n)
  BY <1>3
<1>5. SubSeq(t, 1, m) \o SubSeq(t, m + 1, Len(t)) = t
  BY <1>3, <1>4, SplitAt
<1>6. SubSeq(t, 1, m) = SubSeq(s, 1, m)
  BY <1>3, <1>4
<1>7. SubSeq(t, m + 1, Len(t)) = SubSeq(s, m + 1, n)
  <2>1. /\ SubSeq(t, h, n) \in Seq(S) /\ Len(SubSeq(t, h, n)) = n - m
        /\ \A i \in 1 .. n - m : SubSeq(t, h, n)[i] = t[h + i - 1]
    BY <1>1, <1>3, <1>4
  <2>2. \A i \in 1 .. n - m : t[h + i - 1] = s[h + i - 1]
    BY <1>1, <1>3, <1>4
  <2>3. SubSeq(t, h, n) = SubSeq(s, h, n)
    <3>1. PICK x \in Seq(S), y \in Seq(S) : x = SubSeq(t, h, n) /\ y = SubSeq(s, h, n)
      BY <1>2, <2>1
    <3>2. Len(x) = n - m /\ Len(y) = n - m /\ \A i \in 1 .. n - m : x[i] = y[i]
      BY <1>2, <2>1, <2>2, <3>1
    <3>3. x = y
      BY <3>2
    <3>. QED
      BY <3>1, <3>3
  <2>. QED
    BY <1>1, <1>3, <1>4, <2>3
<1>. QED
  BY <1>1, <1>2, <1>4, <1>5, <1>6, <1>7

\* Sequences of one length with the same members are the same.
LEMMA SameMembers ==
  ASSUME NEW S, NEW x \in Seq(S), NEW y \in Seq(S), NEW n \in Nat, Len(x) = n, Len(y) = n,
         \A i \in 1 .. n : x[i] = y[i]
  PROVE  x = y
OBVIOUS

\* A part of a sequence: its length and its members.
PartOf(s, m, k, S) ==
  /\ SubSeq(s, m + 1, m + k) \in Seq(S) /\ Len(SubSeq(s, m + 1, m + k)) = k
  /\ \A i \in 1 .. k : SubSeq(s, m + 1, m + k)[i] = s[m + i]

\* That is what SubSeq takes out of a sequence that has so many members.
LEMMA PartIs ==
  ASSUME NEW S, NEW s \in Seq(S), NEW m \in Nat, NEW k \in Nat, m + k <= Len(s)
  PROVE  PartOf(s, m, k, S)
<1>1. PICK h \in Nat, n \in Nat : h = m + 1 /\ n = m + k /\ 1 <= h /\ n <= Len(s) /\ n - h + 1 = k
  OBVIOUS
<1>2. /\ SubSeq(s, h, n) \in Seq(S) /\ Len(SubSeq(s, h, n)) = k
      /\ \A i \in 1 .. k : SubSeq(s, h, n)[i] = s[h + i - 1]
  BY <1>1
<1>3. \A i \in 1 .. k : h + i - 1 = m + i
  BY <1>1
<1>. QED
  BY <1>1, <1>2, <1>3 DEF PartOf

\* r is the part of s with k members behind the first m.
IsPart(r, s, m, k) == r = SubSeq(s, m + 1, m + k)

\* Sequences that agree so far have that part in common.
LEMMA SamePart ==
  ASSUME NEW S, NEW s \in Seq(S), NEW t \in Seq(S), NEW m \in Nat, NEW k \in Nat,
         m + k <= Len(s), m + k <= Len(t), \A i \in 1 .. m + k : s[i] = t[i],
         NEW r, IsPart(r, s, m, k)
  PROVE  IsPart(r, t, m, k)
<1>1. PartOf(s, m, k, S) /\ PartOf(t, m, k, S)
  BY PartIs
<1>2. PICK x \in Seq(S), y \in Seq(S) : x = SubSeq(s, m + 1, m + k) /\ y = SubSeq(t, m + 1, m + k)
  BY <1>1 DEF PartOf
<1>3. Len(x) = k /\ Len(y) = k /\ \A i \in 1 .. k : x[i] = s[m + i] /\ y[i] = t[m + i]
  BY <1>1, <1>2 DEF PartOf
<1>4. \A i \in 1 .. k : m + i \in 1 .. m + k
  OBVIOUS
<1>5. \A i \in 1 .. k : x[i] = y[i]
  BY <1>3, <1>4
<1>6. x = y
  BY <1>3, <1>5, SameMembers
<1>. QED
  BY <1>2, <1>6 DEF IsPart

\* A part, and what goes on like what is behind it, are a longer part.
LEMMA PartGoesOn ==
  ASSUME NEW S, NEW h \in Seq(S), NEW m \in Nat, NEW s \in Nat, NEW o \in Nat, m + s + o <= Len(h),
         NEW r \in Seq(S), IsPart(r, h, m, s),
         NEW c \in Seq(S), Len(c) = o, \A i \in 1 .. o : c[i] = h[m + s + i]
  PROVE  IsPart(r \o c, h, m, s + o)
<1>1. PartOf(h, m, s, S) /\ PartOf(h, m, s + o, S)
  <2>1. s + o \in Nat /\ m + (s + o) <= Len(h) /\ m + s <= Len(h)
    BY PartsFit
  <2>. QED
    BY <2>1, PartIs
<1>2. PICK k \in Nat : k = s + o
  OBVIOUS
<1>3. PICK d \in Seq(S) : d = SubSeq(h, m + 1, m + k) /\ Len(d) = k /\ \A i \in 1 .. k : d[i] = h[m + i]
  BY <1>1, <1>2 DEF PartOf
<1>4. Len(r) = s /\ \A i \in 1 .. s : r[i] = h[m + i]
  BY <1>1 DEF PartOf, IsPart
<1>5. /\ r \o c \in Seq(S) /\ Len(r \o c) = k
      /\ \A i \in 1 .. k : (r \o c)[i] = IF i <= s THEN r[i] ELSE c[i - s]
  <2>1. /\ r \o c \in Seq(S) /\ Len(r \o c) = Len(r) + Len(c)
        /\ \A i \in 1 .. Len(r) + Len(c) : (r \o c)[i] = IF i <= Len(r) THEN r[i] ELSE c[i - Len(r)]
    BY ConcatProperties
  <2>. QED
    BY <1>2, <1>4, <2>1
<1>6. PICK z \in Seq(S) : z = r \o c
  BY <1>5
<1>7. ASSUME NEW i \in 1 .. k PROVE z[i] = d[i]
  <2>1. CASE i <= s
    BY <1>3, <1>4, <1>5, <1>6, <2>1
  <2>2. CASE ~(i <= s)
    <3>1. PICK x \in 1 .. o : x = i - s /\ m + s + x = m + i
      BY <1>2, <2>2
    <3>. QED
      BY <1>3, <1>5, <1>6, <2>2, <3>1
  <2>. QED
    BY <2>1, <2>2
<1>8. z = d
  BY <1>3, <1>5, <1>6, <1>7, SameMembers
<1>. QED
  BY <1>2, <1>3, <1>6, <1>8 DEF IsPart
=============================================================================
