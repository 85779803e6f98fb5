----------------------------- MODULE DN07Proofs -----------------------------
(***************************************************************************)
(* The baseline protocol's messages and P1's queues, for any number of     *)
(* parties, any threshold below half of them and any circuit: whatever is  *)
(* received was sent for what it is received for, P1 finds in its queues   *)
(* what it takes from them, and at the end nothing is left.                *)
(*                                                                         *)
(* A party's line is its phases end to end, in each what the started       *)
(* thread is told and behind it what the main one is.  Beside a started    *)
(* thread, which only sends, the main one only receives: so what is sent   *)
(* is sent in the order of the line and what is received is received in    *)
(* it, at places of their own (SendPlace, ReceivePlace), whichever thread  *)
(* runs first.  For two parties, what the one's line sends the other and   *)
(* what the other's asks of the one are read off as sequences of tags,     *)
(* protocol by protocol, and are equal (FlowsMatch, LinesTrade).  So it    *)
(* stays an invariant that what is on its way and what is still to be sent *)
(* is what is still to be received (Met), and that a queue holds as many   *)
(* as are still to be taken and not still to be put into it (QueuesOK).    *)
(***************************************************************************)
EXTENDS DN07, StreamLemmas

-----------------------------------------------------------------------------
(* Sequences of tags.                                                       *)

\* Messages made of tags.
LEMMA TagsMade ==
  ASSUME NEW T, NEW t \in Seq(T), NEW m, m = [i \in DOMAIN t |-> m[i]],
         \A i \in DOMAIN t : m[i].tag = t[i]
  PROVE  IsSeq(m) /\ TagsOf(m) = t
<1>1. PICK n \in Nat : n = Len(t) /\ DOMAIN t = 1 .. n
  OBVIOUS
<1>2. IsSeq(m) /\ Len(m) = n
  BY <1>1, FromPlaces
<1>3. TagsOf(m) = [i \in 1 .. n |-> t[i]]
  BY <1>1, <1>2 DEF TagsOf
<1>4. t = [i \in 1 .. n |-> t[i]]
  BY <1>1
<1>. QED
  BY <1>1, <1>2, <1>3, <1>4

\* What is made of a program is made of its parts.
PartByPart(f, D) == \A a, b \in Seq(D) : Projected(f, a \o b) = Projected(f, a) \o Projected(f, b)

LEMMA ProjectsParts ==
  ASSUME NEW D, NEW T, NEW f, Maps(f, D, T)
  PROVE  PartByPart(f, D)
BY ProjectedConcat DEF PartByPart

\* The sender goes on and sends all that its instruction makes at once.
LEMMA SenderSends ==
  ASSUME NEW D, NEW T, NEW f, Maps(f, D, T), NEW x \in Seq(D), NEW i \in 1 .. Len(x),
         NEW c, OnItsWay(c, T), NEW g, NEW y, NEW j, Matches(c, f, x, i, g, y, j),
         NEW m, IsSeq(m), TagsOf(m) = f[x[i]]
  PROVE  OnItsWay(c \o m, T) /\ Matches(c \o m, f, x, i + 1, g, y, j)
<1>1. PICK t, u \in Seq(T) : t = f[x[i]] /\ u = Ahead(f, x, i + 1) /\ Ahead(f, x, i) = t \o u
  <2>1. HeadAndRest(f, x, i, T)
    BY AheadParts
  <2>. QED
    BY <2>1 DEF HeadAndRest
<1>2. PICK s \in Seq(T) : s = TagsOf(c)
  BY DEF OnItsWay
<1>3. IsSeq(c \o m) /\ TagsOf(c \o m) = s \o t
  BY <1>1, <1>2, TagsBehind DEF OnItsWay
<1>4. s \o t \in Seq(T) /\ s \o (t \o u) = (s \o t) \o u
  <2>1. \A a, b \in Seq(T) : a \o b \in Seq(T)
    BY TagsTogether
  <2>2. \A a, b, d \in Seq(T) : a \o (b \o d) = (a \o b) \o d
    BY TagsTogether
  <2>. QED
    BY <2>1, <2>2
<1>5. s \o (t \o u) = Ahead(g, y, j)
  BY <1>1, <1>2 DEF Matches
<1>. QED
  BY <1>1, <1>3, <1>4, <1>5 DEF OnItsWay, Matches

\* The receiver goes on and takes all that its instruction expects at once.
LEMMA ReceiverTakes ==
  ASSUME NEW D, NEW T, NEW g, Maps(g, D, T), NEW y \in Seq(D), NEW j \in 1 .. Len(y),
         NEW c, OnItsWay(c, T), NEW f, NEW x, NEW i, Ahead(f, x, i) \in Seq(T),
         Matches(c, f, x, i, g, y, j),
         NEW n, n = Len(g[y[j]]), n <= Len(c),
         NEW d, d = SubSeq(c, n + 1, Len(c))
  PROVE  OnItsWay(d, T) /\ Matches(d, f, x, i, g, y, j + 1)
<1>1. PICK t, w \in Seq(T) : t = g[y[j]] /\ w = Ahead(g, y, j + 1) /\ Ahead(g, y, j) = t \o w
  <2>1. HeadAndRest(g, y, j, T)
    BY AheadParts
  <2>. QED
    BY <2>1 DEF HeadAndRest
<1>2. PICK s \in Seq(T) : s = TagsOf(c)
  BY DEF OnItsWay
<1>3. PICK u \in Seq(T) : u = Ahead(f, x, i)
  OBVIOUS
<1>4. IsSeq(c) /\ Len(c) \in Nat /\ n \in 0 .. Len(c)
  <2>1. IsSeq(c) /\ Len(c) \in Nat
    BY DEF OnItsWay, IsSeq
  <2>2. n \in Nat
    BY <1>1
  <2>. QED
    BY <2>1, <2>2
<1>5. IsSeq(d) /\ Len(s) = Len(c) /\ TagsOf(d) = SubSeq(s, n + 1, Len(s))
  BY <1>2, <1>4, TagsLeft
<1>6. SubSeq(s, n + 1, Len(s)) \o u = w
  <2>1. s \o u = t \o w
    BY <1>1, <1>2, <1>3 DEF Matches
  <2>2. Len(t) <= Len(s) /\ Len(t) = n
    BY <1>1, <1>4, <1>5
  <2>3. SubSeq(s, Len(t) + 1, Len(s)) \o u = w
    BY <2>1, <2>2, Cancel
  <2>. QED
    BY <2>2, <2>3
<1>7. SubSeq(s, n + 1, Len(s)) \in Seq(T)
  BY <1>4, <1>5
<1>. QED
  BY <1>1, <1>3, <1>5, <1>6, <1>7 DEF OnItsWay, Matches

-----------------------------------------------------------------------------
(* A queue that a program fills and empties: push and pop map an instruction *)
(* to what it adds and what it takes.                                        *)

\* Where something is taken there is something in the queue.
Covers(push, pop, x) ==
  \A n \in 1 .. Len(x) : pop[x[n]] # << >> => Len(Ahead(push, x, n)) < Len(Ahead(pop, x, n))

Balanced(push, pop, x) ==
  Covers(push, pop, x) /\ Len(Projected(push, x)) = Len(Projected(pop, x))

\* A program whose projection is empty makes nothing anywhere.
LEMMA NothingMade ==
  ASSUME NEW D, NEW T, NEW f, Maps(f, D, T), NEW x \in Seq(D), Projected(f, x) = << >>
  PROVE  \A n \in 1 .. Len(x) : f[x[n]] = << >> /\ Ahead(f, x, n) = << >>
<1>1. \A a, b \in Seq(D) : Projected(f, a \o b) = Projected(f, a) \o Projected(f, b)
  <2>1. PartByPart(f, D)
    BY ProjectsParts
  <2>. QED
    BY <2>1 DEF PartByPart
<1> SUFFICES ASSUME NEW n \in 1 .. Len(x) PROVE f[x[n]] = << >> /\ Ahead(f, x, n) = << >>
  OBVIOUS
<1>2. PICK a, b \in Seq(D) : a = SubSeq(x, 1, n - 1) /\ b = SubSeq(x, n, Len(x)) /\ a \o b = x
  <2>1. PICK h \in 0 .. Len(x) : h = n - 1 /\ h + 1 = n
    OBVIOUS
  <2>2. /\ SubSeq(x, 1, h) \in Seq(D) /\ SubSeq(x, h + 1, Len(x)) \in Seq(D)
        /\ SubSeq(x, 1, h) \o SubSeq(x, h + 1, Len(x)) = x
    BY SplitAt
  <2>. QED
    BY <2>1, <2>2
<1>3. Projected(f, x) = Projected(f, a) \o Projected(f, b)
  <2>1. Projected(f, a \o b) = Projected(f, a) \o Projected(f, b)
    BY <1>1, Zenon
  <2>. QED
    BY <1>2, <2>1
<1>4. PICK u \in Seq(T) : u = Projected(f, a)
  BY ProjectedType
<1>5. PICK v, w \in Seq(T) : v = f[x[n]] /\ w = Ahead(f, x, n + 1) /\ Ahead(f, x, n) = v \o w
  <2>1. HeadAndRest(f, x, n, T)
    BY AheadParts
  <2>. QED
    BY <2>1 DEF HeadAndRest
<1>6. Projected(f, b) = v \o w
  BY <1>2, <1>5 DEF Ahead
<1>7. Len(u \o (v \o w)) = Len(u) + (Len(v) + Len(w))
  OBVIOUS
<1>8. Len(v) = 0 /\ Len(w) = 0
  <2>1. u \o (v \o w) = << >>
    BY <1>3, <1>4, <1>6
  <2>2. Len(u \o (v \o w)) = 0
    BY <2>1
  <2>. QED
    BY <1>7, <2>2
<1>. QED
  BY <1>5, <1>8

\* A sequence from one of its places on.
LEMMA FromPlaceOn ==
  ASSUME NEW S, NEW s \in Seq(S), NEW m \in 1 .. Len(s)
  PROVE  /\ SubSeq(s, m, Len(s)) \in Seq(S) /\ Len(SubSeq(s, m, Len(s))) = Len(s) - m + 1
         /\ \A i \in 1 .. Len(s) - m + 1 : SubSeq(s, m, Len(s))[i] = s[m + i - 1]
<1>1. PICK n \in Nat : n = Len(s)
  OBVIOUS
<1>2. m \in Int /\ n \in Int /\ m <= n /\ \A i \in m .. n : s[i] \in S
  BY <1>1
<1>. QED
  BY <1>1, <1>2, SubSeqProperties

\* What is ahead in two programs, one behind the other.
LEMMA AheadOfTwo ==
  ASSUME NEW D, NEW T, NEW f, Maps(f, D, T), NEW a \in Seq(D), NEW b \in Seq(D)
  PROVE  /\ \A n \in 1 .. Len(a) :
              (a \o b)[n] = a[n] /\ Ahead(f, a \o b, n) = Ahead(f, a, n) \o Projected(f, b)
         /\ \A n \in 1 .. Len(b) :
              (a \o b)[Len(a) + n] = b[n] /\ Ahead(f, a \o b, Len(a) + n) = Ahead(f, b, n)
<1>1. \A c, d \in Seq(D) : Projected(f, c \o d) = Projected(f, c) \o Projected(f, d)
  <2>1. PartByPart(f, D)
    BY ProjectsParts
  <2>. QED
    BY <2>1 DEF PartByPart
<1>2. PICK l \in Nat : l = Len(a)
  OBVIOUS
<1>3. PICK m \in Nat : m = Len(b)
  OBVIOUS
<1>4. PICK x \in Seq(D) : x = a \o b
  <2>1. a \o b \in Seq(D)
    OBVIOUS
  <2>. QED
    BY <2>1
<1>5. Len(x) = l + m /\ \A i \in 1 .. l + m : x[i] = IF i <= l THEN a[i] ELSE b[i - l]
  BY <1>2, <1>3, <1>4, ConcatProperties
<1>6. ASSUME NEW n \in 1 .. l PROVE x[n] = a[n] /\ Ahead(f, x, n) = Ahead(f, a, n) \o Projected(f, b)
  <2>1. PICK r \in Seq(D) : r = SubSeq(a, n, l)
    BY <1>2, FromPlaceOn
  <2>2. Len(r) = l - n + 1 /\ \A i \in 1 .. l - n + 1 : r[i] = a[n + i - 1]
    BY <1>2, <2>1
  <2>0. n \in 1 .. Len(x) /\ Len(x) = l + m
    BY <1>5
  <2>3. PICK y \in Seq(D) : y = SubSeq(x, n, l + m)
    BY <2>0, FromPlaceOn
  <2>4. Len(y) = l + m - n + 1 /\ \A i \in 1 .. l + m - n + 1 : y[i] = x[n + i - 1]
    BY <2>3, <2>0, FromPlaceOn
  <2>5. r \o b \in Seq(D) /\ Len(r \o b) = l - n + 1 + m
        /\ \A i \in 1 .. l - n + 1 + m : (r \o b)[i] = IF i <= l - n + 1 THEN r[i] ELSE b[i - (l - n + 1)]
    <3>1. PICK k \in Nat : k = l - n + 1
      OBVIOUS
    <3>2. Len(r) = k
      BY <2>2, <3>1
    <3>3. r \o b \in Seq(D) /\ Len(r \o b) = k + m
      BY <1>3, <3>2, ConcatProperties, ZenonT(60)
    <3>4. \A i \in 1 .. k + m : (r \o b)[i] = IF i <= k THEN r[i] ELSE b[i - k]
      <4>1. \A i \in 1 .. Len(r) + Len(b) : (r \o b)[i] = IF i <= Len(r) THEN r[i] ELSE b[i - Len(r)]
        BY ConcatProperties
      <4>. QED
        BY <1>3, <3>2, <4>1
    <3>. QED
      BY <3>1, <3>3, <3>4
  <2>6. ASSUME NEW i \in 1 .. l + m - n + 1 PROVE y[i] = (r \o b)[i]
    <3>1. PICK j \in 1 .. l + m : j = n + i - 1
      OBVIOUS
    <3>2. y[i] = IF j <= l THEN a[j] ELSE b[j - l]
      BY <1>5, <2>4, <3>1
    <3>3. CASE i <= l - n + 1
      <4>1. j <= l /\ i \in 1 .. l - n + 1
        BY <3>1, <3>3
      <4>2. (r \o b)[i] = r[i]
        BY <2>5, <3>3, SMTT(30)
      <4>. QED
        BY <2>2, <3>1, <3>2, <4>1, <4>2
    <3>4. CASE ~(i <= l - n + 1)
      <4>1. ~(j <= l) /\ j - l = i - (l - n + 1)
        BY <3>1, <3>4
      <4>2. (r \o b)[i] = b[i - (l - n + 1)]
        BY <2>5, <3>4
      <4>. QED
        BY <3>2, <4>1, <4>2
    <3>. QED
      BY <3>3, <3>4
  <2>7. y = r \o b
    <3>1. Len(y) = Len(r \o b) /\ y \in Seq(D) /\ r \o b \in Seq(D)
      BY <2>4, <2>5
    <3>2. \A i \in 1 .. Len(y) : y[i] = (r \o b)[i]
      BY <2>4, <2>6
    <3>. QED
      BY <3>1, <3>2, SeqEqual
  <2>8. Projected(f, r \o b) = Projected(f, r) \o Projected(f, b)
    BY <1>1, Zenon
  <2>9. x[n] = a[n]
    BY <1>5
  <2>. QED
    BY <1>2, <1>5, <2>1, <2>3, <2>7, <2>8, <2>9 DEF Ahead
<1>7. ASSUME NEW n \in 1 .. m PROVE x[l + n] = b[n] /\ Ahead(f, x, l + n) = Ahead(f, b, n)
  <2>1. PICK k \in 1 .. l + m : k = l + n /\ k - l = n
    OBVIOUS
  <2>0. k \in 1 .. Len(x) /\ Len(x) = l + m
    BY <1>5
  <2>2. PICK y \in Seq(D) : y = SubSeq(x, k, l + m)
    BY <2>0, FromPlaceOn
  <2>3. Len(y) = l + m - k + 1 /\ \A i \in 1 .. l + m - k + 1 : y[i] = x[k + i - 1]
    BY <2>2, <2>0, FromPlaceOn
  <2>4. PICK r \in Seq(D) : r = SubSeq(b, n, m)
    BY <1>3, FromPlaceOn
  <2>5. Len(r) = m - n + 1 /\ \A i \in 1 .. m - n + 1 : r[i] = b[n + i - 1]
    BY <1>3, <2>4
  <2>6. Len(y) = Len(r) /\ Len(r) = m - n + 1
    BY <2>1, <2>3, <2>5
  <2>7. ASSUME NEW i \in 1 .. m - n + 1 PROVE y[i] = r[i]
    <3>1. PICK j \in 1 .. l + m : j = k + i - 1 /\ ~(j <= l) /\ j - l = n + i - 1
      BY <2>1
    <3>2. y[i] = b[j - l]
      BY <1>5, <2>1, <2>3, <3>1, SMTT(30)
    <3>. QED
      BY <2>5, <3>1, <3>2
  <2>8. y = r
    BY <2>6, <2>7, SeqEqual
  <2>9. x[k] = b[n]
    BY <1>5, <2>1
  <2>. QED
    BY <1>3, <1>5, <2>1, <2>2, <2>4, <2>8, <2>9 DEF Ahead
<1>. QED
  BY <1>2, <1>3, <1>4, <1>6, <1>7

\* Where a place in two programs is.
LEMMA InTwo ==
  ASSUME NEW D, NEW a \in Seq(D), NEW b \in Seq(D), NEW n \in 1 .. Len(a \o b)
  PROVE  n \in 1 .. Len(a) \/ \E m \in 1 .. Len(b) : n = Len(a) + m
<1>1. PICK l \in Nat : l = Len(a)
  OBVIOUS
<1>2. PICK k \in Nat : k = Len(b)
  OBVIOUS
<1>3. n \in 1 .. l + k
  BY <1>1, <1>2
<1>4. ASSUME ~(n \in 1 .. l) PROVE \E m \in 1 .. k : n = l + m
  <2>1. n - l \in 1 .. k /\ n = l + (n - l)
    BY <1>3, <1>4
  <2>. QED
    BY <2>1
<1>. QED
  BY <1>1, <1>2, <1>4

\* How much two programs make.
LEMMA LengthOfTwo ==
  ASSUME NEW D, NEW T, NEW f, Maps(f, D, T)
  PROVE  \A a, b \in Seq(D) :
           /\ Len(Projected(f, a)) \in Nat /\ Len(Projected(f, b)) \in Nat
           /\ Len(Projected(f, a \o b)) = Len(Projected(f, a)) + Len(Projected(f, b))
<1>1. \A a, b \in Seq(D) : Projected(f, a \o b) = Projected(f, a) \o Projected(f, b)
  <2>1. PartByPart(f, D)
    BY ProjectsParts
  <2>. QED
    BY <2>1 DEF PartByPart
<1>2. \A a \in Seq(D) : Projected(f, a) \in Seq(T)
  BY ProjectedType
<1>3. TAKE a, b \in Seq(D)
<1>4. PICK u \in Seq(T) : u = Projected(f, a)
  BY <1>2
<1>5. PICK v \in Seq(T) : v = Projected(f, b)
  BY <1>2
<1>6. Projected(f, a \o b) = u \o v
  BY <1>1, <1>4, <1>5, Zenon
<1>7. Len(u \o v) = Len(u) + Len(v)
  OBVIOUS
<1>. QED
  BY <1>4, <1>5, <1>6, <1>7

\* A program behind another, each of which leaves the queue as it finds it.
LEMMA BalancedConcat ==
  ASSUME NEW D, NEW T, NEW push, Maps(push, D, T), NEW pop, Maps(pop, D, T),
         NEW a \in Seq(D), NEW b \in Seq(D), Balanced(push, pop, a), Balanced(push, pop, b)
  PROVE  Balanced(push, pop, a \o b)
<1>0. \A n \in 1 .. Len(a) : Ahead(pop, a \o b, n) = Ahead(pop, a, n) \o Projected(pop, b)
  BY AheadOfTwo
<1>3. \A n \in 1 .. Len(a) :
        (a \o b)[n] = a[n] /\ Ahead(push, a \o b, n) = Ahead(push, a, n) \o Projected(push, b)
  BY AheadOfTwo
<1>1. Len(Projected(push, a \o b)) = Len(Projected(pop, a \o b))
  <2>1. Len(Projected(push, a \o b)) = Len(Projected(push, a)) + Len(Projected(push, b))
    BY LengthOfTwo
  <2>2. Len(Projected(pop, a \o b)) = Len(Projected(pop, a)) + Len(Projected(pop, b))
    BY LengthOfTwo
  <2>. QED
    BY <2>1, <2>2 DEF Balanced
<1>2. ASSUME NEW n \in 1 .. Len(a \o b), pop[(a \o b)[n]] # << >>
      PROVE  Len(Ahead(push, a \o b, n)) < Len(Ahead(pop, a \o b, n))
  <2>1. CASE n \in 1 .. Len(a)
    <3>0. (a \o b)[n] = a[n] /\ Ahead(push, a \o b, n) = Ahead(push, a, n) \o Projected(push, b)
      BY <1>3, <2>1, Zenon
    <3>1. PICK c, d \in Seq(T) : c = Ahead(push, a, n) /\ d = Ahead(pop, a, n)
      <4>1. PICK c \in Seq(T) : c = Ahead(push, a, n)
        BY <2>1, AheadAt
      <4>2. PICK d \in Seq(T) : d = Ahead(pop, a, n)
        BY <2>1, AheadAt
      <4>. QED
        BY <4>1, <4>2
    <3>2. PICK u, v \in Seq(T) : u = Projected(push, b) /\ v = Projected(pop, b)
      <4>1. PICK u \in Seq(T) : u = Projected(push, b)
        BY ProjectedType
      <4>2. PICK v \in Seq(T) : v = Projected(pop, b)
        BY ProjectedType
      <4>. QED
        BY <4>1, <4>2
    <3>3. (a \o b)[n] = a[n] /\ Ahead(push, a \o b, n) = c \o u
      BY <3>0, <3>1, <3>2
    <3>4. Ahead(pop, a \o b, n) = d \o v
      BY <1>0, <2>1, <3>1, <3>2
    <3>5. Len(c) < Len(d) /\ Len(u) = Len(v)
      BY <1>2, <2>1, <3>1, <3>2, <3>3 DEF Balanced, Covers
    <3>6. Len(c \o u) < Len(d \o v)
      BY <3>5
    <3>. QED
      BY <3>3, <3>4, <3>6
  <2>2. ASSUME NEW m \in 1 .. Len(b), n = Len(a) + m
        PROVE  Len(Ahead(push, a \o b, n)) < Len(Ahead(pop, a \o b, n))
    <3>1. (a \o b)[n] = b[m] /\ Ahead(push, a \o b, n) = Ahead(push, b, m)
      BY <2>2, AheadOfTwo
    <3>2. Ahead(pop, a \o b, n) = Ahead(pop, b, m)
      BY <2>2, AheadOfTwo
    <3>. QED
      BY <1>2, <3>1, <3>2 DEF Balanced, Covers
  <2>. QED
    BY <2>1, <2>2, InTwo
<1>. QED
  BY <1>1, <1>2 DEF Balanced, Covers

\* A program that only fills the queue, and one that empties it.
LEMMA FilledThenEmptied ==
  ASSUME NEW D, NEW T, NEW push, Maps(push, D, T), NEW pop, Maps(pop, D, T),
         NEW a \in Seq(D), NEW b \in Seq(D),
         Projected(pop, a) = << >>, Projected(push, b) = << >>,
         Len(Projected(push, a)) = Len(Projected(pop, b))
  PROVE  Balanced(push, pop, a \o b)
<1>1. Len(Projected(push, a \o b)) = Len(Projected(pop, a \o b))
  <2>1. /\ Len(Projected(push, a \o b)) = Len(Projected(push, a)) + Len(Projected(push, b))
        /\ Len(Projected(push, a)) \in Nat
    BY LengthOfTwo
  <2>2. Len(Projected(pop, a \o b)) = Len(Projected(pop, a)) + Len(Projected(pop, b))
    BY LengthOfTwo
  <2>3. Len(<< >>) = 0
    OBVIOUS
  <2>. QED
    BY <2>1, <2>2, <2>3
<1>2. ASSUME NEW n \in 1 .. Len(a \o b), pop[(a \o b)[n]] # << >>
      PROVE  Len(Ahead(push, a \o b, n)) < Len(Ahead(pop, a \o b, n))
  <2>1. CASE n \in 1 .. Len(a)
    <3>1. (a \o b)[n] = a[n]
      BY <2>1, AheadOfTwo
    <3>2. pop[a[n]] = << >>
      BY <2>1, NothingMade
    <3>. QED
      BY <1>2, <3>1, <3>2
  <2>2. ASSUME NEW m \in 1 .. Len(b), n = Len(a) + m
        PROVE  Len(Ahead(push, a \o b, n)) < Len(Ahead(pop, a \o b, n))
    <3>1. (a \o b)[n] = b[m] /\ Ahead(push, a \o b, n) = Ahead(push, b, m)
      BY <2>2, AheadOfTwo
    <3>2. Ahead(pop, a \o b, n) = Ahead(pop, b, m)
      BY <2>2, AheadOfTwo
    <3>3. Ahead(push, b, m) = << >>
      BY NothingMade
    <3>4. PICK u, v \in Seq(T) : u = pop[b[m]] /\ v = Ahead(pop, b, m + 1) /\ Ahead(pop, b, m) = u \o v
      <4>1. HeadAndRest(pop, b, m, T)
        BY AheadParts
      <4>. QED
        BY <4>1 DEF HeadAndRest
    <3>5. u # << >>
      BY <1>2, <3>1, <3>4
    <3>6. Len(u \o v) > 0
      BY <3>5
    <3>7. Len(<< >>) = 0
      OBVIOUS
    <3>. QED
      BY <3>1, <3>2, <3>3, <3>4, <3>6, <3>7
  <2>. QED
    BY <2>1, <2>2, InTwo
<1>. QED
  BY <1>1, <1>2 DEF Balanced, Covers

\* A program that does not touch the queue.
LEMMA BalancedNothing ==
  ASSUME NEW D, NEW T, NEW push, NEW pop, Maps(pop, D, T),
         NEW a \in Seq(D), Projected(push, a) = << >>, Projected(pop, a) = << >>
  PROVE  Balanced(push, pop, a)
<1>1. \A n \in 1 .. Len(a) : pop[a[n]] = << >>
  BY NothingMade
<1>. QED
  BY <1>1 DEF Balanced, Covers

\* Programs end to end, each of which leaves the queue as it finds it.
LEMMA BalancedRows ==
  ASSUME NEW D, NEW T, NEW push, Maps(push, D, T), NEW pop, Maps(pop, D, T),
         NEW s \in Seq(Seq(D)), \A i \in 1 .. Len(s) : Balanced(push, pop, s[i])
  PROVE  Balanced(push, pop, FlattenSeq(s))
<1> DEFINE N == { k \in Nat : k <= Len(s) => Balanced(push, pop, FlattenSeq(SubSeq(s, 1, k))) }
<1>1. PICK U : U = Seq(D)
  OBVIOUS
<1>2. s \in Seq(U)
  BY <1>1
<1>3. 0 \in N
  <2>1. SubSeq(s, 1, 0) = << >>
    BY <1>2, SubSeqEmpty
  <2>2. FlattenSeq(SubSeq(s, 1, 0)) = << >>
    BY <2>1, FlattenEmpty
  <2>3. PICK e \in Seq(D) : e = << >>
    BY EmptySeq
  <2>4. Projected(push, e) = << >> /\ Projected(pop, e) = << >>
    <3>1. Projected(push, << >>) = << >>
      BY NothingOfNothing
    <3>2. Projected(pop, << >>) = << >>
      BY NothingOfNothing
    <3>. QED
      BY <2>3, <3>1, <3>2
  <2>5. Balanced(push, pop, e)
    BY <2>4, BalancedNothing
  <2>. QED
    BY <2>2, <2>3, <2>5
<1>4. ASSUME NEW k \in Nat, k \in N PROVE k + 1 \in N
  <2> SUFFICES ASSUME k + 1 <= Len(s) PROVE Balanced(push, pop, FlattenSeq(SubSeq(s, 1, k + 1)))
    OBVIOUS
  <2>1. Balanced(push, pop, FlattenSeq(SubSeq(s, 1, k)))
    BY <1>2, <1>4
  <2>2. PICK e \in Seq(D) : e = s[k + 1] /\ Balanced(push, pop, e)
    <3>1. k + 1 \in 1 .. Len(s) /\ s[k + 1] \in U
      BY <1>2
    <3>. QED
      BY <1>1, <3>1
  <2>3. PICK r \in Seq(Seq(D)) : r = SubSeq(s, 1, k)
    <3>1. SubSeq(s, 1, k) \in Seq(U)
      BY <1>2
    <3>. QED
      BY <1>1, <3>1
  <2>4. SubSeq(s, 1, k + 1) = Append(r, e)
    <3>1. SubSeq(s, 1, k + 1) = Append(SubSeq(s, 1, k), s[k + 1])
      BY <1>2
    <3>. QED
      BY <2>2, <2>3, <3>1
  <2>5. FlattenSeq(Append(r, e)) = FlattenSeq(r) \o e
    BY FlattenAppend
  <2>6. FlattenSeq(r) \in Seq(D)
    BY FlattenType
  <2>7. Balanced(push, pop, FlattenSeq(r) \o e)
    BY <2>1, <2>2, <2>3, <2>6, BalancedConcat
  <2>. QED
    BY <2>4, <2>5, <2>7
<1>5. Len(s) \in N
  <2>1. Len(s) \in Nat
    BY <1>2
  <2> HIDE DEF N
  <2>2. Nat \subseteq N
    BY <1>3, <1>4, InductiveSet
  <2>. QED
    BY <2>1, <2>2
<1>6. SubSeq(s, 1, Len(s)) = s
  BY <1>2
<1>7. Balanced(push, pop, FlattenSeq(SubSeq(s, 1, Len(s))))
  BY <1>5
<1>. QED
  BY <1>6, <1>7, Zenon

-----------------------------------------------------------------------------
(* Parties that send and receive in two threads: sp[p] is the place in p's   *)
(* program of the thread that sends, rp[p] that of the one that receives.    *)

\* What is on its way from q to p fits what q is to send and p to receive.
Paired(T, snd, rcv, prog, sp, rp, ch, p, q) ==
  OnItsWay(ch[q][p], T) /\ Matches(ch[q][p], snd[p], prog[q], sp[q], rcv[q], prog[p], rp[p])

Meeting(Q, D, T, snd, rcv, prog, sp, rp, ch) ==
  /\ Traders(Q, D, T, snd, rcv, prog)
  /\ \A p \in Q : sp[p] \in 1 .. Len(prog[p]) + 1 /\ rp[p] \in 1 .. Len(prog[p]) + 1
  /\ \A p, q \in Q : Paired(T, snd, rcv, prog, sp, rp, ch, p, q)

\* What is known of two parties.
LEMMA OfMeeting ==
  ASSUME NEW Q, NEW D, NEW T, NEW snd, NEW rcv, NEW prog, NEW sp, NEW rp, NEW ch,
         Meeting(Q, D, T, snd, rcv, prog, sp, rp, ch), NEW p \in Q, NEW q \in Q
  PROVE  /\ Maps(snd[p], D, T) /\ Maps(rcv[q], D, T)
         /\ prog[p] \in Seq(D) /\ prog[q] \in Seq(D)
         /\ sp[q] \in 1 .. Len(prog[q]) + 1 /\ rp[p] \in 1 .. Len(prog[p]) + 1
         /\ OnItsWay(ch[q][p], T)
         /\ Matches(ch[q][p], snd[p], prog[q], sp[q], rcv[q], prog[p], rp[p])
         /\ Ahead(snd[p], prog[q], sp[q]) \in Seq(T)
<1>1. /\ Maps(snd[p], D, T) /\ Maps(rcv[q], D, T)
      /\ prog[p] \in Seq(D) /\ prog[q] \in Seq(D)
  BY DEF Meeting, Traders
<1>2. sp[q] \in 1 .. Len(prog[q]) + 1 /\ rp[p] \in 1 .. Len(prog[p]) + 1
  BY DEF Meeting
<1>3. OnItsWay(ch[q][p], T) /\ Matches(ch[q][p], snd[p], prog[q], sp[q], rcv[q], prog[p], rp[p])
  BY DEF Meeting, Paired
<1>4. Ahead(snd[p], prog[q], sp[q]) \in Seq(T)
  <2>1. \A s \in Seq(D) : \A n \in 1 .. Len(s) + 1 : Ahead(snd[p], s, n) \in Seq(T)
    BY <1>1, AheadInTurn
  <2>. QED
    BY <1>1, <1>2, <2>1
<1>. QED
  BY <1>1, <1>2, <1>3, <1>4

\* What programs that match begin with.
LEMMA MeetingAtFirst ==
  ASSUME NEW Q, NEW D, NEW T, NEW snd, NEW rcv, NEW prog, Traders(Q, D, T, snd, rcv, prog),
         \A p, q \in Q : Projected(snd[p], prog[q]) = Projected(rcv[q], prog[p]),
         NEW sp, NEW rp, NEW ch, \A p \in Q : sp[p] = 1 /\ rp[p] = 1,
         \A p, q \in Q : ch[q][p] = << >>
  PROVE  Meeting(Q, D, T, snd, rcv, prog, sp, rp, ch)
<1>1. \A p \in Q : sp[p] \in 1 .. Len(prog[p]) + 1 /\ rp[p] \in 1 .. Len(prog[p]) + 1
  <2>1. \A p \in Q : 1 \in 1 .. Len(prog[p]) + 1
    BY DEF Traders
  <2>. QED
    BY <2>1
<1>2. ASSUME NEW p \in Q, NEW q \in Q PROVE Paired(T, snd, rcv, prog, sp, rp, ch, p, q)
  <2>1. PICK x, y \in Seq(D) : x = prog[q] /\ y = prog[p]
    BY DEF Traders
  <2>2. PICK f, g : f = snd[p] /\ g = rcv[q]
    OBVIOUS
  <2>3. Projected(f, x) = Projected(g, y) /\ Maps(f, D, T)
    BY <2>1, <2>2 DEF Traders
  <2>4. PICK u \in Seq(T) : u = Projected(f, x)
    BY <2>3, ProjectedType
  <2>5. Ahead(f, x, 1) = u /\ Ahead(g, y, 1) = u
    BY <2>3, <2>4, AheadAll
  <2>6. OnItsWay(<< >>, T) /\ TagsOf(<< >>) = << >> /\ << >> \o u = u
    BY NoTags, TagsTogether
  <2>7. Matches(<< >>, f, x, 1, g, y, 1)
    BY <2>5, <2>6 DEF Matches
  <2>. QED
    BY <2>1, <2>2, <2>6, <2>7 DEF Paired
<1>. QED
  BY <1>1, <1>2 DEF Meeting

\* A thread goes on; all that an instruction sends is sent, all it receives taken.
MovesOn(Q, prog, p, pos, pos2) ==
  pos[p] <= Len(prog[p]) /\ pos2[p] = pos[p] + 1 /\ \A q \in Q : q # p => pos2[q] = pos[q]

SendsAll(Q, snd, i, p, m, ch, ch2) ==
  /\ \A r \in Q : IsSeq(m[r]) /\ TagsOf(m[r]) = snd[r][i] /\ ch2[p][r] = ch[p][r] \o m[r]
  /\ \A q, r \in Q : q # p => ch2[q][r] = ch[q][r]

TakesAll(Q, rcv, i, p, ch, ch2) ==
  /\ \A q \in Q : /\ Len(rcv[q][i]) <= Len(ch[q][p])
                  /\ ch2[q][p] = SubSeq(ch[q][p], Len(rcv[q][i]) + 1, Len(ch[q][p]))
  /\ \A q, r \in Q : r # p => ch2[q][r] = ch[q][r]

\* A party's sending thread goes on.
LEMMA SendingMeets ==
  ASSUME NEW Q, NEW D, NEW T, NEW snd, NEW rcv, NEW prog, NEW sp, NEW rp, NEW ch,
         Meeting(Q, D, T, snd, rcv, prog, sp, rp, ch),
         NEW p \in Q, NEW sp2, MovesOn(Q, prog, p, sp, sp2),
         NEW i, i = prog[p][sp[p]], NEW m, NEW ch2, SendsAll(Q, snd, i, p, m, ch, ch2)
  PROVE  Meeting(Q, D, T, snd, rcv, prog, sp2, rp, ch2)
<1>0. sp[p] <= Len(prog[p]) /\ sp2[p] = sp[p] + 1 /\ \A q \in Q : q # p => sp2[q] = sp[q]
  BY DEF MovesOn
<1>1. PICK x \in Seq(D) : x = prog[p]
  BY OfMeeting
<1>2. PICK n \in 1 .. Len(x) : n = sp[p]
  BY <1>0, <1>1, OfMeeting
<1>3. ASSUME NEW q \in Q PROVE sp2[q] \in 1 .. Len(prog[q]) + 1 /\ rp[q] \in 1 .. Len(prog[q]) + 1
  <2>1. sp[q] \in 1 .. Len(prog[q]) + 1 /\ rp[q] \in 1 .. Len(prog[q]) + 1
    BY DEF Meeting
  <2>2. n + 1 \in 1 .. Len(x) + 1
    OBVIOUS
  <2>. QED
    BY <1>0, <1>1, <1>2, <2>1, <2>2
<1>4. ASSUME NEW r \in Q PROVE Paired(T, snd, rcv, prog, sp2, rp, ch2, r, p)
  <2>1. PICK f, g, y, j, c : f = snd[r] /\ g = rcv[p] /\ y = prog[r] /\ j = rp[r] /\ c = ch[p][r]
    OBVIOUS
  <2>2. Maps(f, D, T) /\ OnItsWay(c, T) /\ Matches(c, f, x, n, g, y, j)
    BY <1>1, <1>2, <2>1, OfMeeting
  <2>3. PICK k : k = m[r] /\ IsSeq(k) /\ TagsOf(k) = f[x[n]] /\ ch2[p][r] = c \o k
    BY <1>1, <1>2, <2>1 DEF SendsAll
  <2>4. OnItsWay(c \o k, T) /\ Matches(c \o k, f, x, n + 1, g, y, j)
    BY <2>2, <2>3, SenderSends
  <2>5. sp2[p] = n + 1
    BY <1>0, <1>2
  <2>. QED
    BY <1>1, <2>1, <2>3, <2>4, <2>5 DEF Paired
<1>5. ASSUME NEW r \in Q, NEW q \in Q, q # p PROVE Paired(T, snd, rcv, prog, sp2, rp, ch2, r, q)
  <2>1. Paired(T, snd, rcv, prog, sp, rp, ch, r, q)
    BY DEF Meeting
  <2>2. sp2[q] = sp[q] /\ ch2[q][r] = ch[q][r]
    BY <1>0, <1>5 DEF SendsAll
  <2>. QED
    BY <2>1, <2>2 DEF Paired
<1>6. \A r, q \in Q : Paired(T, snd, rcv, prog, sp2, rp, ch2, r, q)
  BY <1>4, <1>5
<1>7. Traders(Q, D, T, snd, rcv, prog)
  BY DEF Meeting
<1>. QED
  BY <1>3, <1>6, <1>7 DEF Meeting

\* A party's receiving thread goes on.
LEMMA ReceivingMeets ==
  ASSUME NEW Q, NEW D, NEW T, NEW snd, NEW rcv, NEW prog, NEW sp, NEW rp, NEW ch,
         Meeting(Q, D, T, snd, rcv, prog, sp, rp, ch),
         NEW p \in Q, NEW rp2, MovesOn(Q, prog, p, rp, rp2),
         NEW i, i = prog[p][rp[p]], NEW ch2, TakesAll(Q, rcv, i, p, ch, ch2)
  PROVE  Meeting(Q, D, T, snd, rcv, prog, sp, rp2, ch2)
<1>0. rp[p] <= Len(prog[p]) /\ rp2[p] = rp[p] + 1 /\ \A q \in Q : q # p => rp2[q] = rp[q]
  BY DEF MovesOn
<1>1. PICK y \in Seq(D) : y = prog[p]
  BY OfMeeting
<1>2. PICK n \in 1 .. Len(y) : n = rp[p]
  BY <1>0, <1>1, OfMeeting
<1>3. ASSUME NEW q \in Q PROVE sp[q] \in 1 .. Len(prog[q]) + 1 /\ rp2[q] \in 1 .. Len(prog[q]) + 1
  <2>1. sp[q] \in 1 .. Len(prog[q]) + 1 /\ rp[q] \in 1 .. Len(prog[q]) + 1
    BY DEF Meeting
  <2>2. n + 1 \in 1 .. Len(y) + 1
    OBVIOUS
  <2>. QED
    BY <1>0, <1>1, <1>2, <2>1, <2>2
<1>4. ASSUME NEW q \in Q PROVE Paired(T, snd, rcv, prog, sp, rp2, ch2, p, q)
  <2>1. PICK f, g, x, j, c : f = snd[p] /\ g = rcv[q] /\ x = prog[q] /\ j = sp[q] /\ c = ch[q][p]
    OBVIOUS
  <2>2. /\ Maps(g, D, T) /\ OnItsWay(c, T) /\ Matches(c, f, x, j, g, y, n)
        /\ Ahead(f, x, j) \in Seq(T)
    BY <1>1, <1>2, <2>1, OfMeeting
  <2>3. PICK k : k = Len(g[y[n]]) /\ k <= Len(c) /\ ch2[q][p] = SubSeq(c, k + 1, Len(c))
    BY <1>1, <1>2, <2>1 DEF TakesAll
  <2>4. PICK d : d = SubSeq(c, k + 1, Len(c))
    OBVIOUS
  <2>5. OnItsWay(d, T) /\ Matches(d, f, x, j, g, y, n + 1)
    <3>1. Maps(g, D, T) /\ OnItsWay(c, T) /\ Ahead(f, x, j) \in Seq(T) /\ Matches(c, f, x, j, g, y, n)
      BY <2>2
    <3>2. k = Len(g[y[n]]) /\ k <= Len(c)
      BY <2>3
    <3>3. y \in Seq(D) /\ n \in 1 .. Len(y)
      OBVIOUS
    <3>4. OnItsWay(SubSeq(c, k + 1, Len(c)), T) /\ Matches(SubSeq(c, k + 1, Len(c)), f, x, j, g, y, n + 1)
      BY <3>1, <3>2, <3>3, ReceiverTakes
    <3>. QED
      BY <2>4, <3>4
  <2>6. ch2[q][p] = d /\ rp2[p] = n + 1
    BY <1>0, <1>2, <2>3, <2>4
  <2>. QED
    BY <1>1, <2>1, <2>5, <2>6 DEF Paired
<1>5. ASSUME NEW r \in Q, NEW q \in Q, r # p PROVE Paired(T, snd, rcv, prog, sp, rp2, ch2, r, q)
  <2>1. Paired(T, snd, rcv, prog, sp, rp, ch, r, q)
    BY DEF Meeting
  <2>2. rp2[r] = rp[r] /\ ch2[q][r] = ch[q][r]
    BY <1>0, <1>5 DEF TakesAll
  <2>. QED
    BY <2>1, <2>2 DEF Paired
<1>6. \A r, q \in Q : Paired(T, snd, rcv, prog, sp, rp2, ch2, r, q)
  BY <1>4, <1>5
<1>7. Traders(Q, D, T, snd, rcv, prog)
  BY DEF Meeting
<1>. QED
  BY <1>3, <1>6, <1>7 DEF Meeting

\* One message is sent, or taken.
SendsOne(Q, p, r, v, ch, ch2) ==
  ch2[p][r] = Append(ch[p][r], v) /\ \A a, b \in Q : ~(a = p /\ b = r) => ch2[a][b] = ch[a][b]

TakesOne(Q, p, r, ch, ch2) ==
  ch[r][p] # << >> /\ ch2[r][p] = Tail(ch[r][p]) /\ \A a, b \in Q : ~(a = r /\ b = p) => ch2[a][b] = ch[a][b]

\* Who is at the end has nothing on its way to it.
LEMMA NothingMeets ==
  ASSUME NEW Q, NEW D, NEW T, NEW snd, NEW rcv, NEW prog, NEW sp, NEW rp, NEW ch,
         Meeting(Q, D, T, snd, rcv, prog, sp, rp, ch),
         NEW p \in Q, rp[p] = Len(prog[p]) + 1, NEW q \in Q
  PROVE  ch[q][p] = << >>
<1>1. PICK y \in Seq(D) : y = prog[p]
  BY OfMeeting
<1>2. PICK x \in Seq(D) : x = prog[q]
  BY OfMeeting
<1>3. PICK f, g, c, j : f = snd[p] /\ g = rcv[q] /\ c = ch[q][p] /\ j = sp[q]
  OBVIOUS
<1>4. /\ Maps(g, D, T) /\ OnItsWay(c, T) /\ Matches(c, f, x, j, g, y, Len(y) + 1)
      /\ Ahead(f, x, j) \in Seq(T)
  BY <1>1, <1>2, <1>3, OfMeeting
<1>5. c = << >>
  BY <1>4, NothingExpected
<1>. QED
  BY <1>3, <1>5

-----------------------------------------------------------------------------
(* What the parties are told.                                                *)

\* What a party is told: besides its program, a block of the preparation at a
\* time.  What goes to P1 or comes from P1 says so.
WithP1 == {"FDMultPartiesSendP1", "MultPartiesSendP1", "MultPartiesReceive"}
WithAny ==
  {"FDMultP1Receives", "InputPartiesSendOwners", "InputOwnersReceive", "InputOwnersSend",
   "InputPartiesReceive", "MultP1Receives", "MultP1SendsParties", "OutputPartiesSendOwners",
   "OutputOwnersReceive"}

Told(op, g, q) == [op |-> op, gate |-> g, peer |-> q]
PrepOps == {"PrepPartiesSend", "PrepPartiesReceive"}

Instruction ==
  [op : PrepOps, block : 1 .. Len(Blocks)]
  \cup [op : {"SetInputShares"}, gate : {None}, peer : {None}]
  \cup [op : {"FDMultP1Queues"}, gate : GateIds, peer : {None}]
  \cup [op : WithP1, gate : GateIds, peer : {0}]
  \cup [op : WithAny, gate : GateIds, peer : Parties]

Kinds == {"last", "mask", "input", "product", "opened", "output"}

Tag == ({"prep"} \X (1 .. Len(Blocks)) \X (1 .. 2)) \cup (Kinds \X GateIds)

\* What a message sent or received by an instruction is for.
KindOf(op) ==
  IF op \in {"FDMultPartiesSendP1", "FDMultP1Receives", "FDMultP1Queues"} THEN "last"
  ELSE IF op \in {"InputPartiesSendOwners", "InputOwnersReceive"} THEN "mask"
  ELSE IF op \in {"InputOwnersSend", "InputPartiesReceive"} THEN "input"
  ELSE IF op \in {"MultPartiesSendP1", "MultP1Receives"} THEN "product"
  ELSE IF op \in {"MultP1SendsParties", "MultPartiesReceive"} THEN "opened"
  ELSE "output"

PrepTags(b) ==
  IF Blocks[b] = "random" THEN << << "prep", b, 1 >> >>
  ELSE << << "prep", b, 1 >>, << "prep", b, 2 >> >>

\* What instructions for r that are among ops do, in tags.
Reads(ops, r) ==
  [i \in Instruction |->
     IF i.op \in PrepOps THEN (IF i.op \in ops THEN PrepTags(i.block) ELSE << >>)
     ELSE IF i.op \in ops /\ i.op # "SetInputShares" /\ i.peer = r THEN << << KindOf(i.op), i.gate >> >>
     ELSE << >>]

\* What there is in a gate's instruction.
LEMMA GateInstructions ==
  ASSUME NEW g \in GateIds
  PROVE  /\ Told("FDMultP1Queues", g, None) \in Instruction
         /\ \A op \in WithP1 : Told(op, g, 0) \in Instruction
         /\ \A op \in WithAny, q \in Parties : Told(op, g, q) \in Instruction
<1>1. Told("FDMultP1Queues", g, None) \in Instruction
  BY DEF Told, Instruction, PrepOps
<1>2. ASSUME NEW op \in WithP1 PROVE Told(op, g, 0) \in Instruction
  BY DEF Told, Instruction, PrepOps
<1>3. ASSUME NEW op \in WithAny, NEW q \in Parties PROVE Told(op, g, q) \in Instruction
  BY DEF Told, Instruction, PrepOps
<1>. QED
  BY <1>1, <1>2, <1>3

\* Every instruction is of one of these forms.
LEMMA InstructionForms ==
  ASSUME NEW i \in Instruction
  PROVE  \/ i.op \in PrepOps /\ i.block \in 1 .. Len(Blocks)
         \/ i.op = "SetInputShares"
         \/ i.op = "FDMultP1Queues" /\ i.gate \in GateIds /\ i.peer = None
         \/ i.op \in WithP1 /\ i.gate \in GateIds /\ i.peer = 0
         \/ i.op \in WithAny /\ i.gate \in GateIds /\ i.peer \in Parties
BY DEF Instruction, PrepOps

\* The tags of a block are tags.
LEMMA PrepTagsType ==
  ASSUME NEW b \in 1 .. Len(Blocks)
  PROVE  PrepTags(b) \in Seq(Tag)
<1>1. PICK T, m1, m2 : T = Tag /\ m1 = << "prep", b, 1 >> /\ m2 = << "prep", b, 2 >>
  OBVIOUS
<1>2. m1 \in T /\ m2 \in T
  BY <1>1 DEF Tag
<1>3. << m1 >> \in Seq(T) /\ << m1, m2 >> \in Seq(T)
  BY <1>2
<1>. QED
  BY <1>1, <1>3 DEF PrepTags

\* Reading an instruction gives tags.
LEMMA Reading ==
  ASSUME NEW ops, NEW r
  PROVE  Maps(Reads(ops, r), Instruction, Tag)
<1>0. PICK T : T = Tag
  OBVIOUS
<1>1. << >> \in Seq(T) /\ \A t \in T : << t >> \in Seq(T)
  OBVIOUS
<1>2. ASSUME NEW i \in Instruction PROVE Reads(ops, r)[i] \in Seq(T)
  <2>1. CASE i.op \in PrepOps
    <3>1. PrepTags(i.block) \in Seq(T)
      <4>1. i.block \in 1 .. Len(Blocks)
        BY <2>1, InstructionForms DEF WithP1, WithAny, PrepOps
      <4>. QED
        BY <1>0, <4>1, PrepTagsType
    <3>. QED
      BY <1>1, <2>1, <3>1 DEF Reads, PrepOps
  <2>2. CASE i.op \notin PrepOps /\ i.op # "SetInputShares"
    <3>1. i.gate \in GateIds
      BY <2>2, InstructionForms
    <3>2. KindOf(i.op) \in Kinds
      BY DEF KindOf, Kinds
    <3>3. << KindOf(i.op), i.gate >> \in T
      BY <1>0, <3>1, <3>2 DEF Tag
    <3>4. << << KindOf(i.op), i.gate >> >> \in Seq(T)
      BY <1>1, <3>3
    <3>. QED
      BY <1>1, <2>2, <3>4 DEF Reads, PrepOps
  <2>3. CASE i.op = "SetInputShares"
    BY <1>1, <2>3 DEF Reads, PrepOps
  <2>. QED
    BY <2>1, <2>2, <2>3
<1>3. Reads(ops, r) \in [Instruction -> Seq(T)]
  BY <1>2 DEF Reads, PrepOps
<1>. QED
  BY <1>0, <1>3 DEF Maps

\* There is more than the first t + 1 parties, and at least them.
LEMMA PartyNumbers ==
  /\ Threshold \in Nat /\ NParties \in Nat /\ Threshold + 1 <= NParties
  /\ 0 \in Parties /\ Threshold \in Parties
  /\ \A q : q \in Parties <=> q \in 0 .. NParties - 1
BY ThresholdAssumption, NPartiesAssumption DEF Parties

\* One instruction alone.
LEMMA ReadsAlone ==
  ASSUME NEW ops, NEW r, NEW i \in Instruction
  PROVE  << i >> \in Seq(Instruction) /\ Projected(Reads(ops, r), << i >>) = Reads(ops, r)[i]
<1>1. PICK f : f = Reads(ops, r) /\ Maps(f, Instruction, Tag)
  BY Reading
<1>2. PICK I : I = Instruction
  OBVIOUS
<1>3. PICK s : s = << i >> /\ s \in Seq(I) /\ Len(s) = 1 /\ s[1] = i
  <2>1. i \in I
    BY <1>2
  <2>2. << i >> \in Seq(I) /\ Len(<< i >>) = 1 /\ << i >>[1] = i
    BY <2>1, TagAlone
  <2>. QED
    BY <2>2
<1>4. PICK U : U = Seq(Tag)
  OBVIOUS
<1>5. PICK t \in U : t = f[i]
  BY <1>1, <1>4 DEF Maps
<1>6. \A a \in Seq(Instruction), k \in Nat, u \in Seq(Tag) : OnlyAt(f, a, k, u) => Projected(f, a) = u
  BY <1>1, ProjectedFew
<1>7. OnlyAt(f, s, 1, t)
  BY <1>3, <1>5 DEF OnlyAt
<1>8. Projected(f, s) = t
  BY <1>2, <1>3, <1>4, <1>6, <1>7
<1>. QED
  BY <1>1, <1>2, <1>3, <1>5, <1>8

\* One instruction for each of n parties in a row, from lo on.
InARow(s, op, g, lo, n) == s = [i \in 1 .. n |-> Told(op, g, lo + i - 1)]

\* What it says to r, who is among Q, or not.
SaysTo(ops, r, op, g, s, Q) ==
  /\ s \in Seq(Instruction)
  /\ op \in ops /\ r \in Q => Projected(Reads(ops, r), s) = << << KindOf(op), g >> >>
  /\ ~(op \in ops /\ r \in Q) => Projected(Reads(ops, r), s) = << >>

\* So it does, when r is one of the row.
LEMMA ReadsInTurn ==
  ASSUME NEW ops, NEW r, NEW op \in WithAny, NEW g \in GateIds, NEW lo \in Nat, NEW n \in Nat,
         lo + n <= NParties, NEW s, InARow(s, op, g, lo, n)
  PROVE  SaysTo(ops, r, op, g, s, lo .. lo + n - 1)
<1>1. PICK f : f = Reads(ops, r) /\ Maps(f, Instruction, Tag)
  BY Reading
<1>2. PICK I, t : I = Instruction /\ t = << << KindOf(op), g >> >>
  OBVIOUS
<1>3. ASSUME NEW i \in 1 .. n
      PROVE  /\ Told(op, g, lo + i - 1) \in I
             /\ f[Told(op, g, lo + i - 1)] = IF op \in ops /\ lo + i - 1 = r THEN t ELSE << >>
  <2>1. PICK q \in Parties : q = lo + i - 1
    BY PartyNumbers
  <2>2. Told(op, g, q) \in Instruction
    BY GateInstructions
  <2>3. op \notin PrepOps /\ op # "SetInputShares"
    BY DEF WithAny, PrepOps
  <2>4. Reads(ops, r)[Told(op, g, q)] = IF op \in ops /\ q = r THEN << << KindOf(op), g >> >> ELSE << >>
    BY <2>2, <2>3 DEF Reads, PrepOps, Told
  <2>5. f[Told(op, g, q)] = IF op \in ops /\ q = r THEN t ELSE << >>
    BY <1>1, <1>2, <2>4
  <2>. QED
    BY <1>2, <2>1, <2>2, <2>5
<1> DEFINE G(i) == Told(op, g, lo + i - 1)
<1>4. \A i \in 1 .. n : G(i) \in I /\ f[G(i)] = IF op \in ops /\ lo + i - 1 = r THEN t ELSE << >>
  BY <1>3
<1>5. s = [i \in 1 .. n |-> G(i)]
  BY DEF InARow
<1> HIDE DEF G
<1>6. s \in Seq(I) /\ Len(s) = n /\ \A i \in 1 .. n : s[i] = G(i)
  <2>1. \A i \in 1 .. n : G(i) \in I
    BY <1>4
  <2>2. s \in [1 .. n -> I]
    BY <1>5, <2>1
  <2>3. s \in Seq(I) /\ Len(s) = n
    BY <2>2
  <2>. QED
    BY <1>5, <2>3
<1>7. \A i \in 1 .. Len(s) : f[s[i]] = IF op \in ops /\ lo + i - 1 = r THEN t ELSE << >>
  BY <1>4, <1>6
<1>8. ASSUME op \in ops, r \in lo .. lo + n - 1 PROVE Projected(f, s) = t
  <2>1. PICK k \in 1 .. n : k = r - lo + 1 /\ lo + k - 1 = r /\ \A i \in 1 .. n : i # k => lo + i - 1 # r
    BY <1>8
  <2>2. OnlyAt(f, s, k, t)
    BY <1>6, <1>7, <1>8, <2>1 DEF OnlyAt
  <2>3. \A a \in Seq(Instruction), h \in Nat, u \in Seq(Tag) : OnlyAt(f, a, h, u) => Projected(f, a) = u
    BY <1>1, ProjectedFew
  <2>4. t \in Seq(Tag)
    <3>1. PICK T, m : T = Tag /\ m = << KindOf(op), g >>
      OBVIOUS
    <3>2. m \in T
      BY <3>1 DEF Tag, KindOf, Kinds
    <3>3. << m >> \in Seq(T)
      BY <3>2
    <3>. QED
      BY <1>2, <3>1, <3>3
  <2>5. s \in Seq(Instruction) /\ k \in Nat
    BY <1>2, <1>6, <2>1
  <2>. QED
    BY <2>2, <2>3, <2>4, <2>5
<1>9. ASSUME ~(op \in ops /\ r \in lo .. lo + n - 1) PROVE Projected(f, s) = << >>
  <2>1. \A i \in 1 .. n : ~(op \in ops /\ lo + i - 1 = r)
    BY <1>9
  <2>2. \A i \in 1 .. Len(s) : f[s[i]] = << >>
    BY <1>6, <1>7, <2>1
  <2>3. \A a \in Seq(Instruction) : (\A i \in 1 .. Len(a) : f[a[i]] = << >>) => Projected(f, a) = << >>
    BY <1>1, ProjectedNothing
  <2>. QED
    BY <1>2, <1>6, <2>2, <2>3
<1>. QED
  BY <1>1, <1>2, <1>6, <1>8, <1>9 DEF SaysTo

-----------------------------------------------------------------------------
(* Rows: what a program says for a gate.                                     *)

P1Row(op) == [g \in GateIds |-> << Told(op, g, 0) >>]
FirstRow(op) == [g \in GateIds |-> WithFirst(op, g)]
LastRow == [g \in GateIds |-> WithLast("FDMultP1Receives", g) \o Single("FDMultP1Queues", g, None)]
BothRow == [g \in GateIds |-> WithFirst("InputOwnersReceive", g) \o WithFirst("InputOwnersSend", g)]

\* Those that have an owner, and what it is told for them.
Owned == { g \in GateIds : gates[g].owner \in Parties }
OwnerRow(op) == [g \in Owned |-> << Told(op, g, gates[g].owner) >>]

\* One tag for a gate, or nothing.
Marks(k) == [g \in GateIds |-> << << k, g >> >>]
NoMarks == [g \in GateIds |-> << >>]
OwnMarks(k, r) == [g \in Owned |-> IF gates[g].owner = r THEN << << k, g >> >> ELSE << >>]

\* Rows are instructions, marks are tags.
LEMMA RowTypes ==
  /\ \A op \in WithP1 : Maps(P1Row(op), GateIds, Instruction)
  /\ \A op \in WithAny : Maps(OwnerRow(op), Owned, Instruction)
  /\ \A k \in Kinds : Maps(Marks(k), GateIds, Tag) /\ \A r : Maps(OwnMarks(k, r), Owned, Tag)
  /\ Maps(NoMarks, GateIds, Tag)
<1>1. PICK I : I = Instruction /\ \A e \in I : << e >> \in Seq(I)
  <2>1. PICK I : I = Instruction
    OBVIOUS
  <2>. QED
    BY <2>1
<1>2. PICK T : T = Tag /\ << >> \in Seq(T) /\ \A e \in T : << e >> \in Seq(T)
  <2>1. PICK T : T = Tag
    OBVIOUS
  <2>. QED
    BY <2>1
<1>3. ASSUME NEW op \in WithP1 PROVE P1Row(op) \in [GateIds -> Seq(I)]
  <2>1. \A g \in GateIds : << Told(op, g, 0) >> \in Seq(I)
    BY <1>1, GateInstructions
  <2>. QED
    BY <2>1 DEF P1Row
<1>5. ASSUME NEW op \in WithAny PROVE OwnerRow(op) \in [Owned -> Seq(I)]
  <2>1. \A g \in Owned : << Told(op, g, gates[g].owner) >> \in Seq(I)
    BY <1>1, GateInstructions DEF Owned
  <2>. QED
    BY <2>1 DEF OwnerRow
<1>6. ASSUME NEW k \in Kinds PROVE Marks(k) \in [GateIds -> Seq(T)] /\ \A r : OwnMarks(k, r) \in [Owned -> Seq(T)]
  <2>1. \A g \in GateIds : << k, g >> \in T
    BY <1>2 DEF Tag
  <2>2. \A g \in GateIds : << << k, g >> >> \in Seq(T)
    BY <1>2, <2>1
  <2>3. Owned \subseteq GateIds
    BY DEF Owned
  <2>4. Marks(k) \in [GateIds -> Seq(T)]
    BY <2>2 DEF Marks
  <2>5. ASSUME NEW r PROVE OwnMarks(k, r) \in [Owned -> Seq(T)]
    BY <1>2, <2>2, <2>3 DEF OwnMarks
  <2>. QED
    BY <2>4, <2>5
<1>7. NoMarks \in [GateIds -> Seq(T)]
  BY <1>2 DEF NoMarks
<1>. QED
  BY <1>1, <1>2, <1>3, <1>5, <1>6, <1>7 DEF Maps

\* What one row for the first parties says to r.
LEMMA ReadsFirst ==
  ASSUME NEW ops, NEW r, NEW op \in WithAny, NEW g \in GateIds
  PROVE  SaysTo(ops, r, op, g, WithFirst(op, g), First)
<1>1. PICK n \in Nat : n = Threshold + 1
  BY PartyNumbers
<1>2. 0 + n <= NParties /\ 0 .. 0 + n - 1 = First
  BY <1>1, PartyNumbers DEF First
<1>3. \A i \in 1 .. n : i - 1 = 0 + i - 1
  OBVIOUS
<1>4. WithFirst(op, g) = [i \in 1 .. n |-> Told(op, g, 0 + i - 1)]
  BY <1>1, <1>3 DEF WithFirst, Told
<1>5. 0 \in Nat /\ InARow(WithFirst(op, g), op, g, 0, n)
  BY <1>4 DEF InARow
<1>6. SaysTo(ops, r, op, g, WithFirst(op, g), 0 .. 0 + n - 1)
  BY <1>2, <1>5, ReadsInTurn
<1>. QED
  BY <1>2, <1>6

\* And one for the others.
LEMMA ReadsLast ==
  ASSUME NEW ops, NEW r, NEW op \in WithAny, NEW g \in GateIds
  PROVE  SaysTo(ops, r, op, g, WithLast(op, g), Parties \ First)
<1>1. PICK n \in Nat : n = NParties - Threshold - 1
  BY PartyNumbers
<1>2. PICK lo \in Nat : lo = Threshold + 1
  BY PartyNumbers
<1>3. lo + n <= NParties
  BY <1>1, <1>2, PartyNumbers
<1>4. lo .. lo + n - 1 = Parties \ First
  BY <1>1, <1>2, PartyNumbers DEF First, Parties
<1>5. \A i \in 1 .. n : Threshold + i = lo + i - 1
  BY <1>2, PartyNumbers
<1>6. WithLast(op, g) = [i \in 1 .. n |-> Told(op, g, lo + i - 1)]
  BY <1>1, <1>5 DEF WithLast, Told
<1>7. InARow(WithLast(op, g), op, g, lo, n)
  BY <1>6 DEF InARow
<1>8. SaysTo(ops, r, op, g, WithLast(op, g), lo .. lo + n - 1)
  BY <1>3, <1>7, ReadsInTurn
<1>. QED
  BY <1>4, <1>8

-----------------------------------------------------------------------------
(* What rows say, for the gates of a sequence.                               *)

\* What passes for the gates of x by an instruction op to or from those in Q.
Flow(ops, r, op, Q, x) == IF op \in ops /\ r \in Q THEN Projected(Marks(KindOf(op)), x) ELSE << >>

\* Nothing passes without a mark.
LEMMA NoFlow ==
  ASSUME NEW x \in Seq(GateIds)
  PROVE  Projected(NoMarks, x) = << >>
<1>1. Maps(NoMarks, GateIds, Tag)
  BY RowTypes
<1>2. \A s \in Seq(GateIds) : (\A i \in 1 .. Len(s) : NoMarks[s[i]] = << >>) => Projected(NoMarks, s) = << >>
  BY <1>1, ProjectedNothing
<1>3. \A i \in 1 .. Len(x) : NoMarks[x[i]] = << >>
  BY DEF NoMarks
<1>. QED
  BY <1>2, <1>3

\* What rows say that one by one say what is marked, or nothing.
Marking(ops, r, op, Q, R) ==
  \A g \in GateIds :
    /\ op \in ops /\ r \in Q => Projected(Reads(ops, r), R[g]) = << << KindOf(op), g >> >>
    /\ ~(op \in ops /\ r \in Q) => Projected(Reads(ops, r), R[g]) = << >>

\* What they say of a sequence of gates.
LEMMA RowsFlow ==
  ASSUME NEW ops, NEW r, NEW op, NEW Q, NEW R, Maps(R, GateIds, Instruction), Marking(ops, r, op, Q, R),
         NEW x \in Seq(GateIds)
  PROVE  /\ Projected(R, x) \in Seq(Instruction)
         /\ Projected(Reads(ops, r), Projected(R, x)) = Flow(ops, r, op, Q, x)
<1>1. PICK f : f = Reads(ops, r) /\ Maps(f, Instruction, Tag)
  BY Reading
<1>2. PICK M : M = Marks(KindOf(op)) /\ Maps(M, GateIds, Tag)
  <2>1. KindOf(op) \in Kinds
    BY DEF KindOf, Kinds
  <2>. QED
    BY <2>1, RowTypes
<1>3. Projected(R, x) \in Seq(Instruction)
  BY ProjectedType
<1>4. CASE op \in ops /\ r \in Q
  <2>1. AtOnce(M, f, R, GateIds)
    BY <1>1, <1>2, <1>4 DEF AtOnce, Marking, Marks
  <2>2. Projected(f, Projected(R, x)) = Projected(M, x)
    BY <1>1, <1>2, <2>1, ProjectedTwice
  <2>. QED
    BY <1>1, <1>2, <1>3, <1>4, <2>2 DEF Flow
<1>5. CASE ~(op \in ops /\ r \in Q)
  <2>0. PICK N : N = NoMarks /\ Maps(N, GateIds, Tag)
    BY RowTypes
  <2>1. AtOnce(N, f, R, GateIds)
    BY <1>1, <2>0, <1>5 DEF AtOnce, Marking, NoMarks
  <2>2. Projected(f, Projected(R, x)) = Projected(N, x)
    BY <1>1, <2>0, <2>1, ProjectedTwice
  <2>3. Projected(N, x) = << >>
    BY <2>0, NoFlow
  <2>. QED
    BY <1>1, <1>3, <1>5, <2>2, <2>3 DEF Flow
<1>. QED
  BY <1>4, <1>5

\* To P1 and from P1.
LEMMA P1RowFlows ==
  ASSUME NEW ops, NEW r, NEW op \in WithP1, NEW x \in Seq(GateIds)
  PROVE  /\ Projected(P1Row(op), x) \in Seq(Instruction)
         /\ Projected(Reads(ops, r), Projected(P1Row(op), x)) = Flow(ops, r, op, {0}, x)
<1>1. Maps(P1Row(op), GateIds, Instruction)
  BY RowTypes
<1>2. op \notin PrepOps /\ op # "SetInputShares"
  BY DEF WithP1, PrepOps
<1>3. ASSUME NEW g \in GateIds
      PROVE  Projected(Reads(ops, r), P1Row(op)[g]) = IF op \in ops /\ r \in {0} THEN << << KindOf(op), g >> >> ELSE << >>
  <2>1. PICK i \in Instruction : i = Told(op, g, 0)
    BY GateInstructions
  <2>2. Reads(ops, r)[i] = IF op \in ops /\ 0 = r THEN << << KindOf(op), g >> >> ELSE << >>
    BY <1>2, <2>1 DEF Reads, PrepOps, Told
  <2>3. Projected(Reads(ops, r), << i >>) = Reads(ops, r)[i]
    BY ReadsAlone
  <2>4. P1Row(op)[g] = << i >>
    BY <2>1 DEF P1Row
  <2>. QED
    BY <2>2, <2>3, <2>4
<1>4. Marking(ops, r, op, {0}, P1Row(op))
  BY <1>3 DEF Marking
<1>. QED
  BY <1>1, <1>4, RowsFlow

\* To the first parties and from them.
LEMMA FirstRowFlows ==
  ASSUME NEW ops, NEW r, NEW op \in WithAny, NEW x \in Seq(GateIds)
  PROVE  /\ Maps(FirstRow(op), GateIds, Instruction)
         /\ Projected(FirstRow(op), x) \in Seq(Instruction)
         /\ Projected(Reads(ops, r), Projected(FirstRow(op), x)) = Flow(ops, r, op, First, x)
<1>1. ASSUME NEW g \in GateIds PROVE SaysTo(ops, r, op, g, FirstRow(op)[g], First)
  <2>1. SaysTo(ops, r, op, g, WithFirst(op, g), First)
    BY ReadsFirst
  <2>. QED
    BY <2>1 DEF FirstRow
<1>2. Maps(FirstRow(op), GateIds, Instruction)
  <2>1. PICK U : U = Seq(Instruction)
    OBVIOUS
  <2>2. \A g \in GateIds : FirstRow(op)[g] \in U
    BY <1>1, <2>1 DEF SaysTo
  <2>3. FirstRow(op) \in [GateIds -> U]
    BY <2>2 DEF FirstRow
  <2>. QED
    BY <2>1, <2>3 DEF Maps
<1>3. Marking(ops, r, op, First, FirstRow(op))
  BY <1>1 DEF Marking, SaysTo
<1>. QED
  BY <1>2, <1>3, RowsFlow

\* What is said in two parts.
LEMMA ReadsConcat ==
  ASSUME NEW ops, NEW r
  PROVE  \A a, b \in Seq(Instruction) :
           Projected(Reads(ops, r), a \o b) = Projected(Reads(ops, r), a) \o Projected(Reads(ops, r), b)
<1>1. Maps(Reads(ops, r), Instruction, Tag)
  BY Reading
<1>. QED
  BY <1>1, ProjectedConcat

\* Of two parts of a row, of which one or the other says nothing.
LEMMA TwoParts ==
  ASSUME NEW ops, NEW r, NEW a \in Seq(Instruction), NEW b \in Seq(Instruction)
  PROVE  /\ a \o b \in Seq(Instruction)
         /\ Projected(Reads(ops, r), a) = << >> => Projected(Reads(ops, r), a \o b) = Projected(Reads(ops, r), b)
         /\ Projected(Reads(ops, r), b) = << >> => Projected(Reads(ops, r), a \o b) = Projected(Reads(ops, r), a)
<1>1. PICK f : f = Reads(ops, r) /\ Maps(f, Instruction, Tag)
  BY Reading
<1>2. Projected(f, a \o b) = Projected(f, a) \o Projected(f, b)
  <2>1. Projected(Reads(ops, r), a \o b) = Projected(Reads(ops, r), a) \o Projected(Reads(ops, r), b)
    BY ReadsConcat
  <2>. QED
    BY <1>1, <2>1
<1>3. \A c \in Seq(Instruction) : Projected(f, c) \in Seq(Tag)
  BY <1>1, ProjectedType
<1>4. PICK u \in Seq(Tag) : u = Projected(f, a)
  BY <1>3
<1>5. PICK v \in Seq(Tag) : v = Projected(f, b)
  BY <1>3
<1>6. Projected(f, a \o b) = u \o v
  BY <1>2, <1>4, <1>5
<1>7. u \o << >> = u /\ << >> \o v = v
  BY TagsTogether
<1>8. a \o b \in Seq(Instruction)
  <2>1. PICK I : I = Instruction
    OBVIOUS
  <2>2. a \in Seq(I) /\ b \in Seq(I)
    BY <2>1
  <2>3. a \o b \in Seq(I)
    BY <2>2, ConcatProperties
  <2>. QED
    BY <2>1, <2>3
<1>. QED
  BY <1>1, <1>4, <1>5, <1>6, <1>7, <1>8

\* What P1 takes from the last parties for a gate, and keeps.
LEMMA LastRowFlows ==
  ASSUME NEW ops, NEW r, NEW x \in Seq(GateIds)
  PROVE  /\ Projected(LastRow, x) \in Seq(Instruction)
         /\ "FDMultP1Queues" \notin ops =>
              Projected(Reads(ops, r), Projected(LastRow, x)) = Flow(ops, r, "FDMultP1Receives", Parties \ First, x)
         /\ "FDMultP1Receives" \notin ops =>
              Projected(Reads(ops, r), Projected(LastRow, x)) = Flow(ops, r, "FDMultP1Queues", {None}, x)
<1>1. ASSUME NEW g \in GateIds
      PROVE  /\ LastRow[g] \in Seq(Instruction)
             /\ "FDMultP1Queues" \notin ops =>
                  Projected(Reads(ops, r), LastRow[g]) = Projected(Reads(ops, r), WithLast("FDMultP1Receives", g))
             /\ "FDMultP1Receives" \notin ops =>
                  Projected(Reads(ops, r), LastRow[g]) = Reads(ops, r)[Told("FDMultP1Queues", g, None)]
  <2>1. SaysTo(ops, r, "FDMultP1Receives", g, WithLast("FDMultP1Receives", g), Parties \ First)
    BY ReadsLast DEF WithAny
  <2>2. PICK a \in Seq(Instruction) : a = WithLast("FDMultP1Receives", g)
    BY <2>1 DEF SaysTo
  <2>3. PICK i \in Instruction : i = Told("FDMultP1Queues", g, None)
    BY GateInstructions
  <2>4. << i >> \in Seq(Instruction) /\ Projected(Reads(ops, r), << i >>) = Reads(ops, r)[i]
    BY ReadsAlone
  <2>5. PICK b \in Seq(Instruction) : b = << i >>
    BY <2>4
  <2>6. LastRow[g] = a \o b
    BY <2>2, <2>3, <2>5 DEF LastRow, Single, Told
  <2>7. "FDMultP1Queues" \notin ops => Reads(ops, r)[i] = << >>
    BY <2>3 DEF Reads, PrepOps, Told
  <2>8. "FDMultP1Receives" \notin ops => Projected(Reads(ops, r), a) = << >>
    BY <2>1, <2>2 DEF SaysTo
  <2>9. /\ a \o b \in Seq(Instruction)
        /\ Projected(Reads(ops, r), a) = << >> => Projected(Reads(ops, r), a \o b) = Projected(Reads(ops, r), b)
        /\ Projected(Reads(ops, r), b) = << >> => Projected(Reads(ops, r), a \o b) = Projected(Reads(ops, r), a)
    BY TwoParts
  <2>. QED
    BY <2>2, <2>3, <2>4, <2>5, <2>6, <2>7, <2>8, <2>9
<1>2. Maps(LastRow, GateIds, Instruction)
  <2>1. PICK U : U = Seq(Instruction)
    OBVIOUS
  <2>2. \A g \in GateIds : LastRow[g] \in U
    BY <1>1, <2>1
  <2>3. LastRow \in [GateIds -> U]
    BY <2>2 DEF LastRow
  <2>. QED
    BY <2>1, <2>3 DEF Maps
<1>3. ASSUME "FDMultP1Queues" \notin ops
      PROVE  Marking(ops, r, "FDMultP1Receives", Parties \ First, LastRow)
  <2>1. ASSUME NEW g \in GateIds
        PROVE  SaysTo(ops, r, "FDMultP1Receives", g, WithLast("FDMultP1Receives", g), Parties \ First)
    BY ReadsLast DEF WithAny
  <2>. QED
    BY <1>1, <1>3, <2>1 DEF SaysTo, Marking
<1>4. ASSUME "FDMultP1Receives" \notin ops
      PROVE  Marking(ops, r, "FDMultP1Queues", {None}, LastRow)
  <2>1. ASSUME NEW g \in GateIds
        PROVE  Reads(ops, r)[Told("FDMultP1Queues", g, None)]
               = IF "FDMultP1Queues" \in ops /\ None = r THEN << << KindOf("FDMultP1Queues"), g >> >> ELSE << >>
    <3>1. Told("FDMultP1Queues", g, None) \in Instruction
      BY GateInstructions
    <3>. QED
      BY <3>1 DEF Reads, PrepOps, Told
  <2>. QED
    BY <1>1, <1>4, <2>1 DEF Marking
<1>5. Projected(LastRow, x) \in Seq(Instruction)
  BY <1>2, ProjectedType
<1>. QED
  BY <1>2, <1>3, <1>4, <1>5, RowsFlow

\* What the owner of inputs takes for a gate, and sends.
LEMMA BothRowFlows ==
  ASSUME NEW ops, NEW r, NEW x \in Seq(GateIds)
  PROVE  /\ Projected(BothRow, x) \in Seq(Instruction)
         /\ "InputOwnersSend" \notin ops =>
              Projected(Reads(ops, r), Projected(BothRow, x)) = Flow(ops, r, "InputOwnersReceive", First, x)
         /\ "InputOwnersReceive" \notin ops =>
              Projected(Reads(ops, r), Projected(BothRow, x)) = Flow(ops, r, "InputOwnersSend", First, x)
<1>1. ASSUME NEW g \in GateIds
      PROVE  /\ BothRow[g] \in Seq(Instruction)
             /\ "InputOwnersSend" \notin ops => SaysTo(ops, r, "InputOwnersReceive", g, BothRow[g], First)
             /\ "InputOwnersReceive" \notin ops => SaysTo(ops, r, "InputOwnersSend", g, BothRow[g], First)
  <2>1. SaysTo(ops, r, "InputOwnersReceive", g, WithFirst("InputOwnersReceive", g), First)
    BY ReadsFirst DEF WithAny
  <2>2. SaysTo(ops, r, "InputOwnersSend", g, WithFirst("InputOwnersSend", g), First)
    BY ReadsFirst DEF WithAny
  <2>3. PICK a \in Seq(Instruction) : a = WithFirst("InputOwnersReceive", g)
    BY <2>1 DEF SaysTo
  <2>4. PICK b \in Seq(Instruction) : b = WithFirst("InputOwnersSend", g)
    BY <2>2 DEF SaysTo
  <2>5. BothRow[g] = a \o b
    BY <2>3, <2>4 DEF BothRow
  <2>6. /\ a \o b \in Seq(Instruction)
        /\ Projected(Reads(ops, r), a) = << >> => Projected(Reads(ops, r), a \o b) = Projected(Reads(ops, r), b)
        /\ Projected(Reads(ops, r), b) = << >> => Projected(Reads(ops, r), a \o b) = Projected(Reads(ops, r), a)
    BY TwoParts
  <2>7. ASSUME "InputOwnersSend" \notin ops PROVE SaysTo(ops, r, "InputOwnersReceive", g, a \o b, First)
    <3>1. Projected(Reads(ops, r), b) = << >>
      BY <2>2, <2>4, <2>7 DEF SaysTo
    <3>. QED
      BY <2>1, <2>3, <2>6, <3>1 DEF SaysTo
  <2>8. ASSUME "InputOwnersReceive" \notin ops PROVE SaysTo(ops, r, "InputOwnersSend", g, a \o b, First)
    <3>1. Projected(Reads(ops, r), a) = << >>
      BY <2>1, <2>3, <2>8 DEF SaysTo
    <3>. QED
      BY <2>2, <2>4, <2>6, <3>1 DEF SaysTo
  <2>. QED
    BY <2>5, <2>6, <2>7, <2>8
<1>2. Maps(BothRow, GateIds, Instruction)
  <2>1. PICK U : U = Seq(Instruction)
    OBVIOUS
  <2>2. \A g \in GateIds : BothRow[g] \in U
    BY <1>1, <2>1
  <2>3. BothRow \in [GateIds -> U]
    BY <2>2 DEF BothRow
  <2>. QED
    BY <2>1, <2>3 DEF Maps
<1>3. "InputOwnersSend" \notin ops => Marking(ops, r, "InputOwnersReceive", First, BothRow)
  BY <1>1 DEF Marking, SaysTo
<1>4. "InputOwnersReceive" \notin ops => Marking(ops, r, "InputOwnersSend", First, BothRow)
  BY <1>1 DEF Marking, SaysTo
<1>5. Projected(BothRow, x) \in Seq(Instruction)
  BY <1>2, ProjectedType
<1>. QED
  BY <1>2, <1>3, <1>4, <1>5, RowsFlow

\* Rows that a sequence of gates gives rise to, said with the gates.
LEMMA RowsOf ==
  ASSUME NEW B, NEW R, NEW x \in Seq(B)
  PROVE  Projected(R, x) = FlattenSeq([i \in DOMAIN x |-> R[x[i]]])
BY DEF Projected, Pieces

\* The lists of the circuit.
LEMMA Lists ==
  /\ \A c \in Parties : /\ Circuit.inputs[c] \in Seq(Owned) /\ Circuit.outputs[c] \in Seq(Owned)
                        /\ \A i \in 1 .. Len(Circuit.inputs[c]) : gates[Circuit.inputs[c][i]].owner = c
                        /\ \A i \in 1 .. Len(Circuit.outputs[c]) : gates[Circuit.outputs[c][i]].owner = c
  /\ Circuit.layers \in Seq(Seq(GateIds)) /\ FlatMults \in Seq(GateIds)
<1>1. PICK G : G = GateIds
  OBVIOUS
<1>2. ASSUME NEW c \in Parties, NEW s \in Seq(G), \A g \in Range(s) : gates[g].owner = c
      PROVE  s \in Seq(Owned) /\ \A i \in 1 .. Len(s) : gates[s[i]].owner = c
  <2>1. PICK W : W = Owned
    OBVIOUS
  <2>2. \A i \in 1 .. Len(s) : s[i] \in Range(s) /\ s[i] \in G
    BY DEF Range
  <2>3. \A i \in 1 .. Len(s) : s[i] \in W /\ gates[s[i]].owner = c
    BY <1>1, <1>2, <2>1, <2>2 DEF Owned
  <2>4. s \in Seq(W)
    BY <2>3
  <2>. QED
    BY <2>1, <2>3, <2>4
<1>3. ASSUME NEW c \in Parties
      PROVE  /\ Circuit.inputs[c] \in Seq(Owned) /\ Circuit.outputs[c] \in Seq(Owned)
             /\ \A i \in 1 .. Len(Circuit.inputs[c]) : gates[Circuit.inputs[c][i]].owner = c
             /\ \A i \in 1 .. Len(Circuit.outputs[c]) : gates[Circuit.outputs[c][i]].owner = c
  <2>0. PICK U : U = Seq(G)
    OBVIOUS
  <2>1. Circuit.inputs \in [Parties -> U] /\ Circuit.outputs \in [Parties -> U]
    BY <1>1, <2>0, CircuitAssumption
  <2>2. PICK a \in Seq(G) : a = Circuit.inputs[c]
    BY <2>0, <2>1
  <2>3. PICK b \in Seq(G) : b = Circuit.outputs[c]
    BY <2>0, <2>1
  <2>4. \A g \in Range(a) \cup Range(b) : gates[g].owner = c
    BY <2>2, <2>3, CircuitAssumption
  <2>5. a \in Seq(Owned) /\ \A i \in 1 .. Len(a) : gates[a[i]].owner = c
    BY <1>2, <2>4
  <2>6. b \in Seq(Owned) /\ \A i \in 1 .. Len(b) : gates[b[i]].owner = c
    BY <1>2, <2>4
  <2>. QED
    BY <2>2, <2>3, <2>5, <2>6
<1>4. Circuit.layers \in Seq(Seq(GateIds))
  BY CircuitAssumption
<1>5. FlatMults \in Seq(GateIds)
  BY <1>4, FlattenType DEF FlatMults
<1>. QED
  BY <1>3, <1>4, <1>5

\* The list of all the gates there are in lists by owner.
ListsOf(lists) ==
  \A c \in Parties : lists[c] \in Seq(Owned) /\ \A i \in 1 .. Len(lists[c]) : gates[lists[c][i]].owner = c

\* Told to send to owners, or receive from them, one deals with an owner for
\* that owner's own.
LEMMA OwnerRowFlows ==
  ASSUME NEW ops, NEW r, NEW op \in WithAny, NEW lists, ListsOf(lists)
  PROVE  /\ ByOwner(lists) \in Seq(Owned)
         /\ Projected(OwnerRow(op), ByOwner(lists)) \in Seq(Instruction)
         /\ r \in Parties \/ op \notin ops =>
              Projected(Reads(ops, r), Projected(OwnerRow(op), ByOwner(lists))) = Flow(ops, r, op, Parties, lists[r])
<1>0. PICK n \in Nat : n = NParties /\ \A c \in 1 .. n : c - 1 \in Parties
  BY PartyNumbers
<1>1. PICK s \in Seq(Seq(Owned)) : s = [c \in 1 .. NParties |-> lists[c - 1]]
                                   /\ Len(s) = n /\ \A c \in 1 .. n : s[c] = lists[c - 1]
  <2>1. PICK U : U = Seq(Owned)
    OBVIOUS
  <2>2. \A c \in 1 .. n : lists[c - 1] \in U
    BY <1>0, <2>1 DEF ListsOf
  <2>3. PICK s : s = [c \in 1 .. n |-> lists[c - 1]]
    OBVIOUS
  <2>4. s \in Seq(U) /\ Len(s) = n /\ \A c \in 1 .. n : s[c] = lists[c - 1]
    BY <2>2, <2>3
  <2>. QED
    BY <1>0, <2>1, <2>3, <2>4
<1>2. PICK all \in Seq(Owned) : all = ByOwner(lists) /\ all = FlattenSeq(s)
  BY <1>1, FlattenType DEF ByOwner
<1>3. Maps(OwnerRow(op), Owned, Instruction)
  BY RowTypes
<1>4. Projected(OwnerRow(op), all) \in Seq(Instruction)
  BY <1>3, ProjectedType
<1>5. PICK f : f = Reads(ops, r) /\ Maps(f, Instruction, Tag)
  BY Reading
<1>6. PICK k \in Kinds : k = KindOf(op)
  BY DEF KindOf, Kinds
<1>7. ASSUME NEW g \in Owned
      PROVE  Projected(f, OwnerRow(op)[g]) = IF op \in ops /\ gates[g].owner = r THEN << << k, g >> >> ELSE << >>
  <2>1. g \in GateIds /\ gates[g].owner \in Parties
    BY DEF Owned
  <2>2. PICK i \in Instruction : i = Told(op, g, gates[g].owner)
    BY <2>1, GateInstructions
  <2>3. op \notin PrepOps /\ op # "SetInputShares"
    BY DEF WithAny, PrepOps
  <2>4. Reads(ops, r)[i] = IF op \in ops /\ gates[g].owner = r THEN << << KindOf(op), g >> >> ELSE << >>
    BY <2>2, <2>3 DEF Reads, PrepOps, Told
  <2>5. Projected(Reads(ops, r), << i >>) = Reads(ops, r)[i]
    BY ReadsAlone
  <2>6. OwnerRow(op)[g] = << i >>
    BY <2>2 DEF OwnerRow
  <2>. QED
    BY <1>5, <1>6, <2>4, <2>5, <2>6
<1>8. ASSUME op \notin ops PROVE Projected(f, Projected(OwnerRow(op), all)) = << >>
  <2>1. PICK N : N = [g \in Owned |-> << >>] /\ Maps(N, Owned, Tag)
    <3>1. PICK T : T = Tag
      OBVIOUS
    <3>2. << >> \in Seq(T)
      OBVIOUS
    <3>3. [g \in Owned |-> << >>] \in [Owned -> Seq(T)]
      BY <3>2
    <3>. QED
      BY <3>1, <3>3 DEF Maps
  <2>2. AtOnce(N, f, OwnerRow(op), Owned)
    BY <1>7, <1>8, <2>1 DEF AtOnce
  <2>3. Projected(f, Projected(OwnerRow(op), all)) = Projected(N, all)
    BY <1>3, <1>5, <2>1, <2>2, ProjectedTwice
  <2>4. \A a \in Seq(Owned) : (\A i \in 1 .. Len(a) : N[a[i]] = << >>) => Projected(N, a) = << >>
    BY <2>1, ProjectedNothing
  <2>5. \A i \in 1 .. Len(all) : N[all[i]] = << >>
    BY <2>1
  <2>. QED
    BY <2>3, <2>4, <2>5
<1>9. ASSUME op \in ops, r \in Parties
      PROVE  Projected(f, Projected(OwnerRow(op), all)) = Projected(Marks(k), lists[r])
  <2>1. PICK M : M = OwnMarks(k, r) /\ Maps(M, Owned, Tag)
    BY RowTypes
  <2>2. AtOnce(M, f, OwnerRow(op), Owned)
    BY <1>7, <1>9, <2>1 DEF AtOnce, OwnMarks
  <2>3. Projected(f, Projected(OwnerRow(op), all)) = Projected(M, all)
    BY <1>3, <1>5, <2>1, <2>2, ProjectedTwice
  <2>4. PICK h \in 1 .. n : h = r + 1 /\ h - 1 = r
    BY <1>0, <1>9, PartyNumbers
  <2>5. ASSUME NEW c \in 1 .. n, c # h PROVE Projected(M, s[c]) = << >>
    <3>1. PICK a \in Seq(Owned) : a = s[c] /\ \A i \in 1 .. Len(a) : gates[a[i]].owner = c - 1
      BY <1>0, <1>1 DEF ListsOf
    <3>2. c - 1 # r
      BY <2>4, <2>5
    <3>3. \A i \in 1 .. Len(a) : M[a[i]] = << >>
      BY <2>1, <3>1, <3>2 DEF OwnMarks
    <3>4. \A b \in Seq(Owned) : (\A i \in 1 .. Len(b) : M[b[i]] = << >>) => Projected(M, b) = << >>
      BY <2>1, ProjectedNothing
    <3>. QED
      BY <3>1, <3>3, <3>4
  <2>6. OnlyRow(M, s, h)
    BY <1>1, <2>5 DEF OnlyRow
  <2>7. Projected(M, FlattenSeq(s)) = Projected(M, s[h])
    <3>1. \A q \in Seq(Seq(Owned)), j \in Nat : OnlyRow(M, q, j) => Projected(M, FlattenSeq(q)) = Projected(M, q[j])
      BY <2>1, ProjectedRows
    <3>2. h \in Nat
      OBVIOUS
    <3>. QED
      BY <2>6, <3>1, <3>2
  <2>8. Projected(M, s[h]) = Projected(Marks(k), lists[r])
    <3>1. PICK a \in Seq(Owned) : a = s[h] /\ a = lists[r] /\ \A i \in 1 .. Len(a) : gates[a[i]].owner = r
      <4>1. PICK a \in Seq(Owned) : a = lists[r] /\ \A i \in 1 .. Len(a) : gates[a[i]].owner = r
        BY <1>9 DEF ListsOf
      <4>2. s[h] = lists[r]
        BY <1>1, <2>4
      <4>. QED
        BY <4>1, <4>2
    <3>2. \A i \in 1 .. Len(a) : a[i] \in Owned /\ a[i] \in GateIds
      BY DEF Owned
    <3>3. \A i \in 1 .. Len(a) : M[a[i]] = Marks(k)[a[i]]
      BY <2>1, <3>1, <3>2 DEF OwnMarks, Marks
    <3>4. Pieces(M, a) = Pieces(Marks(k), a)
      BY <3>3 DEF Pieces
    <3>. QED
      BY <3>1, <3>4 DEF Projected
  <2>. QED
    BY <1>2, <2>3, <2>7, <2>8
<1>10. r \in Parties \/ op \notin ops => Projected(f, Projected(OwnerRow(op), all)) = Flow(ops, r, op, Parties, lists[r])
  BY <1>6, <1>8, <1>9 DEF Flow
<1>. QED
  BY <1>2, <1>4, <1>5, <1>10

\* A layer of multiplications, and all behind the preparation, in one line.
StraightMult(p, layer) ==
  IF ~IsFirst(p) THEN << >>
  ELSE Each(layer, LAMBDA g : Single("MultPartiesSendP1", g, 0))
       \o (IF p # 0 THEN << >> ELSE P1Receives(layer) \o P1Sends(layer))
       \o Each(layer, LAMBDA g : Single("MultPartiesReceive", g, 0))

Straight ==
  [p \in Parties |->
     FDMult(p) \o InputProtocol(p)
     \o FlattenSeq([l \in DOMAIN Circuit.layers |-> StraightMult(p, Circuit.layers[l])])
     \o OutputProtocol(p)]

\* The programs, row by row.
LEMMA Spelled ==
  ASSUME NEW p \in Parties
  PROVE  /\ FDMult(p) =
              IF p = 0 THEN Projected(LastRow, FlatMults)
              ELSE IF p \in First THEN << >>
              ELSE << Told("SetInputShares", None, None) >> \o Projected(P1Row("FDMultPartiesSendP1"), FlatMults)
         /\ InputProtocol(p) =
              (IF p \in First THEN Projected(OwnerRow("InputPartiesSendOwners"), FlatInputs) ELSE << >>)
              \o Projected(BothRow, Circuit.inputs[p])
              \o (IF p \in First THEN Projected(OwnerRow("InputPartiesReceive"), FlatInputs) ELSE << >>)
         /\ \A x \in Seq(GateIds) :
              StraightMult(p, x) =
                IF p \notin First THEN << >>
                ELSE Projected(P1Row("MultPartiesSendP1"), x)
                     \o (IF p # 0 THEN << >>
                         ELSE Projected(FirstRow("MultP1Receives"), x) \o Projected(FirstRow("MultP1SendsParties"), x))
                     \o Projected(P1Row("MultPartiesReceive"), x)
         /\ OutputProtocol(p) =
              (IF p \in First THEN Projected(OwnerRow("OutputPartiesSendOwners"), FlatOutputs) ELSE << >>)
              \o Projected(FirstRow("OutputOwnersReceive"), Circuit.outputs[p])
<1>1. ASSUME NEW op, NEW x \in Seq(GateIds)
      PROVE  /\ Projected(P1Row(op), x) = FlattenSeq([i \in DOMAIN x |-> Single(op, x[i], 0)])
             /\ Projected(FirstRow(op), x) = FlattenSeq([i \in DOMAIN x |-> WithFirst(op, x[i])])
  <2>1. [i \in DOMAIN x |-> P1Row(op)[x[i]]] = [i \in DOMAIN x |-> Single(op, x[i], 0)]
    BY DEF P1Row, Single, Told
  <2>2. [i \in DOMAIN x |-> FirstRow(op)[x[i]]] = [i \in DOMAIN x |-> WithFirst(op, x[i])]
    BY DEF FirstRow
  <2>3. Projected(P1Row(op), x) = FlattenSeq([i \in DOMAIN x |-> P1Row(op)[x[i]]])
    BY RowsOf
  <2>4. Projected(FirstRow(op), x) = FlattenSeq([i \in DOMAIN x |-> FirstRow(op)[x[i]]])
    BY RowsOf
  <2>. QED
    BY <2>1, <2>2, <2>3, <2>4
<1>2. ASSUME NEW x \in Seq(GateIds)
      PROVE  /\ Projected(LastRow, x)
                = FlattenSeq([i \in DOMAIN x |-> WithLast("FDMultP1Receives", x[i]) \o Single("FDMultP1Queues", x[i], None)])
             /\ Projected(BothRow, x)
                = FlattenSeq([i \in DOMAIN x |-> WithFirst("InputOwnersReceive", x[i]) \o WithFirst("InputOwnersSend", x[i])])
  <2>1. [i \in DOMAIN x |-> LastRow[x[i]]]
        = [i \in DOMAIN x |-> WithLast("FDMultP1Receives", x[i]) \o Single("FDMultP1Queues", x[i], None)]
    BY DEF LastRow
  <2>2. [i \in DOMAIN x |-> BothRow[x[i]]]
        = [i \in DOMAIN x |-> WithFirst("InputOwnersReceive", x[i]) \o WithFirst("InputOwnersSend", x[i])]
    BY DEF BothRow
  <2>3. Projected(LastRow, x) = FlattenSeq([i \in DOMAIN x |-> LastRow[x[i]]])
    BY RowsOf
  <2>4. Projected(BothRow, x) = FlattenSeq([i \in DOMAIN x |-> BothRow[x[i]]])
    BY RowsOf
  <2>. QED
    BY <2>1, <2>2, <2>3, <2>4
<1>3. ASSUME NEW op, NEW x \in Seq(Owned)
      PROVE  Projected(OwnerRow(op), x) = FlattenSeq([i \in DOMAIN x |-> Single(op, x[i], gates[x[i]].owner)])
  <2>1. [i \in DOMAIN x |-> OwnerRow(op)[x[i]]] = [i \in DOMAIN x |-> Single(op, x[i], gates[x[i]].owner)]
    BY DEF OwnerRow, Single, Told
  <2>2. Projected(OwnerRow(op), x) = FlattenSeq([i \in DOMAIN x |-> OwnerRow(op)[x[i]]])
    BY RowsOf
  <2>. QED
    BY <2>1, <2>2
<1>4. \A c \in Parties : Circuit.inputs[c] \in Seq(GateIds) /\ Circuit.outputs[c] \in Seq(GateIds)
  <2>1. Owned \subseteq GateIds
    BY DEF Owned
  <2>2. \A s \in Seq(Owned) : s \in Seq(GateIds)
    <3>1. PICK O, G : O = Owned /\ G = GateIds
      OBVIOUS
    <3>2. \A s \in Seq(O) : s \in Seq(G)
      BY <2>1, <3>1
    <3>. QED
      BY <3>1, <3>2
  <2>. QED
    BY <2>2, Lists
<1>5. FlatInputs \in Seq(Owned) /\ FlatOutputs \in Seq(Owned)
  <2>1. ListsOf(Circuit.inputs) /\ ListsOf(Circuit.outputs)
    BY Lists DEF ListsOf
  <2>2. \A op \in WithAny : ByOwner(Circuit.inputs) \in Seq(Owned) /\ ByOwner(Circuit.outputs) \in Seq(Owned)
    BY <2>1, OwnerRowFlows
  <2>. QED
    BY <2>2 DEF FlatInputs, FlatOutputs, WithAny
<1>6. FDMult(p) =
        IF p = 0 THEN Projected(LastRow, FlatMults)
        ELSE IF p \in First THEN << >>
        ELSE << Told("SetInputShares", None, None) >> \o Projected(P1Row("FDMultPartiesSendP1"), FlatMults)
  <2>1. FDMult(p) =
          IF p = 0
          THEN FlattenSeq([i \in DOMAIN FlatMults |->
                 WithLast("FDMultP1Receives", FlatMults[i]) \o Single("FDMultP1Queues", FlatMults[i], None)])
          ELSE IF p \in First THEN << >>
          ELSE << Told("SetInputShares", None, None) >>
               \o FlattenSeq([i \in DOMAIN FlatMults |-> Single("FDMultPartiesSendP1", FlatMults[i], 0)])
    BY DEF FDMult, Each, IsFirst, Single, Told
  <2>. QED
    BY <1>1, <1>2, <2>1, Lists
<1>7. InputProtocol(p) =
        (IF p \in First THEN Projected(OwnerRow("InputPartiesSendOwners"), FlatInputs) ELSE << >>)
        \o Projected(BothRow, Circuit.inputs[p])
        \o (IF p \in First THEN Projected(OwnerRow("InputPartiesReceive"), FlatInputs) ELSE << >>)
  <2>1. InputProtocol(p) =
          (IF p \in First
           THEN FlattenSeq([i \in DOMAIN FlatInputs |->
                  Single("InputPartiesSendOwners", FlatInputs[i], gates[FlatInputs[i]].owner)]) ELSE << >>)
          \o FlattenSeq([i \in DOMAIN Circuit.inputs[p] |->
               WithFirst("InputOwnersReceive", Circuit.inputs[p][i]) \o WithFirst("InputOwnersSend", Circuit.inputs[p][i])])
          \o (IF p \in First
              THEN FlattenSeq([i \in DOMAIN FlatInputs |->
                     Single("InputPartiesReceive", FlatInputs[i], gates[FlatInputs[i]].owner)]) ELSE << >>)
    BY DEF InputProtocol, OwnersReceiveAndSend, Each, IsFirst
  <2>. QED
    BY <1>2, <1>3, <1>4, <1>5, <2>1
<1>8. ASSUME NEW x \in Seq(GateIds)
      PROVE  StraightMult(p, x) =
               IF p \notin First THEN << >>
               ELSE Projected(P1Row("MultPartiesSendP1"), x)
                    \o (IF p # 0 THEN << >>
                        ELSE Projected(FirstRow("MultP1Receives"), x) \o Projected(FirstRow("MultP1SendsParties"), x))
                    \o Projected(P1Row("MultPartiesReceive"), x)
  <2>1. StraightMult(p, x) =
          IF p \notin First THEN << >>
          ELSE FlattenSeq([i \in DOMAIN x |-> Single("MultPartiesSendP1", x[i], 0)])
               \o (IF p # 0 THEN << >>
                   ELSE FlattenSeq([i \in DOMAIN x |-> WithFirst("MultP1Receives", x[i])])
                        \o FlattenSeq([i \in DOMAIN x |-> WithFirst("MultP1SendsParties", x[i])]))
               \o FlattenSeq([i \in DOMAIN x |-> Single("MultPartiesReceive", x[i], 0)])
    BY DEF StraightMult, P1Receives, P1Sends, Each, IsFirst
  <2>. QED
    BY <1>1, <2>1
<1>9. OutputProtocol(p) =
        (IF p \in First THEN Projected(OwnerRow("OutputPartiesSendOwners"), FlatOutputs) ELSE << >>)
        \o Projected(FirstRow("OutputOwnersReceive"), Circuit.outputs[p])
  <2>1. OutputProtocol(p) =
          (IF p \in First
           THEN FlattenSeq([i \in DOMAIN FlatOutputs |->
                  Single("OutputPartiesSendOwners", FlatOutputs[i], gates[FlatOutputs[i]].owner)]) ELSE << >>)
          \o FlattenSeq([i \in DOMAIN Circuit.outputs[p] |-> WithFirst("OutputOwnersReceive", Circuit.outputs[p][i])])
    BY DEF OutputProtocol, OwnersReceive, Each, IsFirst
  <2>. QED
    BY <1>1, <1>3, <1>4, <1>5, <2>1
<1>. QED
  BY <1>6, <1>7, <1>8, <1>9

-----------------------------------------------------------------------------
(* Protocol by protocol.                                                     *)

\* What the programs say to r, or ask of r, protocol by protocol, when no more
\* than one side of the two-sided rows is looked at.
LastFlow(ops, r, x) ==
  IF "FDMultP1Queues" \in ops THEN Flow(ops, r, "FDMultP1Queues", {None}, x)
  ELSE Flow(ops, r, "FDMultP1Receives", Parties \ First, x)

BothFlow(ops, r, x) ==
  IF "InputOwnersSend" \in ops THEN Flow(ops, r, "InputOwnersSend", First, x)
  ELSE Flow(ops, r, "InputOwnersReceive", First, x)

FDFlow(ops, r, p) ==
  IF p = 0 THEN LastFlow(ops, r, FlatMults)
  ELSE IF p \in First THEN << >>
  ELSE Flow(ops, r, "FDMultPartiesSendP1", {0}, FlatMults)

InputFlow(ops, r, p) ==
  (IF p \in First THEN Flow(ops, r, "InputPartiesSendOwners", Parties, Circuit.inputs[r]) ELSE << >>)
  \o BothFlow(ops, r, Circuit.inputs[p])
  \o (IF p \in First THEN Flow(ops, r, "InputPartiesReceive", Parties, Circuit.inputs[r]) ELSE << >>)

MultFlow(ops, r, p, x) ==
  IF p \notin First THEN << >>
  ELSE Flow(ops, r, "MultPartiesSendP1", {0}, x)
       \o (IF p # 0 THEN << >>
           ELSE Flow(ops, r, "MultP1Receives", First, x) \o Flow(ops, r, "MultP1SendsParties", First, x))
       \o Flow(ops, r, "MultPartiesReceive", {0}, x)

OutputFlow(ops, r, p) ==
  (IF p \in First THEN Flow(ops, r, "OutputPartiesSendOwners", Parties, Circuit.outputs[r]) ELSE << >>)
  \o Flow(ops, r, "OutputOwnersReceive", First, Circuit.outputs[p])

OneSided(ops, r) ==
  /\ ~("FDMultP1Queues" \in ops /\ "FDMultP1Receives" \in ops)
  /\ ~("InputOwnersSend" \in ops /\ "InputOwnersReceive" \in ops)
  /\ r \in Parties \/ ops \cap {"InputPartiesSendOwners", "InputPartiesReceive", "OutputPartiesSendOwners"} = {}

\* What a, b and c say in turn.
InTurns(ops, r, a, b, c) ==
  /\ a \o b \in Seq(Instruction) /\ a \o b \o c \in Seq(Instruction)
  /\ Projected(Reads(ops, r), a \o b) = Projected(Reads(ops, r), a) \o Projected(Reads(ops, r), b)
  /\ Projected(Reads(ops, r), a \o b \o c)
     = Projected(Reads(ops, r), a) \o Projected(Reads(ops, r), b) \o Projected(Reads(ops, r), c)

\* So it is for all of them.
LEMMA ThreeReads ==
  ASSUME NEW ops, NEW r
  PROVE  \A a, b, c \in Seq(Instruction) : InTurns(ops, r, a, b, c)
<1>0. \A a, b \in Seq(Instruction) :
        Projected(Reads(ops, r), a \o b) = Projected(Reads(ops, r), a) \o Projected(Reads(ops, r), b)
  BY ReadsConcat
<1>1. \A d, e \in Seq(Instruction) : d \o e \in Seq(Instruction)
  <2>1. PICK I : I = Instruction
    OBVIOUS
  <2>2. \A d, e \in Seq(I) : d \o e \in Seq(I)
    BY ConcatProperties
  <2>. QED
    BY <2>1, <2>2
<1>a. TAKE a, b, c \in Seq(Instruction)
<1>2. PICK ab \in Seq(Instruction) : ab = a \o b
  BY <1>1
<1>3. Projected(Reads(ops, r), ab) = Projected(Reads(ops, r), a) \o Projected(Reads(ops, r), b)
  <2>1. Projected(Reads(ops, r), a \o b) = Projected(Reads(ops, r), a) \o Projected(Reads(ops, r), b)
    BY <1>0
  <2>. QED
    BY <1>2, <2>1
<1>4. Projected(Reads(ops, r), ab \o c) = Projected(Reads(ops, r), ab) \o Projected(Reads(ops, r), c)
  BY <1>0
<1>5. ab \o c \in Seq(Instruction)
  BY <1>1
<1>. QED
  BY <1>2, <1>3, <1>4, <1>5 DEF InTurns

\* Nothing said is nothing read.
LEMMA NothingRead ==
  ASSUME NEW ops, NEW r
  PROVE  << >> \in Seq(Instruction) /\ Projected(Reads(ops, r), << >>) = << >>
<1>1. Maps(Reads(ops, r), Instruction, Tag)
  BY Reading
<1>2. << >> \in Seq(Instruction)
  BY EmptySeq
<1>. QED
  BY <1>1, <1>2, NothingOfNothing

\* Lists of gates, without their owners.
LEMMA GateLists ==
  /\ \A c \in Parties : Circuit.inputs[c] \in Seq(GateIds) /\ Circuit.outputs[c] \in Seq(GateIds)
  /\ FlatMults \in Seq(GateIds)
<1>1. Owned \subseteq GateIds
  BY DEF Owned
<1>2. \A s \in Seq(Owned) : s \in Seq(GateIds)
  <2>1. PICK O, G : O = Owned /\ G = GateIds
    OBVIOUS
  <2>2. \A s \in Seq(O) : s \in Seq(G)
    BY <1>1, <2>1
  <2>. QED
    BY <2>1, <2>2
<1>. QED
  BY <1>2, Lists

\* Beforehand.
LEMMA FDMultReads ==
  ASSUME NEW ops, NEW r, OneSided(ops, r), NEW p \in Parties
  PROVE  FDMult(p) \in Seq(Instruction) /\ Projected(Reads(ops, r), FDMult(p)) = FDFlow(ops, r, p)
<1>0. \A a, b \in Seq(Instruction) :
        /\ a \o b \in Seq(Instruction)
        /\ Projected(Reads(ops, r), a) = << >> => Projected(Reads(ops, r), a \o b) = Projected(Reads(ops, r), b)
  BY TwoParts
<1>1. CASE p = 0
  <2>1. FDMult(p) = Projected(LastRow, FlatMults)
    BY <1>1, Spelled
  <2>2. /\ Projected(LastRow, FlatMults) \in Seq(Instruction)
        /\ "FDMultP1Queues" \notin ops =>
             Projected(Reads(ops, r), Projected(LastRow, FlatMults))
             = Flow(ops, r, "FDMultP1Receives", Parties \ First, FlatMults)
        /\ "FDMultP1Receives" \notin ops =>
             Projected(Reads(ops, r), Projected(LastRow, FlatMults)) = Flow(ops, r, "FDMultP1Queues", {None}, FlatMults)
    BY GateLists, LastRowFlows
  <2>. QED
    BY <1>1, <2>1, <2>2 DEF FDFlow, LastFlow, OneSided
<1>2. CASE p # 0 /\ p \in First
  <2>1. FDMult(p) = << >>
    BY <1>2, Spelled
  <2>. QED
    BY <1>2, <2>1, NothingRead DEF FDFlow
<1>3. CASE p \notin First
  <2>0. p # 0
    BY <1>3, PartyNumbers DEF First
  <2>1. FDMult(p) = << Told("SetInputShares", None, None) >> \o Projected(P1Row("FDMultPartiesSendP1"), FlatMults)
    BY <1>3, <2>0, Spelled
  <2>2. PICK i \in Instruction : i = Told("SetInputShares", None, None) /\ Reads(ops, r)[i] = << >>
    <3>1. Told("SetInputShares", None, None) \in Instruction
      BY DEF Told, Instruction, PrepOps
    <3>2. Reads(ops, r)[Told("SetInputShares", None, None)] = << >>
      BY <3>1 DEF Told, Reads, PrepOps
    <3>. QED
      BY <3>1, <3>2
  <2>3. << i >> \in Seq(Instruction) /\ Projected(Reads(ops, r), << i >>) = << >>
    BY <2>2, ReadsAlone
  <2>4. /\ Projected(P1Row("FDMultPartiesSendP1"), FlatMults) \in Seq(Instruction)
        /\ Projected(Reads(ops, r), Projected(P1Row("FDMultPartiesSendP1"), FlatMults))
           = Flow(ops, r, "FDMultPartiesSendP1", {0}, FlatMults)
    BY GateLists, P1RowFlows DEF WithP1
  <2>5. PICK a \in Seq(Instruction) : a = << i >>
    BY <2>3
  <2>6. PICK b \in Seq(Instruction) : b = Projected(P1Row("FDMultPartiesSendP1"), FlatMults)
    BY <2>4
  <2>7. a \o b \in Seq(Instruction) /\ Projected(Reads(ops, r), a \o b) = Projected(Reads(ops, r), b)
    BY <1>0, <2>3, <2>5
  <2>8. FDMult(p) = a \o b
    BY <2>1, <2>2, <2>5, <2>6
  <2>. QED
    BY <1>3, <2>0, <2>4, <2>6, <2>7, <2>8 DEF FDFlow
<1>. QED
  BY <1>1, <1>2, <1>3

\* The inputs.
LEMMA InputReads ==
  ASSUME NEW ops, NEW r, OneSided(ops, r), NEW p \in Parties
  PROVE  InputProtocol(p) \in Seq(Instruction) /\ Projected(Reads(ops, r), InputProtocol(p)) = InputFlow(ops, r, p)
<1>1. ListsOf(Circuit.inputs)
  BY Lists DEF ListsOf
<1>2. ASSUME NEW op \in {"InputPartiesSendOwners", "InputPartiesReceive"}
      PROVE  /\ Projected(OwnerRow(op), FlatInputs) \in Seq(Instruction)
             /\ Projected(Reads(ops, r), Projected(OwnerRow(op), FlatInputs))
                = Flow(ops, r, op, Parties, Circuit.inputs[r])
  <2>1. op \in WithAny /\ (r \in Parties \/ op \notin ops)
    BY DEF WithAny, OneSided
  <2>. QED
    BY <1>1, <2>1, OwnerRowFlows DEF FlatInputs
<1>3. PICK a \in Seq(Instruction) :
        /\ a = IF p \in First THEN Projected(OwnerRow("InputPartiesSendOwners"), FlatInputs) ELSE << >>
        /\ Projected(Reads(ops, r), a)
           = IF p \in First THEN Flow(ops, r, "InputPartiesSendOwners", Parties, Circuit.inputs[r]) ELSE << >>
  BY <1>2, NothingRead
<1>4. PICK c \in Seq(Instruction) :
        /\ c = IF p \in First THEN Projected(OwnerRow("InputPartiesReceive"), FlatInputs) ELSE << >>
        /\ Projected(Reads(ops, r), c)
           = IF p \in First THEN Flow(ops, r, "InputPartiesReceive", Parties, Circuit.inputs[r]) ELSE << >>
  BY <1>2, NothingRead
<1>5. PICK b \in Seq(Instruction) :
        /\ b = Projected(BothRow, Circuit.inputs[p])
        /\ Projected(Reads(ops, r), b) = BothFlow(ops, r, Circuit.inputs[p])
  <2>1. PICK x \in Seq(GateIds) : x = Circuit.inputs[p]
    BY GateLists
  <2>2. /\ Projected(BothRow, x) \in Seq(Instruction)
        /\ "InputOwnersSend" \notin ops =>
             Projected(Reads(ops, r), Projected(BothRow, x)) = Flow(ops, r, "InputOwnersReceive", First, x)
        /\ "InputOwnersReceive" \notin ops =>
             Projected(Reads(ops, r), Projected(BothRow, x)) = Flow(ops, r, "InputOwnersSend", First, x)
    BY BothRowFlows
  <2>. QED
    BY <2>1, <2>2 DEF BothFlow, OneSided
<1>6. InputProtocol(p) = a \o b \o c
  BY <1>3, <1>4, <1>5, Spelled
<1>7. /\ a \o b \o c \in Seq(Instruction)
      /\ Projected(Reads(ops, r), a \o b \o c)
         = Projected(Reads(ops, r), a) \o Projected(Reads(ops, r), b) \o Projected(Reads(ops, r), c)
  <2>1. InTurns(ops, r, a, b, c)
    BY ThreeReads
  <2>. QED
    BY <2>1 DEF InTurns
<1>. QED
  BY <1>3, <1>4, <1>5, <1>6, <1>7 DEF InputFlow

\* A layer of multiplications.
LEMMA MultReads ==
  ASSUME NEW ops, NEW r, NEW p \in Parties, NEW x \in Seq(GateIds)
  PROVE  StraightMult(p, x) \in Seq(Instruction) /\ Projected(Reads(ops, r), StraightMult(p, x)) = MultFlow(ops, r, p, x)
<1>0. StraightMult(p, x) =
        IF p \notin First THEN << >>
        ELSE Projected(P1Row("MultPartiesSendP1"), x)
             \o (IF p # 0 THEN << >>
                 ELSE Projected(FirstRow("MultP1Receives"), x) \o Projected(FirstRow("MultP1SendsParties"), x))
             \o Projected(P1Row("MultPartiesReceive"), x)
  BY Spelled
<1>1. CASE p \notin First
  BY <1>0, <1>1, NothingRead DEF MultFlow
<1>2. CASE p \in First
  <2>1. PICK a \in Seq(Instruction) : /\ a = Projected(P1Row("MultPartiesSendP1"), x)
                                      /\ Projected(Reads(ops, r), a) = Flow(ops, r, "MultPartiesSendP1", {0}, x)
    BY P1RowFlows DEF WithP1
  <2>2. PICK d \in Seq(Instruction) : /\ d = Projected(P1Row("MultPartiesReceive"), x)
                                      /\ Projected(Reads(ops, r), d) = Flow(ops, r, "MultPartiesReceive", {0}, x)
    BY P1RowFlows DEF WithP1
  <2>3. PICK b \in Seq(Instruction) : /\ b = Projected(FirstRow("MultP1Receives"), x)
                                      /\ Projected(Reads(ops, r), b) = Flow(ops, r, "MultP1Receives", First, x)
    BY FirstRowFlows DEF WithAny
  <2>4. PICK c \in Seq(Instruction) : /\ c = Projected(FirstRow("MultP1SendsParties"), x)
                                      /\ Projected(Reads(ops, r), c) = Flow(ops, r, "MultP1SendsParties", First, x)
    BY FirstRowFlows DEF WithAny
  <2>5. b \o c \in Seq(Instruction)
        /\ Projected(Reads(ops, r), b \o c) = Projected(Reads(ops, r), b) \o Projected(Reads(ops, r), c)
    <3>1. InTurns(ops, r, b, c, c)
      BY ThreeReads
    <3>. QED
      BY <3>1 DEF InTurns
  <2>6. PICK e \in Seq(Instruction) :
          /\ e = IF p # 0 THEN << >> ELSE b \o c
          /\ Projected(Reads(ops, r), e)
             = IF p # 0 THEN << >> ELSE Flow(ops, r, "MultP1Receives", First, x) \o Flow(ops, r, "MultP1SendsParties", First, x)
    BY <2>3, <2>4, <2>5, NothingRead
  <2>7. StraightMult(p, x) = a \o e \o d
    BY <1>0, <1>2, <2>1, <2>2, <2>3, <2>4, <2>6
  <2>8. /\ a \o e \o d \in Seq(Instruction)
        /\ Projected(Reads(ops, r), a \o e \o d)
           = Projected(Reads(ops, r), a) \o Projected(Reads(ops, r), e) \o Projected(Reads(ops, r), d)
    <3>1. InTurns(ops, r, a, e, d)
      BY ThreeReads
    <3>. QED
      BY <3>1 DEF InTurns
  <2>. QED
    BY <1>2, <2>1, <2>2, <2>6, <2>7, <2>8 DEF MultFlow
<1>. QED
  BY <1>1, <1>2

\* The outputs.
LEMMA OutputReads ==
  ASSUME NEW ops, NEW r, OneSided(ops, r), NEW p \in Parties
  PROVE  OutputProtocol(p) \in Seq(Instruction) /\ Projected(Reads(ops, r), OutputProtocol(p)) = OutputFlow(ops, r, p)
<1>1. ListsOf(Circuit.outputs)
  BY Lists DEF ListsOf
<1>2. /\ Projected(OwnerRow("OutputPartiesSendOwners"), FlatOutputs) \in Seq(Instruction)
      /\ Projected(Reads(ops, r), Projected(OwnerRow("OutputPartiesSendOwners"), FlatOutputs))
         = Flow(ops, r, "OutputPartiesSendOwners", Parties, Circuit.outputs[r])
  <2>1. "OutputPartiesSendOwners" \in WithAny /\ (r \in Parties \/ "OutputPartiesSendOwners" \notin ops)
    BY DEF WithAny, OneSided
  <2>. QED
    BY <1>1, <2>1, OwnerRowFlows DEF FlatOutputs
<1>3. PICK a \in Seq(Instruction) :
        /\ a = IF p \in First THEN Projected(OwnerRow("OutputPartiesSendOwners"), FlatOutputs) ELSE << >>
        /\ Projected(Reads(ops, r), a)
           = IF p \in First THEN Flow(ops, r, "OutputPartiesSendOwners", Parties, Circuit.outputs[r]) ELSE << >>
  BY <1>2, NothingRead
<1>4. PICK b \in Seq(Instruction) :
        /\ b = Projected(FirstRow("OutputOwnersReceive"), Circuit.outputs[p])
        /\ Projected(Reads(ops, r), b) = Flow(ops, r, "OutputOwnersReceive", First, Circuit.outputs[p])
  BY GateLists, FirstRowFlows DEF WithAny
<1>5. OutputProtocol(p) = a \o b
  BY <1>3, <1>4, Spelled
<1>6. /\ a \o b \in Seq(Instruction)
      /\ Projected(Reads(ops, r), a \o b) = Projected(Reads(ops, r), a) \o Projected(Reads(ops, r), b)
  <2>1. InTurns(ops, r, a, b, b)
    BY ThreeReads
  <2>. QED
    BY <2>1 DEF InTurns
<1>. QED
  BY <1>3, <1>4, <1>5, <1>6 DEF OutputFlow

\* Layer after layer, and all of a party's program.
MultFlows(ops, r, p) == FlattenSeq([l \in 1 .. Len(Circuit.layers) |-> MultFlow(ops, r, p, Circuit.layers[l])])

ProgramFlow(ops, r, p) ==
  FDFlow(ops, r, p) \o InputFlow(ops, r, p) \o MultFlows(ops, r, p) \o OutputFlow(ops, r, p)

\* The layers of a party's program.
LayerPrograms(p) == [l \in 1 .. Len(Circuit.layers) |-> StraightMult(p, Circuit.layers[l])]

\* They are programs.
LEMMA LayersType ==
  ASSUME NEW p \in Parties
  PROVE  /\ LayerPrograms(p) \in Seq(Seq(Instruction)) /\ Len(LayerPrograms(p)) = Len(Circuit.layers)
         /\ \A l \in 1 .. Len(Circuit.layers) :
              Circuit.layers[l] \in Seq(GateIds) /\ LayerPrograms(p)[l] = StraightMult(p, Circuit.layers[l])
<1>1. PICK G : G = Seq(GateIds)
  OBVIOUS
<1>2. PICK y \in Seq(G) : y = Circuit.layers
  BY <1>1, Lists
<1>3. \A x \in G : StraightMult(p, x) \in Seq(Instruction)
  BY <1>1, MultReads
<1>4. PICK I : I = Seq(Instruction)
  OBVIOUS
<1>5. \A l \in 1 .. Len(y) : y[l] \in G /\ StraightMult(p, y[l]) \in I
  BY <1>3, <1>4
<1>6. PICK s : s = [l \in 1 .. Len(y) |-> StraightMult(p, y[l])]
  OBVIOUS
<1>7. s \in Seq(I) /\ Len(s) = Len(y)
  BY <1>5, <1>6
<1>8. s = LayerPrograms(p)
  BY <1>2, <1>6 DEF LayerPrograms
<1>. QED
  BY <1>1, <1>2, <1>4, <1>5, <1>6, <1>7, <1>8

\* What they say.
LEMMA LayersRead ==
  ASSUME NEW ops, NEW r, NEW p \in Parties
  PROVE  /\ FlattenSeq(LayerPrograms(p)) \in Seq(Instruction)
         /\ Projected(Reads(ops, r), FlattenSeq(LayerPrograms(p))) = MultFlows(ops, r, p)
<1>1. PICK s \in Seq(Seq(Instruction)) : s = LayerPrograms(p) /\ Len(s) = Len(Circuit.layers)
  BY LayersType
<1>2. FlattenSeq(s) \in Seq(Instruction)
  BY FlattenType
<1>3. PICK f : f = Reads(ops, r) /\ Maps(f, Instruction, Tag)
  BY Reading
<1>4. Projected(f, FlattenSeq(s)) = FlattenSeq(Parted(f, s))
  BY <1>3, ProjectedFlatten
<1>5. ASSUME NEW l \in 1 .. Len(Circuit.layers) PROVE Projected(f, s[l]) = MultFlow(ops, r, p, Circuit.layers[l])
  <2>1. PICK x \in Seq(GateIds) : x = Circuit.layers[l] /\ s[l] = StraightMult(p, x)
    BY <1>1, LayersType
  <2>2. Projected(Reads(ops, r), StraightMult(p, x)) = MultFlow(ops, r, p, x)
    BY MultReads
  <2>. QED
    BY <1>3, <2>1, <2>2
<1>6. Parted(f, s) = [l \in 1 .. Len(Circuit.layers) |-> MultFlow(ops, r, p, Circuit.layers[l])]
  BY <1>1, <1>5 DEF Parted
<1>. QED
  BY <1>1, <1>2, <1>3, <1>4, <1>6 DEF MultFlows

\* What all of a program says.
LEMMA ProgramReads ==
  ASSUME NEW p \in Parties
  PROVE  /\ Straight[p] \in Seq(Instruction)
         /\ \A ops, r : OneSided(ops, r) => Projected(Reads(ops, r), Straight[p]) = ProgramFlow(ops, r, p)
<1>1. PICK a \in Seq(Instruction) :
        a = FDMult(p) /\ \A ops, r : OneSided(ops, r) => Projected(Reads(ops, r), a) = FDFlow(ops, r, p)
  <2>1. OneSided({}, 0)
    BY PartyNumbers DEF OneSided
  <2>. QED
    BY <2>1, FDMultReads
<1>2. PICK b \in Seq(Instruction) :
        b = InputProtocol(p) /\ \A ops, r : OneSided(ops, r) => Projected(Reads(ops, r), b) = InputFlow(ops, r, p)
  <2>1. OneSided({}, 0)
    BY PartyNumbers DEF OneSided
  <2>. QED
    BY <2>1, InputReads
<1>3. PICK c \in Seq(Instruction) :
        c = FlattenSeq(LayerPrograms(p)) /\ \A ops, r : Projected(Reads(ops, r), c) = MultFlows(ops, r, p)
  BY LayersRead
<1>4. PICK d \in Seq(Instruction) :
        d = OutputProtocol(p) /\ \A ops, r : OneSided(ops, r) => Projected(Reads(ops, r), d) = OutputFlow(ops, r, p)
  <2>1. OneSided({}, 0)
    BY PartyNumbers DEF OneSided
  <2>. QED
    BY <2>1, OutputReads
<1>5. DOMAIN Circuit.layers = 1 .. Len(Circuit.layers)
  <2>1. PICK U : U = Seq(GateIds)
    OBVIOUS
  <2>2. Circuit.layers \in Seq(U)
    BY <2>1, Lists
  <2>. QED
    BY <2>2
<1>6. Straight[p] = a \o b \o c \o d
  BY <1>1, <1>2, <1>3, <1>4, <1>5 DEF Straight, LayerPrograms
<1>7. PICK e \in Seq(Instruction) :
        /\ e = a \o b \o c
        /\ \A ops, r : Projected(Reads(ops, r), e)
                       = Projected(Reads(ops, r), a) \o Projected(Reads(ops, r), b) \o Projected(Reads(ops, r), c)
  <2>1. \A ops, r : InTurns(ops, r, a, b, c)
    BY ThreeReads
  <2>. QED
    BY <2>1 DEF InTurns
<1>8. /\ e \o d \in Seq(Instruction)
      /\ \A ops, r : Projected(Reads(ops, r), e \o d) = Projected(Reads(ops, r), e) \o Projected(Reads(ops, r), d)
  <2>1. \A ops, r : InTurns(ops, r, e, d, d)
    BY ThreeReads
  <2>. QED
    BY <2>1 DEF InTurns
<1>9. ASSUME NEW ops, NEW r, OneSided(ops, r) PROVE Projected(Reads(ops, r), e \o d) = ProgramFlow(ops, r, p)
  <2>1. Projected(Reads(ops, r), a) = FDFlow(ops, r, p)
    BY <1>1, <1>9
  <2>2. Projected(Reads(ops, r), b) = InputFlow(ops, r, p)
    BY <1>2, <1>9
  <2>3. Projected(Reads(ops, r), c) = MultFlows(ops, r, p)
    BY <1>3
  <2>4. Projected(Reads(ops, r), d) = OutputFlow(ops, r, p)
    BY <1>4, <1>9
  <2>5. Projected(Reads(ops, r), e)
        = Projected(Reads(ops, r), a) \o Projected(Reads(ops, r), b) \o Projected(Reads(ops, r), c)
    BY <1>7
  <2>6. Projected(Reads(ops, r), e \o d) = Projected(Reads(ops, r), e) \o Projected(Reads(ops, r), d)
    BY <1>8
  <2>. QED
    BY <2>1, <2>2, <2>3, <2>4, <2>5, <2>6 DEF ProgramFlow
<1>. QED
  BY <1>6, <1>7, <1>8, <1>9

-----------------------------------------------------------------------------
(* Sender and receiver.                                                      *)

SendOps ==
  {"PrepPartiesSend", "FDMultPartiesSendP1", "InputPartiesSendOwners", "InputOwnersSend", "MultPartiesSendP1",
   "MultP1SendsParties", "OutputPartiesSendOwners"}

SentTo == [p \in Parties |-> Reads(SendOps, p)]
ReceivedFrom == [q \in Parties |-> Reads(ReceiveOps, q)]

\* What passes is tags.
LEMMA FlowType ==
  ASSUME NEW ops, NEW r, NEW op, NEW Q, NEW x \in Seq(GateIds)
  PROVE  Flow(ops, r, op, Q, x) \in Seq(Tag)
<1>1. KindOf(op) \in Kinds
  BY DEF KindOf, Kinds
<1>2. Maps(Marks(KindOf(op)), GateIds, Tag)
  BY <1>1, RowTypes
<1>3. Projected(Marks(KindOf(op)), x) \in Seq(Tag)
  BY <1>2, ProjectedType
<1>4. << >> \in Seq(Tag)
  BY EmptySeq
<1>. QED
  BY <1>3, <1>4 DEF Flow

\* What q's program sends p is what p's asks of q.
LEMMA FlowsMatch ==
  ASSUME NEW p \in Parties, NEW q \in Parties
  PROVE  ProgramFlow(SendOps, p, q) = ProgramFlow(ReceiveOps, q, p)
<1>0. \A u \in Seq(Tag) : u \o << >> = u /\ << >> \o u = u
  BY TagsTogether
<1>e. << >> \in Seq(Tag)
  BY EmptySeq
<1>1. FDFlow(SendOps, p, q) = FDFlow(ReceiveOps, q, p)
  <2>1. 0 \in First
    BY PartyNumbers DEF First
  <2>2. FDFlow(SendOps, p, q) = IF q \notin First /\ p = 0 THEN Projected(Marks("last"), FlatMults) ELSE << >>
    BY <2>1 DEF FDFlow, LastFlow, Flow, SendOps, KindOf
  <2>3. FDFlow(ReceiveOps, q, p) = IF q \notin First /\ p = 0 THEN Projected(Marks("last"), FlatMults) ELSE << >>
    BY <2>1 DEF FDFlow, LastFlow, Flow, ReceiveOps, KindOf
  <2>. QED
    BY <2>2, <2>3
<1>2. InputFlow(SendOps, p, q) = InputFlow(ReceiveOps, q, p)
  <2>1. PICK m \in Seq(Tag) : m = IF q \in First THEN Projected(Marks("mask"), Circuit.inputs[p]) ELSE << >>
    <3>1. Maps(Marks("mask"), GateIds, Tag)
      BY RowTypes DEF Kinds
    <3>2. PICK x \in Seq(GateIds) : x = Circuit.inputs[p]
      BY GateLists
    <3>3. Projected(Marks("mask"), x) \in Seq(Tag)
      BY <3>1, ProjectedType
    <3>. QED
      BY <1>e, <3>2, <3>3
  <2>2. PICK v \in Seq(Tag) : v = IF p \in First THEN Projected(Marks("input"), Circuit.inputs[q]) ELSE << >>
    <3>1. Maps(Marks("input"), GateIds, Tag)
      BY RowTypes DEF Kinds
    <3>2. PICK x \in Seq(GateIds) : x = Circuit.inputs[q]
      BY GateLists
    <3>3. Projected(Marks("input"), x) \in Seq(Tag)
      BY <3>1, ProjectedType
    <3>. QED
      BY <1>e, <3>2, <3>3
  <2>3. InputFlow(SendOps, p, q) = m \o v \o << >>
    <3>1. (IF q \in First THEN Flow(SendOps, p, "InputPartiesSendOwners", Parties, Circuit.inputs[p]) ELSE << >>) = m
      BY <2>1 DEF Flow, SendOps, KindOf
    <3>2. BothFlow(SendOps, p, Circuit.inputs[q]) = v
      BY <2>2 DEF BothFlow, Flow, SendOps, KindOf
    <3>3. (IF q \in First THEN Flow(SendOps, p, "InputPartiesReceive", Parties, Circuit.inputs[p]) ELSE << >>) = << >>
      BY DEF Flow, SendOps
    <3>. QED
      BY <3>1, <3>2, <3>3 DEF InputFlow
  <2>4. InputFlow(ReceiveOps, q, p) = << >> \o m \o v
    <3>1. (IF p \in First THEN Flow(ReceiveOps, q, "InputPartiesSendOwners", Parties, Circuit.inputs[q]) ELSE << >>) = << >>
      BY DEF Flow, ReceiveOps
    <3>2. BothFlow(ReceiveOps, q, Circuit.inputs[p]) = m
      BY <2>1 DEF BothFlow, Flow, ReceiveOps, KindOf
    <3>3. (IF p \in First THEN Flow(ReceiveOps, q, "InputPartiesReceive", Parties, Circuit.inputs[q]) ELSE << >>) = v
      BY <2>2 DEF Flow, ReceiveOps, KindOf
    <3>. QED
      BY <3>1, <3>2, <3>3 DEF InputFlow
  <2>5. m \o v \o << >> = m \o v /\ << >> \o m \o v = m \o v
    <3>1. m \o v \in Seq(Tag)
      BY TagsTogether
    <3>. QED
      BY <1>0, <3>1
  <2>. QED
    BY <2>3, <2>4, <2>5
<1>3. ASSUME NEW x \in Seq(GateIds) PROVE MultFlow(SendOps, p, q, x) = MultFlow(ReceiveOps, q, p, x)
  <2>0. 0 \in First
    BY PartyNumbers DEF First
  <2>1. PICK m \in Seq(Tag) : m = Projected(Marks("product"), x)
    <3>1. Maps(Marks("product"), GateIds, Tag)
      BY RowTypes DEF Kinds
    <3>. QED
      BY <3>1, ProjectedType
  <2>2. PICK v \in Seq(Tag) : v = Projected(Marks("opened"), x)
    <3>1. Maps(Marks("opened"), GateIds, Tag)
      BY RowTypes DEF Kinds
    <3>. QED
      BY <3>1, ProjectedType
  <2>3. PICK m1 \in Seq(Tag), v1 \in Seq(Tag) :
          m1 = (IF q \in First /\ p = 0 THEN m ELSE << >>) /\ v1 = (IF q = 0 /\ p \in First THEN v ELSE << >>)
    BY <1>e
  <2>4. MultFlow(SendOps, p, q, x) = m1 \o v1
    <3>1. /\ Flow(SendOps, p, "MultPartiesSendP1", {0}, x) = (IF p = 0 THEN m ELSE << >>)
          /\ Flow(SendOps, p, "MultP1Receives", First, x) = << >>
          /\ Flow(SendOps, p, "MultP1SendsParties", First, x) = (IF p \in First THEN v ELSE << >>)
          /\ Flow(SendOps, p, "MultPartiesReceive", {0}, x) = << >>
      BY <2>1, <2>2 DEF Flow, SendOps, KindOf
    <3>2. MultFlow(SendOps, p, q, x) =
            IF q \notin First THEN << >>
            ELSE (IF p = 0 THEN m ELSE << >>)
                 \o (IF q # 0 THEN << >> ELSE << >> \o (IF p \in First THEN v ELSE << >>)) \o << >>
      BY <3>1 DEF MultFlow
    <3>3. CASE q \notin First
      BY <1>0, <1>e, <2>0, <2>3, <3>2, <3>3
    <3>4. CASE q \in First
      <4>1. m1 = (IF p = 0 THEN m ELSE << >>)
        BY <2>3, <3>4
      <4>2. v1 = (IF q # 0 THEN << >> ELSE << >> \o (IF p \in First THEN v ELSE << >>))
        BY <1>0, <1>e, <2>3
      <4>3. m1 \o v1 \o << >> = m1 \o v1
        <5>1. m1 \o v1 \in Seq(Tag)
          BY TagsTogether
        <5>. QED
          BY <1>0, <5>1
      <4>. QED
        BY <3>2, <3>4, <4>1, <4>2, <4>3
    <3>. QED
      BY <3>3, <3>4
  <2>5. MultFlow(ReceiveOps, q, p, x) = m1 \o v1
    <3>1. /\ Flow(ReceiveOps, q, "MultPartiesSendP1", {0}, x) = << >>
          /\ Flow(ReceiveOps, q, "MultP1Receives", First, x) = (IF q \in First THEN m ELSE << >>)
          /\ Flow(ReceiveOps, q, "MultP1SendsParties", First, x) = << >>
          /\ Flow(ReceiveOps, q, "MultPartiesReceive", {0}, x) = (IF q = 0 THEN v ELSE << >>)
      BY <2>1, <2>2 DEF Flow, ReceiveOps, KindOf
    <3>2. MultFlow(ReceiveOps, q, p, x) =
            IF p \notin First THEN << >>
            ELSE << >> \o (IF p # 0 THEN << >> ELSE (IF q \in First THEN m ELSE << >>) \o << >>)
                 \o (IF q = 0 THEN v ELSE << >>)
      BY <3>1 DEF MultFlow
    <3>3. CASE p \notin First
      BY <1>0, <1>e, <2>0, <2>3, <3>2, <3>3
    <3>4. CASE p \in First
      <4>1. m1 = (IF p # 0 THEN << >> ELSE (IF q \in First THEN m ELSE << >>) \o << >>)
        BY <1>0, <1>e, <2>3
      <4>2. v1 = (IF q = 0 THEN v ELSE << >>)
        BY <2>3, <3>4
      <4>3. << >> \o m1 = m1
        BY <1>0
      <4>. QED
        BY <3>2, <3>4, <4>1, <4>2, <4>3
    <3>. QED
      BY <3>3, <3>4
  <2>. QED
    BY <2>4, <2>5
<1>4. MultFlows(SendOps, p, q) = MultFlows(ReceiveOps, q, p)
  <2>1. \A l \in 1 .. Len(Circuit.layers) :
          MultFlow(SendOps, p, q, Circuit.layers[l]) = MultFlow(ReceiveOps, q, p, Circuit.layers[l])
    BY <1>3, LayersType
  <2>2. [l \in 1 .. Len(Circuit.layers) |-> MultFlow(SendOps, p, q, Circuit.layers[l])]
        = [l \in 1 .. Len(Circuit.layers) |-> MultFlow(ReceiveOps, q, p, Circuit.layers[l])]
    BY <2>1
  <2>. QED
    BY <2>2 DEF MultFlows
<1>5. OutputFlow(SendOps, p, q) = OutputFlow(ReceiveOps, q, p)
  <2>1. PICK m \in Seq(Tag) : m = IF q \in First THEN Projected(Marks("output"), Circuit.outputs[p]) ELSE << >>
    <3>1. Maps(Marks("output"), GateIds, Tag)
      BY RowTypes DEF Kinds
    <3>2. PICK x \in Seq(GateIds) : x = Circuit.outputs[p]
      BY GateLists
    <3>3. Projected(Marks("output"), x) \in Seq(Tag)
      BY <3>1, ProjectedType
    <3>. QED
      BY <1>e, <3>2, <3>3
  <2>2. OutputFlow(SendOps, p, q) = m \o << >>
    <3>1. (IF q \in First THEN Flow(SendOps, p, "OutputPartiesSendOwners", Parties, Circuit.outputs[p]) ELSE << >>) = m
      BY <2>1 DEF Flow, SendOps, KindOf
    <3>2. Flow(SendOps, p, "OutputOwnersReceive", First, Circuit.outputs[q]) = << >>
      BY DEF Flow, SendOps
    <3>. QED
      BY <3>1, <3>2 DEF OutputFlow
  <2>3. OutputFlow(ReceiveOps, q, p) = << >> \o m
    <3>1. (IF p \in First THEN Flow(ReceiveOps, q, "OutputPartiesSendOwners", Parties, Circuit.outputs[q]) ELSE << >>) = << >>
      BY DEF Flow, ReceiveOps
    <3>2. Flow(ReceiveOps, q, "OutputOwnersReceive", First, Circuit.outputs[p]) = m
      BY <2>1 DEF Flow, ReceiveOps, KindOf
    <3>. QED
      BY <3>1, <3>2 DEF OutputFlow
  <2>. QED
    BY <1>0, <2>2, <2>3
<1>. QED
  BY <1>1, <1>2, <1>4, <1>5 DEF ProgramFlow

-----------------------------------------------------------------------------
(* A thread that goes on past instructions it has nothing to do with.        *)

\* What is ahead, from one place up to another, and from there on.
Split(f, x, n, m, D, T) ==
  /\ SubSeq(x, n, m - 1) \in Seq(D) /\ Len(SubSeq(x, n, m - 1)) = m - n
  /\ \A k \in 1 .. m - n : SubSeq(x, n, m - 1)[k] = x[n + k - 1]
  /\ Projected(f, SubSeq(x, n, m - 1)) \in Seq(T) /\ Ahead(f, x, m) \in Seq(T)
  /\ Ahead(f, x, n) = Projected(f, SubSeq(x, n, m - 1)) \o Ahead(f, x, m)

LEMMA AheadSplit ==
  ASSUME NEW D, NEW T, NEW f, Maps(f, D, T), NEW x \in Seq(D),
         NEW m \in 1 .. Len(x) + 1, NEW n \in 1 .. m
  PROVE  Split(f, x, n, m, D, T)
<1>1. PICK l \in Nat : l = Len(x)
  OBVIOUS
<1>2. \A i \in 1 .. l : x[i] \in D
  BY <1>1
<1>3. /\ SubSeq(x, n, m - 1) \in Seq(D) /\ Len(SubSeq(x, n, m - 1)) = m - n
      /\ \A k \in 1 .. m - n : SubSeq(x, n, m - 1)[k] = x[n + k - 1]
  <2>1. CASE n = m
    <3>1. SubSeq(x, n, m - 1) = << >>
      BY <2>1, SubSeqEmpty
    <3>. QED
      BY <2>1, <3>1, EmptySeq
  <2>2. CASE n < m
    <3>1. n \in Int /\ m - 1 \in Int /\ n <= m - 1 /\ \A i \in n .. m - 1 : x[i] \in D
      BY <1>1, <1>2, <2>2
    <3>. QED
      BY <3>1, SubSeqProperties
  <2>. QED
    BY <2>1, <2>2
<1>4. /\ SubSeq(x, m, l) \in Seq(D) /\ Len(SubSeq(x, m, l)) = l - m + 1
      /\ \A k \in 1 .. l - m + 1 : SubSeq(x, m, l)[k] = x[m + k - 1]
  <2>1. CASE m = l + 1
    <3>1. SubSeq(x, m, l) = << >>
      BY <1>1, <2>1, SubSeqEmpty
    <3>. QED
      BY <1>1, <2>1, <3>1, EmptySeq
  <2>2. CASE m <= l
    <3>1. m \in Int /\ l \in Int /\ m <= l /\ \A i \in m .. l : x[i] \in D
      BY <1>1, <1>2, <2>2
    <3>. QED
      BY <3>1, SubSeqProperties
  <2>. QED
    BY <1>1, <2>1, <2>2
<1>5. /\ SubSeq(x, n, l) \in Seq(D) /\ Len(SubSeq(x, n, l)) = l - n + 1
      /\ \A k \in 1 .. l - n + 1 : SubSeq(x, n, l)[k] = x[n + k - 1]
  <2>1. CASE n = l + 1
    <3>1. SubSeq(x, n, l) = << >>
      BY <1>1, <2>1, SubSeqEmpty
    <3>. QED
      BY <1>1, <2>1, <3>1, EmptySeq
  <2>2. CASE n <= l
    <3>1. n \in Int /\ l \in Int /\ n <= l /\ \A i \in n .. l : x[i] \in D
      BY <1>1, <1>2, <2>2
    <3>. QED
      BY <3>1, SubSeqProperties
  <2>. QED
    BY <1>1, <2>1, <2>2
<1>6. PICK a, b, c \in Seq(D) : a = SubSeq(x, n, m - 1) /\ b = SubSeq(x, m, l) /\ c = SubSeq(x, n, l)
  BY <1>3, <1>4, <1>5
<1>7. c = a \o b
  <2>0. m - n \in Nat /\ l - m + 1 \in Nat /\ (m - n) + (l - m + 1) = l - n + 1
    BY <1>1
  <2>1. PICK u \in Nat, v \in Nat : u = m - n /\ v = l - m + 1 /\ u + v = l - n + 1
    BY <2>0
  <2>2. /\ Len(a) = u /\ \A k \in 1 .. u : a[k] = x[n + k - 1]
        /\ Len(b) = v /\ \A k \in 1 .. v : b[k] = x[m + k - 1]
        /\ Len(c) = u + v /\ \A k \in 1 .. u + v : c[k] = x[n + k - 1]
    BY <1>3, <1>4, <1>5, <1>6, <2>1
  <2>3. /\ a \o b \in Seq(D) /\ Len(a \o b) = u + v
        /\ \A k \in 1 .. u + v : (a \o b)[k] = IF k <= u THEN a[k] ELSE b[k - u]
    <3>1. /\ a \o b \in Seq(D) /\ Len(a \o b) = Len(a) + Len(b)
          /\ \A k \in 1 .. Len(a) + Len(b) : (a \o b)[k] = IF k <= Len(a) THEN a[k] ELSE b[k - Len(a)]
      BY ConcatProperties
    <3>. QED
      BY <2>2, <3>1
  <2>4. ASSUME NEW k \in 1 .. u + v PROVE c[k] = (a \o b)[k]
    <3>0. k \in Int
      BY <2>1
    <3>1. CASE k <= u
      <4>1. k \in 1 .. u
        BY <3>1
      <4>2. a[k] = x[n + k - 1] /\ c[k] = x[n + k - 1]
        BY <2>2, <4>1
      <4>. QED
        BY <2>3, <3>1, <4>2
    <3>2. CASE k > u
      <4>0. ~(k <= u)
        BY <2>1, <3>0, <3>2
      <4>1. k - u \in 1 .. v /\ m + (k - u) - 1 = n + k - 1
        BY <2>1, <3>2
      <4>2. b[k - u] = x[n + k - 1]
        BY <2>2, <4>1
      <4>. QED
        BY <2>2, <2>3, <4>0, <4>2
    <3>3. k <= u \/ k > u
      BY <3>0
    <3>. QED
      BY <3>1, <3>2, <3>3
  <2>. QED
    BY <2>2, <2>3, <2>4, SeqEqual
<1>8. Projected(f, a \o b) = Projected(f, a) \o Projected(f, b)
  BY ProjectedConcat, SMTT(60)
<1>9. Projected(f, a) \in Seq(T) /\ Projected(f, b) \in Seq(T)
  BY ProjectedType
<1>. QED
  BY <1>1, <1>3, <1>6, <1>7, <1>8, <1>9 DEF Ahead, Split

\* f makes nothing of what is between two places of x.
Passes(f, x, n, m) ==
  m \in 1 .. Len(x) + 1 /\ n \in 1 .. m /\ \A k \in n .. m - 1 : f[x[k]] = << >>

\* Then as much is ahead at one as at the other.
LEMMA AheadPassing ==
  ASSUME NEW D, NEW T, NEW f, Maps(f, D, T), NEW x \in Seq(D), NEW n, NEW m, Passes(f, x, n, m)
  PROVE  Ahead(f, x, n) = Ahead(f, x, m)
<1>1. m \in 1 .. Len(x) + 1 /\ n \in 1 .. m /\ m \in Int /\ n \in Int
  BY DEF Passes
<1>2. PICK s \in Seq(D) : /\ s = SubSeq(x, n, m - 1) /\ Len(s) = m - n
                          /\ \A k \in 1 .. m - n : s[k] = x[n + k - 1]
                          /\ Ahead(f, x, n) = Projected(f, s) \o Ahead(f, x, m)
  <2>1. Split(f, x, n, m, D, T)
    BY <1>1, AheadSplit
  <2>. QED
    BY <2>1 DEF Split
<1>3. \A k \in 1 .. Len(s) : f[s[k]] = << >>
  <2>1. ASSUME NEW k \in 1 .. m - n PROVE f[s[k]] = << >>
    <3>1. n + k - 1 \in n .. m - 1
      BY <1>1
    <3>. QED
      BY <1>2, <3>1 DEF Passes
  <2>. QED
    BY <1>2, <2>1
<1>4. Projected(f, s) = << >>
  BY <1>3, ProjectedNothing
<1>5. Ahead(f, x, m) \in Seq(T)
  <2>1. Split(f, x, n, m, D, T)
    BY <1>1, AheadSplit
  <2>. QED
    BY <2>1 DEF Split
<1>. QED
  BY <1>2, <1>4, <1>5, TagsTogether

\* Less is ahead further on.
LEMMA AheadShrinks ==
  ASSUME NEW D, NEW T, NEW f, Maps(f, D, T), NEW x \in Seq(D),
         NEW m \in 1 .. Len(x) + 1, NEW n \in 1 .. m
  PROVE  /\ Len(Ahead(f, x, m)) \in Nat /\ Len(Ahead(f, x, n)) \in Nat
         /\ Len(Ahead(f, x, m)) <= Len(Ahead(f, x, n))
<1>1. PICK u, v \in Seq(T) : v = Ahead(f, x, m) /\ Ahead(f, x, n) = u \o v
  <2>1. Split(f, x, n, m, D, T)
    BY AheadSplit
  <2>. QED
    BY <2>1 DEF Split
<1>2. Len(u \o v) = Len(u) + Len(v) /\ Len(u) \in Nat /\ Len(v) \in Nat
  OBVIOUS
<1>. QED
  BY <1>1, <1>2

\* Places that are further on, with nothing for the channels in between.
SkipsOver(Q, fs, prog, pos, pos2) ==
  \A q \in Q : \A r \in Q : Passes(fs[r], prog[q], pos[q], pos2[q])

\* Nothing has changed then between the parties.
LEMMA SkippingMeets ==
  ASSUME NEW Q, NEW D, NEW T, NEW snd, NEW rcv, NEW prog, NEW sp, NEW rp, NEW ch,
         Meeting(Q, D, T, snd, rcv, prog, sp, rp, ch), NEW sp2, NEW rp2,
         SkipsOver(Q, snd, prog, sp, sp2), SkipsOver(Q, rcv, prog, rp, rp2)
  PROVE  Meeting(Q, D, T, snd, rcv, prog, sp2, rp2, ch)
<1>1. ASSUME NEW p \in Q PROVE sp2[p] \in 1 .. Len(prog[p]) + 1 /\ rp2[p] \in 1 .. Len(prog[p]) + 1
  BY DEF SkipsOver, Passes
<1>2. ASSUME NEW p \in Q, NEW q \in Q PROVE Paired(T, snd, rcv, prog, sp2, rp2, ch, p, q)
  <2>1. PICK f, g, x, y, c : f = snd[p] /\ g = rcv[q] /\ x = prog[q] /\ y = prog[p] /\ c = ch[q][p]
    OBVIOUS
  <2>2. /\ Maps(f, D, T) /\ Maps(g, D, T) /\ x \in Seq(D) /\ y \in Seq(D)
        /\ OnItsWay(c, T) /\ Matches(c, f, x, sp[q], g, y, rp[p])
    BY <2>1, OfMeeting
  <2>3. Passes(f, x, sp[q], sp2[q]) /\ Passes(g, y, rp[p], rp2[p])
    BY <2>1 DEF SkipsOver
  <2>4. Ahead(f, x, sp[q]) = Ahead(f, x, sp2[q])
    BY <2>2, <2>3, AheadPassing
  <2>5. Ahead(g, y, rp[p]) = Ahead(g, y, rp2[p])
    BY <2>2, <2>3, AheadPassing
  <2>6. Matches(c, f, x, sp2[q], g, y, rp2[p])
    BY <2>2, <2>4, <2>5 DEF Matches
  <2>. QED
    BY <2>1, <2>2, <2>6 DEF Paired
<1>3. Traders(Q, D, T, snd, rcv, prog)
  BY DEF Meeting
<1>. QED
  BY <1>1, <1>2, <1>3 DEF Meeting

-----------------------------------------------------------------------------
(* The phases of a program, one behind the other: a party's line.            *)

\* What started threads are told.
ThreadOps == {"PrepPartiesSend", "MultPartiesSendP1", "MultP1SendsParties"}

Only(op) == { i \in Instruction : i.op = op }

\* Beside a thread that sends the main one does nothing but receive.
Phase ==
  { f \in [thread : Seq(Instruction), main : Seq(Instruction)] :
      /\ \A j \in 1 .. Len(f.thread) : f.thread[j].op \in ThreadOps
      /\ f.thread # << >> => \A j \in 1 .. Len(f.main) : f.main[j].op \in ReceiveOps }

\* In the line what the thread is told comes before what the main one is.
Row == [f \in Phase |-> f.thread \o f.main]
Line == [p \in Parties |-> Projected(Row, Program[p])]

\* Instructions of one kind.
LEMMA OnlyRows ==
  ASSUME NEW x \in Seq(GateIds)
  PROVE  /\ \A op \in WithP1 : Projected(P1Row(op), x) \in Seq(Only(op))
         /\ \A op \in WithAny : Projected(FirstRow(op), x) \in Seq(Only(op))
<1>1. ASSUME NEW op \in WithP1 PROVE Projected(P1Row(op), x) \in Seq(Only(op))
  <2>1. PICK I : I = Only(op)
    OBVIOUS
  <2>2. ASSUME NEW g \in GateIds PROVE << Told(op, g, 0) >> \in Seq(I)
    <3>1. Told(op, g, 0) \in I
      BY <2>1, GateInstructions DEF Only, Told
    <3>. QED
      BY <3>1, TagAlone
  <2>3. Maps(P1Row(op), GateIds, I)
    BY <2>2 DEF P1Row, Maps
  <2>4. \A s \in Seq(GateIds) : Projected(P1Row(op), s) \in Seq(I)
    BY <2>3, ProjectedType
  <2>. QED
    BY <2>1, <2>4
<1>2. ASSUME NEW op \in WithAny PROVE Projected(FirstRow(op), x) \in Seq(Only(op))
  <2>1. PICK I : I = Only(op)
    OBVIOUS
  <2>2. ASSUME NEW g \in GateIds PROVE WithFirst(op, g) \in Seq(I)
    <3>1. PICK n \in Nat : n = Threshold + 1
      BY PartyNumbers
    <3>2. ASSUME NEW i \in 1 .. n PROVE Told(op, g, i - 1) \in I
      <4>1. i - 1 \in Parties
        BY <3>1, PartyNumbers
      <4>2. Told(op, g, i - 1) \in Instruction
        BY <4>1, GateInstructions
      <4>. QED
        BY <2>1, <4>2 DEF Only, Told
    <3>3. [i \in 1 .. n |-> Told(op, g, i - 1)] \in [1 .. n -> I]
      BY <3>2
    <3>4. [i \in 1 .. n |-> Told(op, g, i - 1)] \in Seq(I)
      BY <3>3
    <3>5. WithFirst(op, g) = [i \in 1 .. n |-> Told(op, g, i - 1)]
      BY <3>1 DEF WithFirst, Told
    <3>. QED
      BY <3>4, <3>5
  <2>3. Maps(FirstRow(op), GateIds, I)
    BY <2>2 DEF FirstRow, Maps
  <2>4. \A s \in Seq(GateIds) : Projected(FirstRow(op), s) \in Seq(I)
    BY <2>3, ProjectedType
  <2>. QED
    BY <2>1, <2>4
<1>. QED
  BY <1>1, <1>2

\* What makes a phase.
LEMMA Phases ==
  /\ \A m \in Seq(Instruction) : Alone(m) \in Phase /\ Row[Alone(m)] = m
  /\ \A t, m \in Seq(Instruction) :
       (\E op \in ThreadOps : t \in Seq(Only(op))) /\ (\E op \in ReceiveOps : m \in Seq(Only(op)))
       => Beside(t, m) \in Phase /\ Row[Beside(t, m)] = t \o m
<1>1. ASSUME NEW m \in Seq(Instruction) PROVE Alone(m) \in Phase /\ Row[Alone(m)] = m
  <2>0. << >> \in Seq(Instruction)
    BY EmptySeq
  <2>1. Alone(m) = [thread |-> << >>, main |-> m]
    BY DEF Alone, Beside
  <2>2. Alone(m) \in [thread : Seq(Instruction), main : Seq(Instruction)]
    BY <2>0, <2>1
  <2>3. Alone(m).thread = << >> /\ Alone(m).main = m
    BY <2>1
  <2>4. \A j \in 1 .. Len(<< >>) : FALSE
    OBVIOUS
  <2>5. Alone(m) \in Phase
    BY <2>2, <2>3, <2>4 DEF Phase
  <2>6. << >> \o m = m
    BY TagsTogether
  <2>. QED
    BY <2>3, <2>5, <2>6 DEF Row
<1>2. ASSUME NEW t \in Seq(Instruction), NEW m \in Seq(Instruction),
             NEW op \in ThreadOps, t \in Seq(Only(op)), NEW o \in ReceiveOps, m \in Seq(Only(o))
      PROVE  Beside(t, m) \in Phase /\ Row[Beside(t, m)] = t \o m
  <2>1. Beside(t, m) = [thread |-> t, main |-> m]
    BY DEF Beside
  <2>2. Beside(t, m) \in [thread : Seq(Instruction), main : Seq(Instruction)]
    BY <2>1
  <2>3. Beside(t, m).thread = t /\ Beside(t, m).main = m
    BY <2>1
  <2>4. ASSUME NEW j \in 1 .. Len(t) PROVE t[j].op \in ThreadOps
    <3>1. PICK I : I = Only(op)
      OBVIOUS
    <3>2. t[j] \in I
      BY <1>2, <3>1
    <3>. QED
      BY <3>1, <3>2 DEF Only
  <2>5. ASSUME NEW j \in 1 .. Len(m) PROVE m[j].op \in ReceiveOps
    <3>1. PICK I : I = Only(o)
      OBVIOUS
    <3>2. m[j] \in I
      BY <1>2, <3>1
    <3>. QED
      BY <3>1, <3>2 DEF Only
  <2>6. Beside(t, m) \in Phase
    BY <2>2, <2>3, <2>4, <2>5 DEF Phase
  <2>. QED
    BY <2>3, <2>6 DEF Row
<1>. QED
  BY <1>1, <1>2

\* Rows are instructions.
LEMMA RowMaps == Maps(Row, Phase, Instruction)
<1>1. PICK I : I = Instruction
  OBVIOUS
<1>2. ASSUME NEW f \in Phase PROVE f.thread \o f.main \in Seq(I)
  <2>1. f.thread \in Seq(I) /\ f.main \in Seq(I)
    BY <1>1 DEF Phase
  <2>. QED
    BY <2>1, ConcatProperties
<1>. QED
  BY <1>1, <1>2 DEF Row, Maps

\* There are as many blocks as there are, each of one kind or the other.
LEMMA BlocksType == Blocks \in Seq({"random", "double"})
<1>1. ASSUME NEW n \in Nat PROVE BlocksOf(n) \in Nat
  <2>1. PICK m \in Nat \ {0} : m = Threshold + 1
    BY ThresholdAssumption
  <2>2. PICK x \in Nat : x = n + Threshold
    BY ThresholdAssumption
  <2>3. x \div m \in Nat
    OBVIOUS
  <2>. QED
    BY <2>1, <2>2, <2>3 DEF BlocksOf
<1>2. Len(FlatInputs) \in Nat /\ Len(FlatMults) \in Nat
  <2>1. ListsOf(Circuit.inputs)
    BY Lists DEF ListsOf
  <2>2. \A ops, r : \A op \in WithAny : \A lists : ListsOf(lists) => ByOwner(lists) \in Seq(Owned)
    BY OwnerRowFlows
  <2>3. FlatInputs \in Seq(Owned)
    BY <2>1, <2>2 DEF FlatInputs, WithAny
  <2>4. FlatMults \in Seq(GateIds)
    BY Lists
  <2>. QED
    BY <2>3, <2>4
<1>3. PICK m, n \in Nat : m = BlocksOf(Len(FlatInputs)) /\ n = BlocksOf(Len(FlatMults))
  BY <1>1, <1>2
<1>4. [i \in 1 .. m |-> "random"] \o [i \in 1 .. n |-> "double"] \in Seq({"random", "double"})
  <2>1. PICK K : K = {"random", "double"}
    OBVIOUS
  <2>2. [i \in 1 .. m |-> "random"] \in Seq(K) /\ [i \in 1 .. n |-> "double"] \in Seq(K)
    BY <2>1
  <2>3. \A a, b \in Seq(K) : a \o b \in Seq(K)
    BY ConcatProperties
  <2>. QED
    BY <2>1, <2>2, <2>3
<1>. QED
  BY <1>3, <1>4 DEF Blocks

\* The preparation, and what is told of one kind.
Preps == Prep("PrepPartiesSend") \o Prep("PrepPartiesReceive")

LEMMA OnlyType ==
  ASSUME NEW op
  PROVE  << >> \in Seq(Only(op)) /\ \A s \in Seq(Only(op)) : s \in Seq(Instruction)
<1>1. PICK I, O : I = Instruction /\ O = Only(op)
  OBVIOUS
<1>2. \A i \in O : i \in I
  BY <1>1 DEF Only
<1>3. << >> \in Seq(O) /\ \A s \in Seq(O) : s \in Seq(I)
  BY <1>2
<1>. QED
  BY <1>1, <1>3

LEMMA Prepared ==
  ASSUME NEW op \in PrepOps
  PROVE  /\ Len(Blocks) \in Nat
         /\ Prep(op) \in Seq(Only(op)) /\ Prep(op) \in Seq(Instruction) /\ Len(Prep(op)) = Len(Blocks)
         /\ \A b \in 1 .. Len(Blocks) : Prep(op)[b] = [op |-> op, block |-> b] /\ Prep(op)[b] \in Instruction
<1>1. PICK n \in Nat : n = Len(Blocks) /\ DOMAIN Blocks = 1 .. n
  BY BlocksType
<1>2. PICK O : O = Only(op)
  OBVIOUS
<1>3. ASSUME NEW b \in 1 .. n PROVE [op |-> op, block |-> b] \in Instruction /\ [op |-> op, block |-> b] \in O
  BY <1>1, <1>2 DEF Only, Instruction
<1>4. PICK s : s = [b \in 1 .. n |-> [op |-> op, block |-> b]]
  OBVIOUS
<1>5. s \in Seq(O) /\ Len(s) = n /\ \A b \in 1 .. n : s[b] = [op |-> op, block |-> b]
  BY <1>3, <1>4
<1>6. s = Prep(op)
  BY <1>1, <1>4 DEF Prep
<1>. QED
  BY <1>1, <1>2, <1>3, <1>5, <1>6, OnlyType

\* One phase, or two.
LEMMA RowsOfTwo ==
  ASSUME NEW f \in Phase, NEW g \in Phase
  PROVE  /\ << f >> \in Seq(Phase) /\ Projected(Row, << f >>) = Row[f]
         /\ << f, g >> \in Seq(Phase) /\ Projected(Row, << f, g >>) = Row[f] \o Row[g]
<1>1. PICK F : F = Phase
  OBVIOUS
<1>2. PICK a, b \in Seq(F) : a = << f >> /\ b = << f, g >>
  <2>1. f \in F /\ g \in F
    BY <1>1
  <2>2. << f >> \in Seq(F) /\ << f, g >> \in Seq(F)
    BY <2>1
  <2>. QED
    BY <2>2
<1>3. Row[f] \in Seq(Instruction) /\ Row[g] \in Seq(Instruction)
  BY RowMaps DEF Maps
<1>4. OnlyAt(Row, a, 1, Row[f]) /\ OnlyAtTwo(Row, b, 1, Row[f], Row[g])
  BY <1>2 DEF OnlyAt, OnlyAtTwo
<1>5. /\ \A s \in Seq(Phase), k \in Nat, t \in Seq(Instruction) : OnlyAt(Row, s, k, t) => Projected(Row, s) = t
      /\ \A s \in Seq(Phase), k \in Nat, t, u \in Seq(Instruction) :
           OnlyAtTwo(Row, s, k, t, u) => Projected(Row, s) = t \o u
  BY RowMaps, ProjectedFew
<1>6. Projected(Row, a) = Row[f] /\ Projected(Row, b) = Row[f] \o Row[g]
  BY <1>1, <1>2, <1>3, <1>4, <1>5
<1>. QED
  BY <1>1, <1>2, <1>6

\* What is told gate by gate.
LEMMA EachRow ==
  ASSUME NEW op, NEW x \in Seq(GateIds)
  PROVE  /\ Projected(P1Row(op), x) = FlattenSeq([i \in DOMAIN x |-> Single(op, x[i], 0)])
         /\ Projected(FirstRow(op), x) = FlattenSeq([i \in DOMAIN x |-> WithFirst(op, x[i])])
<1>1. [i \in DOMAIN x |-> P1Row(op)[x[i]]] = [i \in DOMAIN x |-> Single(op, x[i], 0)]
  BY DEF P1Row, Single, Told
<1>2. [i \in DOMAIN x |-> FirstRow(op)[x[i]]] = [i \in DOMAIN x |-> WithFirst(op, x[i])]
  BY DEF FirstRow
<1>3. Projected(P1Row(op), x) = FlattenSeq([i \in DOMAIN x |-> P1Row(op)[x[i]]])
  BY RowsOf
<1>4. Projected(FirstRow(op), x) = FlattenSeq([i \in DOMAIN x |-> FirstRow(op)[x[i]]])
  BY RowsOf
<1>. QED
  BY <1>1, <1>2, <1>3, <1>4

\* The two phases of a layer, and the layer in one line.
LEMMA LayerInLine ==
  ASSUME NEW p \in Parties, NEW x \in Seq(GateIds)
  PROVE  MultProtocol(p, x) \in Seq(Phase) /\ Projected(Row, MultProtocol(p, x)) = StraightMult(p, x)
<1>1. CASE p \notin First
  <2>1. MultProtocol(p, x) = << >> /\ StraightMult(p, x) = << >>
    BY <1>1 DEF MultProtocol, StraightMult, IsFirst
  <2>2. Projected(Row, << >>) = << >> /\ << >> \in Seq(Phase)
    BY RowMaps, NothingOfNothing, EmptySeq
  <2>. QED
    BY <2>1, <2>2
<1>2. CASE p \in First
  <2>1. PICK s, v, r, o :
          /\ s = FlattenSeq([i \in DOMAIN x |-> Single("MultPartiesSendP1", x[i], 0)])
          /\ v = FlattenSeq([i \in DOMAIN x |-> Single("MultPartiesReceive", x[i], 0)])
          /\ r = FlattenSeq([i \in DOMAIN x |-> WithFirst("MultP1Receives", x[i])])
          /\ o = FlattenSeq([i \in DOMAIN x |-> WithFirst("MultP1SendsParties", x[i])])
    OBVIOUS
  <2>2. /\ MultProtocol(p, x) = << Beside(s, IF p = 0 THEN r ELSE << >>), Beside(IF p = 0 THEN o ELSE << >>, v) >>
        /\ StraightMult(p, x) = s \o (IF p # 0 THEN << >> ELSE r \o o) \o v
    BY <1>2, <2>1 DEF MultProtocol, StraightMult, P1Receives, P1Sends, Each, IsFirst
  <2>4. /\ s = Projected(P1Row("MultPartiesSendP1"), x) /\ v = Projected(P1Row("MultPartiesReceive"), x)
        /\ r = Projected(FirstRow("MultP1Receives"), x) /\ o = Projected(FirstRow("MultP1SendsParties"), x)
    BY <2>1, EachRow
  <2>5. /\ s \in Seq(Only("MultPartiesSendP1")) /\ v \in Seq(Only("MultPartiesReceive"))
        /\ r \in Seq(Only("MultP1Receives")) /\ o \in Seq(Only("MultP1SendsParties"))
    BY <2>4, OnlyRows DEF WithP1, WithAny
  <2>6. PICK c \in Seq(Only("MultP1Receives")) : c = IF p = 0 THEN r ELSE << >>
    BY <2>5, OnlyType
  <2>7. PICK d \in Seq(Only("MultP1SendsParties")) : d = IF p = 0 THEN o ELSE << >>
    BY <2>5, OnlyType
  <2>8. MultProtocol(p, x) = << Beside(s, c), Beside(d, v) >>
    BY <2>2, <2>6, <2>7
  <2>9. StraightMult(p, x) = s \o (IF p # 0 THEN << >> ELSE r \o o) \o v
    BY <2>2
  <2>10. /\ s \in Seq(Instruction) /\ v \in Seq(Instruction) /\ r \in Seq(Instruction) /\ o \in Seq(Instruction)
         /\ c \in Seq(Instruction) /\ d \in Seq(Instruction)
    BY <2>5, OnlyType
  <2>11. /\ Beside(s, c) \in Phase /\ Row[Beside(s, c)] = s \o c
         /\ Beside(d, v) \in Phase /\ Row[Beside(d, v)] = d \o v
    BY <2>5, <2>6, <2>7, <2>10, Phases DEF ThreadOps, ReceiveOps
  <2>12. MultProtocol(p, x) \in Seq(Phase) /\ Projected(Row, MultProtocol(p, x)) = (s \o c) \o (d \o v)
    BY <2>8, <2>11, RowsOfTwo
  <2>14. (s \o c) \o (d \o v) = (s \o (c \o d)) \o v
    <3>1. \A a, b \in Seq(Instruction) : a \o b \in Seq(Instruction)
      BY TagsTogether
    <3>2. \A a, b, e \in Seq(Instruction) : a \o (b \o e) = (a \o b) \o e
      BY TagsTogether
    <3>3. PICK sc \in Seq(Instruction) : sc = s \o c
      BY <2>10, <3>1, Zenon
    <3>4. sc \o (d \o v) = (sc \o d) \o v
      BY <2>10, <3>2, ZenonT(60)
    <3>5. s \o (c \o d) = (s \o c) \o d
      <4>1. s \in Seq(Instruction) /\ c \in Seq(Instruction) /\ d \in Seq(Instruction)
        BY <2>10
      <4>2. \A b, e \in Seq(Instruction) : s \o (b \o e) = (s \o b) \o e
        BY <4>1, <3>2, Zenon
      <4>. QED
        BY <4>1, <4>2, Zenon
    <3>6. s \o (c \o d) = sc \o d
      BY <3>3, <3>5, Zenon
    <3>. QED
      BY <3>3, <3>4, <3>6, Zenon
  <2>15. c \o d = IF p # 0 THEN << >> ELSE r \o o
    <3>1. << >> \o << >> = << >>
      BY TagsTogether
    <3>. QED
      BY <2>6, <2>7, <3>1
  <2>. QED
    BY <2>9, <2>12, <2>14, <2>15
<1>. QED
  BY <1>1, <1>2

\* Layer after layer.
LEMMA LayersInLine ==
  ASSUME NEW p \in Parties, NEW m, m = [l \in DOMAIN Circuit.layers |-> MultProtocol(p, Circuit.layers[l])]
  PROVE  FlattenSeq(m) \in Seq(Phase) /\ Projected(Row, FlattenSeq(m)) = FlattenSeq(LayerPrograms(p))
<1>1. PICK n \in Nat : n = Len(Circuit.layers) /\ DOMAIN Circuit.layers = 1 .. n
  <2>1. PICK U : U = Seq(GateIds)
    OBVIOUS
  <2>2. Circuit.layers \in Seq(U)
    BY <2>1, Lists
  <2>. QED
    BY <2>2
<1>2. PICK r \in Seq(Seq(Instruction)) :
        /\ r = LayerPrograms(p) /\ Len(r) = n
        /\ \A l \in 1 .. n : Circuit.layers[l] \in Seq(GateIds) /\ r[l] = StraightMult(p, Circuit.layers[l])
  BY <1>1, LayersType
<1>3. PICK F : F = Seq(Phase)
  OBVIOUS
<1>4. ASSUME NEW l \in 1 .. n PROVE m[l] \in F /\ Projected(Row, m[l]) = r[l]
  <2>1. PICK x \in Seq(GateIds) : x = Circuit.layers[l] /\ r[l] = StraightMult(p, x)
    BY <1>2
  <2>2. m[l] = MultProtocol(p, x)
    BY <1>1, <2>1
  <2>. QED
    BY <1>3, <2>1, <2>2, LayerInLine
<1>5. m \in [1 .. n -> F]
  BY <1>1, <1>4
<1>6. m \in Seq(F) /\ Len(m) = n
  BY <1>5
<1>7. PICK s \in Seq(Seq(Phase)) : s = m /\ Len(s) = n
  BY <1>3, <1>6
<1>8. FlattenSeq(s) \in Seq(Phase)
  BY FlattenType
<1>9. SpellsRows(Row, s, r)
  BY <1>2, <1>4, <1>7 DEF SpellsRows
<1>10. \A a \in Seq(Seq(Phase)), b \in Seq(Seq(Instruction)) :
         SpellsRows(Row, a, b) => Projected(Row, FlattenSeq(a)) = FlattenSeq(b)
  BY RowMaps, ProjectedRows
<1>. QED
  BY <1>2, <1>7, <1>8, <1>9, <1>10

\* Phases behind phases.
LEMMA RowsConcat ==
  \A u, v \in Seq(Phase) : Projected(Row, u \o v) = Projected(Row, u) \o Projected(Row, v)
<1>1. PICK f, D, T : f = Row /\ D = Phase /\ T = Instruction
  OBVIOUS
<1>2. Maps(f, D, T)
  BY <1>1, RowMaps
<1>3. \A u, v \in Seq(D) : Projected(f, u \o v) = Projected(f, u) \o Projected(f, v)
  BY <1>2, ProjectedConcat
<1>. QED
  BY <1>1, <1>3

\* A program is phases, and its line the preparation and the rest.
LEMMA ProgramInLine ==
  ASSUME NEW p \in Parties
  PROVE  /\ Program[p] \in Seq(Phase)
         /\ Preps \in Seq(Instruction) /\ Straight[p] \in Seq(Instruction)
         /\ Line[p] = Preps \o Straight[p]
<1>1. PICK s, r : s = Prep("PrepPartiesSend") /\ r = Prep("PrepPartiesReceive")
  OBVIOUS
<1>2. /\ s \in Seq(Only("PrepPartiesSend")) /\ r \in Seq(Only("PrepPartiesReceive"))
      /\ s \in Seq(Instruction) /\ r \in Seq(Instruction)
  BY <1>1, Prepared DEF PrepOps
<1>3. PICK d, i, o \in Seq(Instruction) : d = FDMult(p) /\ i = InputProtocol(p) /\ o = OutputProtocol(p)
  <2>1. OneSided({}, 0)
    BY PartyNumbers DEF OneSided
  <2>. QED
    BY <2>1, FDMultReads, InputReads, OutputReads
<1>4. PICK l \in Seq(Instruction) : l = FlattenSeq(LayerPrograms(p))
  BY LayersRead
<1>5. PICK m \in Seq(Phase) :
        /\ m = FlattenSeq([k \in DOMAIN Circuit.layers |-> MultProtocol(p, Circuit.layers[k])])
        /\ Projected(Row, m) = l
  BY <1>4, LayersInLine
<1>0. \A a, b, c \in Seq(Instruction) : a \o (b \o c) = (a \o b) \o c
  BY TagsTogether
<1>6. \A a, b \in Seq(Instruction) : a \o b \in Seq(Instruction)
  BY TagsTogether
<1>7. PICK e \in Seq(Instruction) : e = d \o i
  BY <1>6
<1>8. PICK a \in Seq(Phase) : a = << Beside(s, r), Alone(e) >> /\ Projected(Row, a) = (s \o r) \o e
  <2>1. Beside(s, r) \in Phase /\ Row[Beside(s, r)] = s \o r /\ Alone(e) \in Phase /\ Row[Alone(e)] = e
    BY <1>2, Phases DEF ThreadOps, ReceiveOps
  <2>. QED
    BY <2>1, RowsOfTwo
<1>9. PICK b \in Seq(Phase) : b = << Alone(o) >> /\ Projected(Row, b) = o
  <2>1. Alone(o) \in Phase /\ Row[Alone(o)] = o
    BY Phases
  <2>. QED
    BY <2>1, RowsOfTwo
<1>10. Program[p] = (a \o m) \o b
  BY <1>1, <1>3, <1>5, <1>7, <1>8, <1>9 DEF Program
<1>11. /\ a \o m \in Seq(Phase) /\ (a \o m) \o b \in Seq(Phase)
       /\ Projected(Row, (a \o m) \o b) = (Projected(Row, a) \o Projected(Row, m)) \o Projected(Row, b)
  <2>0. \A u, v \in Seq(Phase) : u \o v \in Seq(Phase)
    BY ConcatProperties
  <2>1. \A u, v \in Seq(Phase) : Projected(Row, u \o v) = Projected(Row, u) \o Projected(Row, v)
    BY RowsConcat
  <2>2. PICK c \in Seq(Phase) : c = a \o m
    BY <2>0
  <2>3. Projected(Row, a \o m) = Projected(Row, a) \o Projected(Row, m)
    BY <2>1
  <2>4. Projected(Row, c \o b) = Projected(Row, c) \o Projected(Row, b)
    BY <2>1
  <2>5. c \o b \in Seq(Phase)
    BY <2>0
  <2>. QED
    BY <2>2, <2>3, <2>4, <2>5
<1>12. Line[p] = (((s \o r) \o e) \o l) \o o
  BY <1>5, <1>8, <1>9, <1>10, <1>11 DEF Line
<1>13. Straight[p] = (e \o l) \o o
  <2>1. DOMAIN Circuit.layers = 1 .. Len(Circuit.layers)
    <3>1. PICK U : U = Seq(GateIds)
      OBVIOUS
    <3>2. Circuit.layers \in Seq(U)
      BY <3>1, Lists
    <3>. QED
      BY <3>2
  <2>. QED
    BY <1>3, <1>4, <1>7, <2>1 DEF Straight, LayerPrograms
<1>14. Preps = s \o r
  BY <1>1 DEF Preps
<1>15. PICK h \in Seq(Instruction) : h = s \o r
  BY <1>2, <1>6
<1>16. ((h \o e) \o l) \o o = h \o ((e \o l) \o o)
  <2>1. PICK g \in Seq(Instruction) : g = e \o l
    BY <1>6
  <2>2. h \o (g \o o) = (h \o g) \o o
    BY <1>0, SMTT(60)
  <2>3. h \o (e \o l) = (h \o e) \o l
    BY <1>0, SMTT(60)
  <2>. QED
    BY <2>1, <2>2, <2>3
<1>17. (e \o l) \o o \in Seq(Instruction)
  <2>1. e \o l \in Seq(Instruction)
    BY <1>6
  <2>. QED
    BY <1>6, <2>1
<1>. QED
  BY <1>10, <1>11, <1>12, <1>13, <1>14, <1>15, <1>16, <1>17

\* What is sent in the preparation is what is received there.
LEMMA PrepMatches ==
  ASSUME NEW p \in Parties, NEW q \in Parties
  PROVE  Projected(SentTo[p], Preps) = Projected(ReceivedFrom[q], Preps)
<1>1. PICK f, g : /\ f = SentTo[p] /\ g = ReceivedFrom[q]
                  /\ Maps(f, Instruction, Tag) /\ Maps(g, Instruction, Tag)
  <2>1. SentTo[p] = Reads(SendOps, p) /\ ReceivedFrom[q] = Reads(ReceiveOps, q)
    BY DEF SentTo, ReceivedFrom
  <2>. QED
    BY <2>1, Reading
<1>2. PICK s, r \in Seq(Instruction) : s = Prep("PrepPartiesSend") /\ r = Prep("PrepPartiesReceive")
  BY Prepared DEF PrepOps
<1>3. PICK n \in Nat : n = Len(Blocks) /\ Len(s) = n /\ Len(r) = n
  BY <1>2, Prepared DEF PrepOps
<1>4. ASSUME NEW b \in 1 .. n
      PROVE  f[s[b]] = PrepTags(b) /\ g[s[b]] = << >> /\ f[r[b]] = << >> /\ g[r[b]] = PrepTags(b)
  <2>1. /\ s[b] = [op |-> "PrepPartiesSend", block |-> b] /\ s[b] \in Instruction
        /\ r[b] = [op |-> "PrepPartiesReceive", block |-> b] /\ r[b] \in Instruction
    BY <1>2, <1>3, Prepared DEF PrepOps
  <2>. QED
    BY <1>1, <2>1 DEF SentTo, ReceivedFrom, Reads, PrepOps, SendOps, ReceiveOps
<1>5. Projected(g, s) = << >> /\ Projected(f, r) = << >>
  <2>1. \A i \in 1 .. Len(s) : g[s[i]] = << >>
    BY <1>3, <1>4
  <2>2. \A i \in 1 .. Len(r) : f[r[i]] = << >>
    BY <1>3, <1>4
  <2>. QED
    BY <1>1, <2>1, <2>2, ProjectedNothing
<1>6. Projected(f, s) = Projected(g, r)
  <2>1. \A i \in 1 .. n : f[s[i]] = g[r[i]]
    BY <1>4
  <2>2. [i \in 1 .. Len(s) |-> f[s[i]]] = [i \in 1 .. Len(r) |-> g[r[i]]]
    BY <1>3, <2>1
  <2>. QED
    BY <2>2 DEF Projected, Pieces
<1>7. PICK u \in Seq(Tag) : u = Projected(f, s)
  BY <1>1, ProjectedType
<1>8. Projected(f, s \o r) = Projected(f, s) \o Projected(f, r)
  BY <1>1, ProjectedConcat
<1>9. Projected(g, s \o r) = Projected(g, s) \o Projected(g, r)
  BY <1>1, ProjectedConcat
<1>10. u \o << >> = u /\ << >> \o u = u
  BY TagsTogether
<1>. QED
  BY <1>1, <1>2, <1>5, <1>6, <1>7, <1>8, <1>9, <1>10 DEF Preps

\* Lines are instructions: of the preparation, or of the rest.
LEMMA LineType ==
  ASSUME NEW p \in Parties
  PROVE  /\ Line[p] \in Seq(Instruction)
         /\ \A n \in 1 .. Len(Line[p]) :
              /\ Line[p][n] \in Instruction
              /\ Line[p][n].op \in PrepOps \/ \E m \in 1 .. Len(Straight[p]) : Line[p][n] = Straight[p][m]
<1>1. PICK a, x \in Seq(Instruction) : a = Preps /\ x = Straight[p] /\ Line[p] = a \o x
  BY ProgramInLine
<1>2. PICK s, r \in Seq(Instruction) : s = Prep("PrepPartiesSend") /\ r = Prep("PrepPartiesReceive")
  BY Prepared DEF PrepOps
<1>3. \A u, v \in Seq(Instruction) :
        /\ u \o v \in Seq(Instruction) /\ Len(u \o v) = Len(u) + Len(v)
        /\ \A n \in 1 .. Len(u) + Len(v) : (u \o v)[n] = IF n <= Len(u) THEN u[n] ELSE v[n - Len(u)]
  BY ConcatProperties
<1>4. ASSUME NEW n \in 1 .. Len(a) PROVE a[n].op \in PrepOps
  <2>0. PICK l \in Nat : l = Len(Blocks) /\ Len(s) = l /\ Len(r) = l
    BY <1>2, Prepared DEF PrepOps
  <2>1. ASSUME NEW b \in 1 .. l PROVE s[b].op \in PrepOps /\ r[b].op \in PrepOps
    <3>1. s[b] = [op |-> "PrepPartiesSend", block |-> b] /\ r[b] = [op |-> "PrepPartiesReceive", block |-> b]
      BY <1>2, <2>0, Prepared DEF PrepOps
    <3>. QED
      BY <3>1 DEF PrepOps
  <2>3. a = s \o r
    BY <1>1, <1>2 DEF Preps
  <2>4. Len(a) = Len(s) + Len(r) /\ a[n] = IF n <= Len(s) THEN s[n] ELSE r[n - Len(s)]
    BY <1>3, <2>3
  <2>5. Len(s) \in Nat /\ Len(r) \in Nat
    OBVIOUS
  <2>6. n \in 1 .. Len(s) \/ (~(n <= Len(s)) /\ n - Len(s) \in 1 .. Len(r))
    BY <2>4, <2>5
  <2>. QED
    BY <2>0, <2>1, <2>4, <2>6
<1>5. ASSUME NEW n \in 1 .. Len(Line[p])
      PROVE  Line[p][n].op \in PrepOps \/ \E m \in 1 .. Len(x) : Line[p][n] = x[m]
  <2>1. Len(Line[p]) = Len(a) + Len(x) /\ Line[p][n] = IF n <= Len(a) THEN a[n] ELSE x[n - Len(a)]
    BY <1>1, <1>3
  <2>2. Len(a) \in Nat /\ Len(x) \in Nat
    OBVIOUS
  <2>3. n \in 1 .. Len(a) \/ (~(n <= Len(a)) /\ n - Len(a) \in 1 .. Len(x))
    BY <2>1, <2>2
  <2>. QED
    BY <1>4, <2>1, <2>3
<1>6. PICK y \in Seq(Instruction) : y = Line[p]
  BY <1>1, <1>3
<1>7. \A n \in 1 .. Len(y) : y[n] \in Instruction
  BY ElementOfSeq
<1>. QED
  BY <1>1, <1>5, <1>6, <1>7

\* What the lines send each other is what they ask of each other.
LEMMA LinesTrade ==
  /\ Traders(Parties, Instruction, Tag, SentTo, ReceivedFrom, Line)
  /\ \A p, q \in Parties : Projected(SentTo[p], Line[q]) = Projected(ReceivedFrom[q], Line[p])
<1>1. ASSUME NEW p \in Parties PROVE Maps(SentTo[p], Instruction, Tag) /\ Maps(ReceivedFrom[p], Instruction, Tag)
  <2>1. SentTo[p] = Reads(SendOps, p) /\ ReceivedFrom[p] = Reads(ReceiveOps, p)
    BY DEF SentTo, ReceivedFrom
  <2>. QED
    BY <2>1, Reading
<1>2. Traders(Parties, Instruction, Tag, SentTo, ReceivedFrom, Line)
  BY <1>1, LineType DEF Traders
<1>3. ASSUME NEW p \in Parties, NEW q \in Parties
      PROVE  Projected(SentTo[p], Line[q]) = Projected(ReceivedFrom[q], Line[p])
  <2>1. PICK f, g : f = SentTo[p] /\ g = ReceivedFrom[q]
    OBVIOUS
  <2>2. PICK a, x, y \in Seq(Instruction) : a = Preps /\ x = Straight[q] /\ y = Straight[p]
    BY ProgramInLine
  <2>3. Projected(f, a \o x) = Projected(f, a) \o Projected(f, x)
    <3>1. f = Reads(SendOps, p)
      BY <2>1 DEF SentTo
    <3>2. Projected(Reads(SendOps, p), a \o x) = Projected(Reads(SendOps, p), a) \o Projected(Reads(SendOps, p), x)
      BY ReadsConcat
    <3>. QED
      BY <3>1, <3>2
  <2>4. Projected(g, a \o y) = Projected(g, a) \o Projected(g, y)
    <3>1. g = Reads(ReceiveOps, q)
      BY <2>1 DEF ReceivedFrom
    <3>2. Projected(Reads(ReceiveOps, q), a \o y)
          = Projected(Reads(ReceiveOps, q), a) \o Projected(Reads(ReceiveOps, q), y)
      BY ReadsConcat
    <3>. QED
      BY <3>1, <3>2
  <2>5. Projected(f, a) = Projected(g, a)
    BY <2>1, <2>2, PrepMatches
  <2>6. Projected(f, x) = Projected(g, y)
    <3>1. OneSided(SendOps, p) /\ OneSided(ReceiveOps, q)
      BY DEF OneSided, SendOps, ReceiveOps
    <3>2. Projected(f, x) = ProgramFlow(SendOps, p, q)
      BY <2>1, <2>2, <3>1, ProgramReads DEF SentTo
    <3>3. Projected(g, y) = ProgramFlow(ReceiveOps, q, p)
      BY <2>1, <2>2, <3>1, ProgramReads DEF ReceivedFrom
    <3>. QED
      BY <3>2, <3>3, FlowsMatch
  <2>. QED
    BY <2>1, <2>2, <2>3, <2>4, <2>5, <2>6, ProgramInLine
<1>. QED
  BY <1>2, <1>3

-----------------------------------------------------------------------------
(* P1's queues.  What the last parties have sent for a gate is put into      *)
(* fromLast beforehand, and taken out when the product is opened; what is    *)
(* opened is put into toSend, and taken out when the last of the first t + 1 *)
(* has got its share.                                                        *)

QueueOps == {"FDMultP1Queues", "MultP1Receives", "MultP1SendsParties"}

PushesLast == Reads({"FDMultP1Queues"}, None)
PopsLast == Reads({"MultP1Receives"}, Threshold)
PopsOpened == Reads({"MultP1SendsParties"}, Threshold)

\* As many marks as gates.
LEMMA MarksLength ==
  ASSUME NEW k \in Kinds, NEW x \in Seq(GateIds)
  PROVE  Len(Projected(Marks(k), x)) = Len(x)
<1>1. Maps(Marks(k), GateIds, Tag)
  BY RowTypes
<1>2. PICK T, s : T = Tag /\ s = Pieces(Marks(k), x)
  OBVIOUS
<1>3. s \in Seq(Seq(T)) /\ Len(s) = Len(x) /\ \A i \in 1 .. Len(x) : s[i] = Marks(k)[x[i]]
  BY <1>1, <1>2, PiecesType
<1>4. \A i \in 1 .. Len(s) : Len(s[i]) = 1
  <2>1. ASSUME NEW i \in 1 .. Len(s) PROVE Len(s[i]) = 1
    <3>1. x[i] \in GateIds /\ s[i] = Marks(k)[x[i]]
      BY <1>3
    <3>2. s[i] = << << k, x[i] >> >>
      BY <3>1 DEF Marks
    <3>. QED
      BY <3>2
  <2>. QED
    BY <2>1
<1>5. Len(FlattenSeq(s)) = Len(s) * 1
  BY <1>3, <1>4, FlattenEqual
<1>. QED
  BY <1>2, <1>3, <1>5 DEF Projected

\* Only P1 has to do with its queues, beforehand or in the layers.
LEMMA QueueFlows ==
  ASSUME NEW op \in QueueOps, NEW r, NEW p \in Parties
  PROVE  /\ OneSided({op}, r)
         /\ FDFlow({op}, r, p) =
              IF p = 0 /\ op = "FDMultP1Queues" THEN Flow({op}, r, op, {None}, FlatMults) ELSE << >>
         /\ InputFlow({op}, r, p) = << >> /\ OutputFlow({op}, r, p) = << >>
         /\ \A x \in Seq(GateIds) :
              MultFlow({op}, r, p, x) =
                IF p = 0 /\ op # "FDMultP1Queues" THEN Flow({op}, r, op, First, x) ELSE << >>
<1>0. \A u \in Seq(Tag) : u \o << >> = u /\ << >> \o u = u
  BY TagsTogether
<1>e. << >> \in Seq(Tag) /\ << >> \o << >> = << >>
  BY <1>0, EmptySeq
<1>1. OneSided({op}, r)
  BY DEF OneSided, QueueOps
<1>2. \A Q, x : /\ Flow({op}, r, "InputPartiesSendOwners", Q, x) = << >>
                /\ Flow({op}, r, "InputOwnersReceive", Q, x) = << >>
                /\ Flow({op}, r, "InputOwnersSend", Q, x) = << >>
                /\ Flow({op}, r, "InputPartiesReceive", Q, x) = << >>
                /\ Flow({op}, r, "FDMultPartiesSendP1", Q, x) = << >>
                /\ Flow({op}, r, "FDMultP1Receives", Q, x) = << >>
                /\ Flow({op}, r, "MultPartiesSendP1", Q, x) = << >>
                /\ Flow({op}, r, "MultPartiesReceive", Q, x) = << >>
                /\ Flow({op}, r, "OutputPartiesSendOwners", Q, x) = << >>
                /\ Flow({op}, r, "OutputOwnersReceive", Q, x) = << >>
  BY DEF Flow, QueueOps
<1>3. InputFlow({op}, r, p) = << >>
  BY <1>2, <1>e DEF InputFlow, BothFlow
<1>4. OutputFlow({op}, r, p) = << >>
  BY <1>2, <1>e DEF OutputFlow
<1>5. FDFlow({op}, r, p) = IF p = 0 /\ op = "FDMultP1Queues" THEN Flow({op}, r, op, {None}, FlatMults) ELSE << >>
  BY <1>2 DEF FDFlow, LastFlow, QueueOps
<1>6. ASSUME NEW x \in Seq(GateIds)
      PROVE  MultFlow({op}, r, p, x) = IF p = 0 /\ op # "FDMultP1Queues" THEN Flow({op}, r, op, First, x) ELSE << >>
  <2>1. PICK a, b \in Seq(Tag) : /\ a = Flow({op}, r, "MultP1Receives", First, x)
                                 /\ b = Flow({op}, r, "MultP1SendsParties", First, x)
    BY FlowType
  <2>2. MultFlow({op}, r, p, x) =
          IF p \notin First THEN << >> ELSE << >> \o (IF p # 0 THEN << >> ELSE a \o b) \o << >>
    BY <1>2, <2>1 DEF MultFlow
  <2>3. 0 \in First
    BY PartyNumbers DEF First
  <2>4. CASE p # 0
    BY <1>e, <2>2, <2>4
  <2>5. CASE p = 0
    <3>1. MultFlow({op}, r, p, x) = << >> \o (a \o b) \o << >>
      BY <2>2, <2>3, <2>5
    <3>2. a \o b \in Seq(Tag)
      BY TagsTogether
    <3>3. << >> \o (a \o b) \o << >> = a \o b
      BY <1>0, <3>2
    <3>4. op # "MultP1Receives" => a = << >>
      BY <2>1 DEF Flow
    <3>5. op # "MultP1SendsParties" => b = << >>
      BY <2>1 DEF Flow
    <3>6. CASE op = "FDMultP1Queues"
      BY <1>e, <2>5, <3>1, <3>3, <3>4, <3>5, <3>6
    <3>7. CASE op = "MultP1Receives"
      BY <1>0, <2>1, <2>5, <3>1, <3>3, <3>5, <3>7
    <3>8. CASE op = "MultP1SendsParties"
      BY <1>0, <2>1, <2>5, <3>1, <3>3, <3>4, <3>8
    <3>. QED
      BY <3>6, <3>7, <3>8 DEF QueueOps
  <2>. QED
    BY <2>4, <2>5
<1>. QED
  BY <1>1, <1>3, <1>4, <1>5, <1>6

\* What flows in the layers, all in all.
LEMMA LayersFlow ==
  ASSUME NEW op \in QueueOps, NEW r, NEW p \in Parties
  PROVE  /\ ~(p = 0 /\ op # "FDMultP1Queues") => MultFlows({op}, r, p) = << >>
         /\ p = 0 /\ op # "FDMultP1Queues" /\ r \in First =>
              MultFlows({op}, r, p) = Projected(Marks(KindOf(op)), FlatMults)
<1>1. PICK n \in Nat : n = Len(Circuit.layers)
  <2>1. PICK U : U = Seq(GateIds)
    OBVIOUS
  <2>2. Circuit.layers \in Seq(U)
    BY <2>1, Lists
  <2>. QED
    BY <2>2
<1>2. \A l \in 1 .. n : Circuit.layers[l] \in Seq(GateIds)
  BY <1>1, LayersType
<1>3. ASSUME ~(p = 0 /\ op # "FDMultP1Queues") PROVE MultFlows({op}, r, p) = << >>
  <2>1. \A l \in 1 .. n : MultFlow({op}, r, p, Circuit.layers[l]) = << >>
    BY <1>2, <1>3, QueueFlows
  <2>2. PICK s : s = [l \in 1 .. n |-> MultFlow({op}, r, p, Circuit.layers[l])]
    OBVIOUS
  <2>3. PICK T : T = Seq(Tag)
    OBVIOUS
  <2>4. << >> \in T
    BY <2>3, EmptySeq
  <2>5. s \in Seq(T) /\ Len(s) = n /\ \A l \in 1 .. Len(s) : s[l] = << >>
    <3>1. s = [l \in 1 .. n |-> << >>]
      BY <2>1, <2>2
    <3>2. [l \in 1 .. n |-> << >>] \in [1 .. n -> T]
      BY <2>4
    <3>. QED
      BY <3>1, <3>2
  <2>6. FlattenSeq(s) = << >>
    BY <2>3, <2>5, FlattenNothing
  <2>. QED
    BY <1>1, <2>2, <2>6 DEF MultFlows
<1>4. ASSUME p = 0, op # "FDMultP1Queues", r \in First
      PROVE  MultFlows({op}, r, p) = Projected(Marks(KindOf(op)), FlatMults)
  <2>1. PICK f : f = Marks(KindOf(op)) /\ Maps(f, GateIds, Tag)
    <3>1. KindOf(op) \in Kinds
      BY DEF KindOf, Kinds
    <3>. QED
      BY <3>1, RowTypes
  <2>2. \A l \in 1 .. n : MultFlow({op}, r, p, Circuit.layers[l]) = Projected(f, Circuit.layers[l])
    <3>1. \A x \in Seq(GateIds) : MultFlow({op}, r, p, x) = Flow({op}, r, op, First, x)
      BY <1>4, QueueFlows
    <3>2. \A x \in Seq(GateIds) : Flow({op}, r, op, First, x) = Projected(f, x)
      BY <1>4, <2>1 DEF Flow
    <3>. QED
      BY <1>2, <3>1, <3>2
  <2>3. Parted(f, Circuit.layers) = [l \in 1 .. n |-> MultFlow({op}, r, p, Circuit.layers[l])]
    BY <1>1, <2>2 DEF Parted
  <2>4. \A s \in Seq(Seq(GateIds)) : Projected(f, FlattenSeq(s)) = FlattenSeq(Parted(f, s))
    BY <2>1, ProjectedFlatten
  <2>5. Projected(f, FlatMults) = FlattenSeq(Parted(f, Circuit.layers))
    BY <2>4, Lists DEF FlatMults
  <2>. QED
    BY <1>1, <2>1, <2>3, <2>5 DEF MultFlows
<1>. QED
  BY <1>3, <1>4

\* Only P1 has instructions that touch its queues.
LEMMA QueuesOfP1 ==
  ASSUME NEW p \in Parties, NEW n \in 1 .. Len(Straight[p]), Straight[p][n].op \in QueueOps
  PROVE  p = 0
<1>1. PICK i \in Instruction, op \in QueueOps : i = Straight[p][n] /\ i.op = op
  <2>1. Straight[p] \in Seq(Instruction)
    BY ProgramReads
  <2>2. Straight[p][n] \in Instruction
    BY <2>1, ElementOfSeq
  <2>. QED
    BY <2>2
<1>2. PICK r : r = i.peer
  OBVIOUS
<1>3. Reads({op}, r)[i] # << >>
  BY <1>1, <1>2 DEF Reads, PrepOps, QueueOps
<1>4. ASSUME p # 0 PROVE FALSE
  <2>1. ProgramFlow({op}, r, p) = << >>
    <3>1. << >> \o << >> = << >>
      BY TagsTogether
    <3>. QED
      BY <1>4, <3>1, QueueFlows, LayersFlow DEF ProgramFlow
  <2>2. OneSided({op}, r)
    BY QueueFlows
  <2>3. Projected(Reads({op}, r), Straight[p]) = << >> /\ Straight[p] \in Seq(Instruction)
    BY <2>1, <2>2, ProgramReads
  <2>4. PICK x \in Seq(Instruction) : x = Straight[p]
    BY <2>3
  <2>5. Maps(Reads({op}, r), Instruction, Tag)
    BY Reading
  <2>6. \A m \in 1 .. Len(x) : Reads({op}, r)[x[m]] = << >>
    BY <2>3, <2>4, <2>5, NothingMade
  <2>. QED
    BY <1>1, <1>3, <2>4, <2>6
<1>. QED
  BY <1>4

\* Reading makes tags, of the queues too.
LEMMA QueueMaps ==
  /\ Maps(PushesLast, Instruction, Tag) /\ Maps(PopsLast, Instruction, Tag) /\ Maps(PopsOpened, Instruction, Tag)
BY Reading DEF PushesLast, PopsLast, PopsOpened

\* The four parts of P1's program: what it is told before the layers, for them,
\* and after them; and what these do with the queues.
LEMMA PartsOfP1 ==
  \E a, l, o \in Seq(Instruction) :
    /\ Straight[0] = (a \o l) \o o
    /\ l = FlattenSeq(LayerPrograms(0))
    /\ Projected(PopsLast, a) = << >> /\ Projected(PopsOpened, a) = << >>
    /\ Len(Projected(PushesLast, a)) = Len(Projected(PopsLast, l)) /\ Projected(PushesLast, l) = << >>
    /\ Projected(PushesLast, o) = << >> /\ Projected(PopsLast, o) = << >> /\ Projected(PopsOpened, o) = << >>
<1>0. 0 \in Parties /\ Threshold \in First
  BY PartyNumbers, ThresholdAssumption DEF First
<1>1. PICK f, i \in Seq(Instruction) : f = FDMult(0) /\ i = InputProtocol(0)
  <2>1. OneSided({}, 0)
    BY PartyNumbers DEF OneSided
  <2>. QED
    BY <1>0, <2>1, FDMultReads, InputReads
<1>2. PICK l, o \in Seq(Instruction) : l = FlattenSeq(LayerPrograms(0)) /\ o = OutputProtocol(0)
  <2>1. OneSided({}, 0)
    BY PartyNumbers DEF OneSided
  <2>. QED
    BY <1>0, <2>1, LayersRead, OutputReads
<1>3. PICK a \in Seq(Instruction) : a = f \o i
  <2>1. \A u, v \in Seq(Instruction) : u \o v \in Seq(Instruction)
    BY ConcatProperties
  <2>. QED
    BY <2>1
<1>4. DOMAIN Circuit.layers = 1 .. Len(Circuit.layers)
  <2>1. PICK U : U = Seq(GateIds)
    OBVIOUS
  <2>2. Circuit.layers \in Seq(U)
    BY <2>1, Lists
  <2>. QED
    BY <2>2
<1>5. Straight[0] = (a \o l) \o o
  BY <1>0, <1>1, <1>2, <1>3, <1>4 DEF Straight, LayerPrograms
<1>6. ASSUME NEW op \in QueueOps, NEW r
      PROVE  /\ Projected(Reads({op}, r), a) =
                  IF op = "FDMultP1Queues" THEN Flow({op}, r, op, {None}, FlatMults) ELSE << >>
             /\ Projected(Reads({op}, r), l) = MultFlows({op}, r, 0)
             /\ Projected(Reads({op}, r), o) = << >>
  <2>1. OneSided({op}, r)
    BY QueueFlows, <1>0
  <2>2. Projected(Reads({op}, r), f) = IF op = "FDMultP1Queues" THEN Flow({op}, r, op, {None}, FlatMults) ELSE << >>
    <3>1. Projected(Reads({op}, r), FDMult(0)) = FDFlow({op}, r, 0)
      BY <1>0, <2>1, FDMultReads
    <3>2. FDFlow({op}, r, 0) = IF op = "FDMultP1Queues" THEN Flow({op}, r, op, {None}, FlatMults) ELSE << >>
      BY <1>0, QueueFlows
    <3>. QED
      BY <1>1, <3>1, <3>2
  <2>3. Projected(Reads({op}, r), i) = << >>
    <3>1. Projected(Reads({op}, r), InputProtocol(0)) = InputFlow({op}, r, 0)
      BY <1>0, <2>1, InputReads
    <3>2. InputFlow({op}, r, 0) = << >>
      BY <1>0, QueueFlows
    <3>. QED
      BY <1>1, <3>1, <3>2
  <2>4. Projected(Reads({op}, r), o) = << >>
    <3>1. Projected(Reads({op}, r), OutputProtocol(0)) = OutputFlow({op}, r, 0)
      BY <1>0, <2>1, OutputReads
    <3>2. OutputFlow({op}, r, 0) = << >>
      BY <1>0, QueueFlows
    <3>. QED
      BY <1>2, <3>1, <3>2
  <2>5. Projected(Reads({op}, r), a) = Projected(Reads({op}, r), f) \o Projected(Reads({op}, r), i)
    <3>1. InTurns({op}, r, f, i, i)
      BY ThreeReads
    <3>. QED
      BY <1>3, <3>1 DEF InTurns
  <2>6. Projected(Reads({op}, r), f) \in Seq(Tag)
    <3>1. Maps(Reads({op}, r), Instruction, Tag)
      BY Reading
    <3>. QED
      BY <3>1, ProjectedType
  <2>7. Projected(Reads({op}, r), f) \o << >> = Projected(Reads({op}, r), f)
    BY <2>6, TagsTogether
  <2>8. Projected(Reads({op}, r), l) = MultFlows({op}, r, 0)
    BY <1>0, <1>2, LayersRead
  <2>. QED
    BY <2>2, <2>3, <2>4, <2>5, <2>7, <2>8
<1>7. /\ Projected(PopsLast, a) = << >> /\ Projected(PopsOpened, a) = << >>
      /\ Projected(PushesLast, o) = << >> /\ Projected(PopsLast, o) = << >> /\ Projected(PopsOpened, o) = << >>
  BY <1>6 DEF PushesLast, PopsLast, PopsOpened, QueueOps
<1>8. Projected(PushesLast, l) = << >>
  BY <1>0, <1>6, LayersFlow DEF PushesLast, QueueOps
<1>9. Len(Projected(PushesLast, a)) = Len(FlatMults)
  <2>1. Projected(PushesLast, a) = Flow({"FDMultP1Queues"}, None, "FDMultP1Queues", {None}, FlatMults)
    BY <1>6 DEF PushesLast, QueueOps
  <2>2. Projected(PushesLast, a) = Projected(Marks("last"), FlatMults)
    BY <2>1 DEF Flow, KindOf
  <2>. QED
    BY <2>2, MarksLength, Lists DEF Kinds
<1>10. Len(Projected(PopsLast, l)) = Len(FlatMults)
  <2>1. Projected(PopsLast, l) = MultFlows({"MultP1Receives"}, Threshold, 0)
    BY <1>6 DEF PopsLast, QueueOps
  <2>2. MultFlows({"MultP1Receives"}, Threshold, 0) = Projected(Marks("product"), FlatMults)
    <3>1. "MultP1Receives" \in QueueOps /\ KindOf("MultP1Receives") = "product"
      BY DEF QueueOps, KindOf
    <3>. QED
      BY <1>0, <3>1, LayersFlow
  <2>. QED
    BY <2>1, <2>2, MarksLength, Lists DEF Kinds
<1>. QED
  BY <1>2, <1>5, <1>7, <1>8, <1>9, <1>10

\* A layer puts as much into toSend as it takes out.
LEMMA LayerBalanced ==
  ASSUME NEW x \in Seq(GateIds)
  PROVE  Balanced(PopsLast, PopsOpened, StraightMult(0, x))
<1>0. 0 \in Parties /\ 0 \in First /\ Threshold \in First
  BY PartyNumbers, ThresholdAssumption DEF First
<1>1. PICK a, d \in Seq(Instruction) : /\ a = Projected(P1Row("MultPartiesSendP1"), x)
                                       /\ d = Projected(P1Row("MultPartiesReceive"), x)
  BY P1RowFlows DEF WithP1
<1>2. PICK b, c \in Seq(Instruction) : /\ b = Projected(FirstRow("MultP1Receives"), x)
                                       /\ c = Projected(FirstRow("MultP1SendsParties"), x)
  <2>1. "MultP1Receives" \in WithAny /\ "MultP1SendsParties" \in WithAny
    BY DEF WithAny
  <2>. QED
    BY <2>1, FirstRowFlows
<1>3. StraightMult(0, x) = (a \o (b \o c)) \o d
  BY <1>0, <1>1, <1>2, Spelled
<1>4. PICK u, v : u = PopsLast /\ v = PopsOpened /\ Maps(u, Instruction, Tag) /\ Maps(v, Instruction, Tag)
  BY QueueMaps
<1>5. /\ Projected(u, a) = << >> /\ Projected(v, a) = << >> /\ Projected(u, d) = << >> /\ Projected(v, d) = << >>
  <2>1. "MultPartiesSendP1" \in WithP1 /\ "MultPartiesReceive" \in WithP1
    BY DEF WithP1
  <2>2. \A ops, r : /\ Projected(Reads(ops, r), a) = Flow(ops, r, "MultPartiesSendP1", {0}, x)
                    /\ Projected(Reads(ops, r), d) = Flow(ops, r, "MultPartiesReceive", {0}, x)
    BY <1>1, <2>1, P1RowFlows
  <2>3. \A o \in {"MultP1Receives", "MultP1SendsParties"} : \A r :
          Projected(Reads({o}, r), a) = << >> /\ Projected(Reads({o}, r), d) = << >>
    BY <2>2 DEF Flow
  <2>. QED
    BY <1>4, <2>3 DEF PopsLast, PopsOpened
<1>6. /\ Projected(v, b) = << >> /\ Projected(u, c) = << >>
      /\ Len(Projected(u, b)) = Len(Projected(v, c))
  <2>1. "MultP1Receives" \in WithAny /\ "MultP1SendsParties" \in WithAny
    BY DEF WithAny
  <2>2. \A ops, r : /\ Projected(Reads(ops, r), b) = Flow(ops, r, "MultP1Receives", First, x)
                    /\ Projected(Reads(ops, r), c) = Flow(ops, r, "MultP1SendsParties", First, x)
    BY <1>2, <2>1, FirstRowFlows
  <2>3. Projected(v, b) = << >> /\ Projected(u, c) = << >>
    BY <1>4, <2>2 DEF Flow, PopsLast, PopsOpened
  <2>4. Projected(u, b) = Projected(Marks("product"), x)
    BY <1>0, <1>4, <2>2 DEF Flow, PopsLast, KindOf
  <2>5. Projected(v, c) = Projected(Marks("opened"), x)
    BY <1>0, <1>4, <2>2 DEF Flow, PopsOpened, KindOf
  <2>. QED
    BY <2>3, <2>4, <2>5, MarksLength DEF Kinds
<1>7. PICK e \in Seq(Instruction) : e = b \o c /\ Balanced(u, v, e)
  <2>1. \A y, z \in Seq(Instruction) : y \o z \in Seq(Instruction)
    BY ConcatProperties
  <2>2. Balanced(u, v, b \o c)
    BY <1>4, <1>6, FilledThenEmptied
  <2>. QED
    BY <2>1, <2>2
<1>8. Balanced(u, v, a) /\ Balanced(u, v, d)
  BY <1>4, <1>5, BalancedNothing
<1>9. PICK h \in Seq(Instruction) : h = a \o e /\ Balanced(u, v, h)
  <2>1. \A y, z \in Seq(Instruction) : y \o z \in Seq(Instruction)
    BY ConcatProperties
  <2>2. Balanced(u, v, a \o e)
    BY <1>4, <1>7, <1>8, BalancedConcat
  <2>. QED
    BY <2>1, <2>2
<1>10. Balanced(u, v, h \o d)
  BY <1>4, <1>8, <1>9, BalancedConcat
<1>. QED
  BY <1>3, <1>4, <1>7, <1>9, <1>10

\* So do all layers; and as many shares are put into fromLast as are taken out.
LEMMA QueuesBalanced ==
  Balanced(PushesLast, PopsLast, Straight[0]) /\ Balanced(PopsLast, PopsOpened, Straight[0])
<1>1. PICK a, l, o \in Seq(Instruction) :
        /\ Straight[0] = (a \o l) \o o
        /\ l = FlattenSeq(LayerPrograms(0))
        /\ Projected(PopsLast, a) = << >> /\ Projected(PopsOpened, a) = << >>
        /\ Len(Projected(PushesLast, a)) = Len(Projected(PopsLast, l)) /\ Projected(PushesLast, l) = << >>
        /\ Projected(PushesLast, o) = << >> /\ Projected(PopsLast, o) = << >> /\ Projected(PopsOpened, o) = << >>
  BY PartsOfP1
<1>2. PICK s, u, v : /\ s = PushesLast /\ u = PopsLast /\ v = PopsOpened
                     /\ Maps(s, Instruction, Tag) /\ Maps(u, Instruction, Tag) /\ Maps(v, Instruction, Tag)
  BY QueueMaps
<1>3. PICK h \in Seq(Instruction) : h = a \o l
  <2>1. \A y, z \in Seq(Instruction) : y \o z \in Seq(Instruction)
    BY ConcatProperties
  <2>. QED
    BY <2>1
<1>4. Balanced(s, u, h)
  <2>1. Projected(u, a) = << >> /\ Projected(s, l) = << >> /\ Len(Projected(s, a)) = Len(Projected(u, l))
    BY <1>1, <1>2
  <2>2. Balanced(s, u, a \o l)
    BY <1>2, <2>1, FilledThenEmptied
  <2>. QED
    BY <1>3, <2>2
<1>5. Balanced(s, u, o) /\ Balanced(u, v, o) /\ Balanced(u, v, a)
  <2>1. /\ Projected(s, o) = << >> /\ Projected(u, o) = << >> /\ Projected(v, o) = << >>
        /\ Projected(u, a) = << >> /\ Projected(v, a) = << >>
    BY <1>1, <1>2
  <2>. QED
    BY <1>2, <2>1, BalancedNothing
<1>6. Balanced(u, v, l)
  <2>1. PICK r \in Seq(Seq(Instruction)) :
          /\ r = LayerPrograms(0) /\ Len(r) = Len(Circuit.layers)
          /\ \A k \in 1 .. Len(r) : Circuit.layers[k] \in Seq(GateIds) /\ r[k] = StraightMult(0, Circuit.layers[k])
    BY LayersType, PartyNumbers
  <2>2. \A k \in 1 .. Len(r) : Balanced(u, v, r[k])
    BY <1>2, <2>1, LayerBalanced
  <2>3. Balanced(u, v, FlattenSeq(r))
    BY <1>2, <2>2, BalancedRows
  <2>. QED
    BY <1>1, <2>1, <2>3
<1>7. Balanced(u, v, a \o l)
  BY <1>2, <1>5, <1>6, BalancedConcat
<1>8. Balanced(u, v, h \o o) /\ Balanced(s, u, h \o o)
  <2>1. Balanced(u, v, h)
    BY <1>3, <1>7
  <2>2. Balanced(u, v, h \o o)
    BY <1>2, <1>5, <2>1, BalancedConcat
  <2>3. Balanced(s, u, h \o o)
    BY <1>2, <1>4, <1>5, BalancedConcat
  <2>. QED
    BY <2>2, <2>3
<1>. QED
  BY <1>1, <1>2, <1>3, <1>8

\* The preparation has nothing to do with P1's queues.
LEMMA PrepsApart ==
  ASSUME NEW op \in QueueOps, NEW r
  PROVE  Projected(Reads({op}, r), Preps) = << >>
<1>1. PICK f : f = Reads({op}, r) /\ Maps(f, Instruction, Tag)
  BY Reading
<1>2. PartByPart(f, Instruction)
  BY <1>1, ProjectsParts
<1>3. PICK l \in Seq(Instruction) : l = Prep("PrepPartiesSend")
  BY Prepared DEF PrepOps
<1>4. PICK m \in Seq(Instruction) : m = Prep("PrepPartiesReceive")
  BY Prepared DEF PrepOps
<1>5. PICK n \in Nat : n = Len(Blocks) /\ Len(l) = n /\ Len(m) = n
  BY <1>3, <1>4, Prepared DEF PrepOps
<1>6. ASSUME NEW b \in 1 .. n PROVE f[l[b]] = << >> /\ f[m[b]] = << >>
  <2>1. /\ l[b] = [op |-> "PrepPartiesSend", block |-> b] /\ l[b] \in Instruction
        /\ m[b] = [op |-> "PrepPartiesReceive", block |-> b] /\ m[b] \in Instruction
    BY <1>3, <1>4, <1>5, Prepared DEF PrepOps
  <2>. QED
    BY <1>1, <2>1 DEF Reads, PrepOps, QueueOps
<1>7. Projected(f, l) = << >>
  BY <1>1, <1>5, <1>6, ProjectedNothing
<1>8. Projected(f, m) = << >>
  BY <1>1, <1>5, <1>6, ProjectedNothing
<1>9. Projected(f, l \o m) = Projected(f, l) \o Projected(f, m)
  BY <1>2, Zenon DEF PartByPart
<1>10. << >> \o << >> = << >>
  BY TagsTogether
<1>. QED
  BY <1>1, <1>3, <1>4, <1>7, <1>8, <1>9, <1>10 DEF Preps

\* P1's line fills and empties the queues as what follows the preparation does.
LEMMA LineBalanced ==
  Balanced(PushesLast, PopsLast, Line[0]) /\ Balanced(PopsLast, PopsOpened, Line[0])
<1>1. PICK a, x \in Seq(Instruction) : a = Preps /\ x = Straight[0] /\ Line[0] = a \o x
  BY ProgramInLine, PartyNumbers
<1>2. PICK s, u, v : /\ s = PushesLast /\ u = PopsLast /\ v = PopsOpened
                     /\ Maps(s, Instruction, Tag) /\ Maps(u, Instruction, Tag) /\ Maps(v, Instruction, Tag)
  BY QueueMaps
<1>3. \A op \in QueueOps : \A r : Projected(Reads({op}, r), a) = << >>
  BY <1>1, PrepsApart
<1>4. Projected(s, a) = << >> /\ Projected(u, a) = << >> /\ Projected(v, a) = << >>
  BY <1>2, <1>3 DEF PushesLast, PopsLast, PopsOpened, QueueOps
<1>5. Balanced(s, u, a) /\ Balanced(u, v, a)
  BY <1>2, <1>4, BalancedNothing
<1>6. Balanced(s, u, x) /\ Balanced(u, v, x)
  BY <1>1, <1>2, QueuesBalanced
<1>7. Balanced(s, u, a \o x)
  BY <1>2, <1>5, <1>6, BalancedConcat
<1>8. Balanced(u, v, a \o x)
  BY <1>2, <1>5, <1>6, BalancedConcat
<1>. QED
  BY <1>1, <1>2, <1>7, <1>8

\* And only P1's touches its queues.
LEMMA LineOfP1 ==
  ASSUME NEW p \in Parties, NEW n \in 1 .. Len(Line[p]), Line[p][n].op \in QueueOps
  PROVE  p = 0
<1>1. PICK m \in 1 .. Len(Straight[p]) : Line[p][n] = Straight[p][m]
  BY LineType DEF PrepOps, QueueOps
<1>. QED
  BY <1>1, QueuesOfP1

-----------------------------------------------------------------------------
(* Where a party's threads are in its line.                                  *)

\* What is before phase n.
Before(p, n) == Len(Projected(Row, SubSeq(Program[p], 1, n - 1)))

\* A phase in the line.
InLine(p, n, t, m) ==
  /\ t \in Seq(Instruction) /\ m \in Seq(Instruction)
  /\ t = Program[p][n].thread /\ m = Program[p][n].main /\ Program[p][n] = [thread |-> t, main |-> m]
  /\ Before(p, n) + Len(t) + Len(m) <= Len(Line[p])
  /\ Before(p, n + 1) = Before(p, n) + Len(t) + Len(m)
  /\ \A j \in 1 .. Len(t) : Line[p][Before(p, n) + j] = t[j] /\ t[j].op \in ThreadOps
  /\ \A j \in 1 .. Len(m) : /\ Line[p][Before(p, n) + Len(t) + j] = m[j]
                            /\ t # << >> => m[j].op \in ReceiveOps

LEMMA PhaseInLine ==
  ASSUME NEW p \in Parties
  PROVE  /\ Len(Program[p]) \in Nat
         /\ \A n \in 1 .. Len(Program[p]) + 1 : Before(p, n) \in 0 .. Len(Line[p])
         /\ Before(p, 1) = 0 /\ Before(p, Len(Program[p]) + 1) = Len(Line[p])
         /\ \A n \in 1 .. Len(Program[p]) : \E t, m : InLine(p, n, t, m)
<1>1. PICK x \in Seq(Phase) : x = Program[p]
  BY ProgramInLine
<1>2. PICK l \in Nat : l = Len(x)
  OBVIOUS
<1>3. PICK y \in Seq(Instruction) : y = Line[p] /\ y = Projected(Row, x)
  <2>1. Line[p] = Projected(Row, x)
    BY <1>1 DEF Line
  <2>. QED
    BY <2>1, RowMaps, ProjectedType
<1>4. PICK f, D, T : f = Row /\ D = Phase /\ T = Instruction /\ Maps(f, D, T) /\ x \in Seq(D) /\ y \in Seq(T)
  BY RowMaps
<1>5. Ahead(f, x, 1) = y
  BY <1>3, <1>4, AheadAll
<1>6. ASSUME NEW n \in 1 .. l + 1
      PROVE  \E a, b \in Seq(T) : /\ y = a \o b /\ Len(a) = Before(p, n) /\ b = Ahead(f, x, n)
                                  /\ a = Projected(f, SubSeq(x, 1, n - 1))
  <2>1. 1 \in 1 .. n
    OBVIOUS
  <2>2. Split(f, x, 1, n, D, T)
    BY <1>2, <1>4, <2>1, AheadSplit
  <2>3. Before(p, n) = Len(Projected(f, SubSeq(x, 1, n - 1)))
    BY <1>1, <1>4 DEF Before
  <2>. QED
    BY <1>5, <2>2, <2>3 DEF Split
<1>7. ASSUME NEW n \in 1 .. l + 1 PROVE Before(p, n) \in 0 .. Len(y)
  <2>1. PICK a, b \in Seq(T) : y = a \o b /\ Len(a) = Before(p, n)
    BY <1>6
  <2>2. Len(a \o b) = Len(a) + Len(b) /\ Len(a) \in Nat /\ Len(b) \in Nat
    OBVIOUS
  <2>. QED
    BY <2>1, <2>2
<1>8. Before(p, 1) = 0
  <2>1. PICK s, k : k = 1 - 1 /\ s = SubSeq(x, 1, k) /\ s = << >>
    <3>1. PICK k \in Int : k = 1 - 1 /\ k < 1
      OBVIOUS
    <3>2. SubSeq(x, 1, k) = << >>
      BY <3>1, SubSeqEmpty
    <3>. QED
      BY <3>1, <3>2, Zenon
  <2>2. Projected(f, s) = << >>
    BY <1>4, <2>1, NothingOfNothing
  <2>3. Before(p, 1) = Len(Projected(f, s))
    BY <1>1, <1>4, <2>1 DEF Before
  <2>4. Len(<< >>) = 0
    OBVIOUS
  <2>. QED
    BY <2>2, <2>3, <2>4
<1>9. Before(p, l + 1) = Len(y)
  <2>0. l + 1 \in 1 .. l + 1
    OBVIOUS
  <2>1. PICK a, b \in Seq(T) : y = a \o b /\ Len(a) = Before(p, l + 1) /\ b = Ahead(f, x, l + 1)
    BY <1>6, <2>0, Zenon
  <2>2. Ahead(f, x, Len(x) + 1) = << >>
    BY <1>4, AheadInTurn
  <2>3. a \o << >> = a
    OBVIOUS
  <2>. QED
    BY <1>2, <2>1, <2>2, <2>3
<1>10. ASSUME NEW n \in 1 .. l PROVE \E t, m : InLine(p, n, t, m)
  <2>0. n \in 1 .. l + 1 /\ n + 1 \in 1 .. l + 1
    OBVIOUS
  <2>1. PICK a, b \in Seq(T) : y = a \o b /\ Len(a) = Before(p, n) /\ b = Ahead(f, x, n)
    BY <1>6, <2>0, Zenon
  <2>2. PICK a2, c \in Seq(T) : y = a2 \o c /\ Len(a2) = Before(p, n + 1) /\ c = Ahead(f, x, n + 1)
    BY <1>6, <2>0, Zenon
  <2>3. PICK F : F = Phase /\ x \in Seq(F)
    OBVIOUS
  <2>4. x[n] \in F
    BY <1>2, <2>3, ElementOfSeq
  <2>5. PICK t, m \in Seq(T) : /\ x[n] = [thread |-> t, main |-> m]
                               /\ t = x[n].thread /\ m = x[n].main
                               /\ \A j \in 1 .. Len(t) : t[j].op \in ThreadOps
                               /\ t # << >> => \A j \in 1 .. Len(m) : m[j].op \in ReceiveOps
    BY <1>4, <2>3, <2>4 DEF Phase
  <2>6. PICK r \in Seq(T) : r = t \o m /\ f[x[n]] = r
    <3>1. f[x[n]] = t \o m
      BY <1>4, <2>3, <2>4, <2>5 DEF Row
    <3>2. t \o m \in Seq(T)
      BY ConcatProperties
    <3>. QED
      BY <3>1, <3>2
  <2>7. b = r \o c
    <3>1. HeadAndRest(f, x, n, T)
      BY <1>2, <1>4, AheadParts
    <3>. QED
      BY <2>1, <2>2, <2>6, <3>1 DEF HeadAndRest
  <2>8. ASSUME NEW d \in Seq(T), NEW e \in Seq(T), NEW s, s = d \o e
        PROVE  /\ Len(s) = Len(d) + Len(e)
               /\ \A w \in 1 .. Len(d) + Len(e) : s[w] = IF w <= Len(d) THEN d[w] ELSE e[w - Len(d)]
    BY <2>8, ConcatProperties
  <2>9. PICK i, j, k, h \in Nat : i = Len(a) /\ j = Len(t) /\ k = Len(m) /\ h = Len(c)
    OBVIOUS
  <2>10. /\ Len(r) = j + k /\ Len(b) = j + k + h /\ Len(y) = i + (j + k + h) /\ Len(y) = Len(a2) + h
    <3>1. Len(r) = Len(t) + Len(m)
      BY <2>6, <2>8
    <3>2. Len(b) = Len(r) + Len(c)
      BY <2>7, <2>8
    <3>3. Len(y) = Len(a) + Len(b)
      BY <2>1, <2>8
    <3>4. Len(y) = Len(a2) + Len(c)
      BY <2>2, <2>8
    <3>. QED
      BY <2>9, <3>1, <3>2, <3>3, <3>4
  <2>11. Len(a2) = i + j + k
    <3>1. Len(a2) \in Nat
      OBVIOUS
    <3>. QED
      BY <2>10, <3>1
  <2>12. ASSUME NEW z \in 1 .. j + k PROVE y[i + z] = r[z]
    <3>1. b[z] = r[z]
      <4>1. \A w \in 1 .. Len(r) + Len(c) : b[w] = IF w <= Len(r) THEN r[w] ELSE c[w - Len(r)]
        BY <2>7, <2>8
      <4>. QED
        BY <2>9, <2>10, <4>1
    <3>2. i + z \in 1 .. i + (j + k + h) /\ ~(i + z <= i) /\ (i + z) - i = z
      OBVIOUS
    <3>3. \A w \in 1 .. i + (j + k + h) : y[w] = IF w <= i THEN a[w] ELSE b[w - i]
      <4>1. \A w \in 1 .. Len(a) + Len(b) : y[w] = IF w <= Len(a) THEN a[w] ELSE b[w - Len(a)]
        BY <2>1, <2>8
      <4>. QED
        BY <2>9, <2>10, <4>1
    <3>4. y[i + z] = b[(i + z) - i]
      BY <3>2, <3>3
    <3>. QED
      BY <3>1, <3>2, <3>4
  <2>13. ASSUME NEW z \in 1 .. j PROVE y[i + z] = t[z]
    <3>1. r[z] = t[z]
      <4>1. \A w \in 1 .. Len(t) + Len(m) : r[w] = IF w <= Len(t) THEN t[w] ELSE m[w - Len(t)]
        BY <2>6, <2>8
      <4>. QED
        BY <2>9, <4>1, z \in 1 .. Len(t) + Len(m), z <= Len(t)
    <3>. QED
      BY <2>12, <3>1, SMTT(60)
  <2>14. ASSUME NEW z \in 1 .. k PROVE y[i + j + z] = m[z]
    <3>1. r[j + z] = m[z]
      <4>1. j + z \in 1 .. j + k /\ ~(j + z <= j) /\ (j + z) - j = z
        OBVIOUS
      <4>2. \A w \in 1 .. j + k : r[w] = IF w <= j THEN t[w] ELSE m[w - j]
        <5>1. \A w \in 1 .. Len(t) + Len(m) : r[w] = IF w <= Len(t) THEN t[w] ELSE m[w - Len(t)]
          BY <2>6, <2>8
        <5>. QED
          BY <2>9, <5>1
      <4>3. r[j + z] = m[(j + z) - j]
        BY <4>1, <4>2
      <4>. QED
        BY <4>1, <4>3
    <3>2. y[i + (j + z)] = r[j + z]
      <4>1. PICK w \in 1 .. j + k : w = j + z
        OBVIOUS
      <4>2. y[i + w] = r[w]
        BY <2>12
      <4>. QED
        BY <4>1, <4>2
    <3>3. i + (j + z) = i + j + z
      OBVIOUS
    <3>. QED
      BY <3>1, <3>2, <3>3
  <2>15. i + j + k <= Len(y)
    BY <2>10
  <2>16. InLine(p, n, t, m)
    <3>1. t \in Seq(Instruction) /\ m \in Seq(Instruction)
      BY <1>4
    <3>2. t = Program[p][n].thread /\ m = Program[p][n].main /\ Program[p][n] = [thread |-> t, main |-> m]
      BY <1>1, <2>5
    <3>3. Before(p, n) = i /\ Before(p, n + 1) = i + j + k
      BY <2>1, <2>2, <2>9, <2>11
    <3>4. i + j + k <= Len(Line[p])
      BY <1>3, <2>15
    <3>5. \A z \in 1 .. j : Line[p][i + z] = t[z] /\ t[z].op \in ThreadOps
      BY <1>3, <2>5, <2>9, <2>13
    <3>6. \A z \in 1 .. k : Line[p][i + j + z] = m[z] /\ (t # << >> => m[z].op \in ReceiveOps)
      BY <1>3, <2>5, <2>9, <2>14
    <3>. QED
      BY <2>9, <3>1, <3>2, <3>3, <3>4, <3>5, <3>6, Zenon DEF InLine
  <2>. QED
    BY <2>16
<1>. QED
  BY <1>1, <1>2, <1>3, <1>7, <1>8, <1>9, <1>10

\* A step over an instruction with nothing for the channels, and no step.
LEMMA StepSkips ==
  ASSUME NEW Q, NEW fs, NEW prog, NEW pos, NEW pos2, NEW p \in Q,
         \A q \in Q : Len(prog[q]) \in Nat /\ pos[q] \in 1 .. Len(prog[q]) + 1
  PROVE  /\ SkipsOver(Q, fs, prog, pos, pos)
         /\ MovesOn(Q, prog, p, pos, pos2) /\ (\A r \in Q : fs[r][prog[p][pos[p]]] = << >>)
            => SkipsOver(Q, fs, prog, pos, pos2)
<1>1. ASSUME NEW q \in Q, NEW f PROVE Passes(f, prog[q], pos[q], pos[q])
  <2>1. PICK l, n \in Nat : l = Len(prog[q]) /\ n = pos[q] /\ n \in 1 .. l + 1
    OBVIOUS
  <2>2. n \in 1 .. n /\ \A k \in n .. n - 1 : FALSE
    BY <2>1
  <2>. QED
    BY <2>1, <2>2 DEF Passes
<1>2. ASSUME MovesOn(Q, prog, p, pos, pos2), \A r \in Q : fs[r][prog[p][pos[p]]] = << >>,
             NEW q \in Q, NEW r \in Q
      PROVE  Passes(fs[r], prog[q], pos[q], pos2[q])
  <2>1. CASE q = p
    <3>1. PICK l, n \in Nat : l = Len(prog[p]) /\ n = pos[p] /\ n \in 1 .. l + 1
      OBVIOUS
    <3>2. n <= l /\ pos2[p] = n + 1
      BY <1>2, <3>1 DEF MovesOn
    <3>3. n + 1 \in 1 .. l + 1 /\ n \in 1 .. n + 1 /\ \A k \in n .. (n + 1) - 1 : k = n
      BY <3>1, <3>2
    <3>. QED
      BY <1>2, <2>1, <3>1, <3>2, <3>3 DEF Passes
  <2>2. CASE q # p
    BY <1>1, <1>2, <2>2 DEF MovesOn
  <2>. QED
    BY <2>1, <2>2
<1>. QED
  BY <1>1, <1>2 DEF SkipsOver

\* Where the places are.
LEMMA MeetingPlaces ==
  ASSUME NEW Q, NEW D, NEW T, NEW snd, NEW rcv, NEW prog, NEW sp, NEW rp, NEW ch,
         Meeting(Q, D, T, snd, rcv, prog, sp, rp, ch), NEW q \in Q
  PROVE  Len(prog[q]) \in Nat /\ sp[q] \in 1 .. Len(prog[q]) + 1 /\ rp[q] \in 1 .. Len(prog[q]) + 1
<1>1. prog[q] \in Seq(D)
  BY DEF Meeting, Traders
<1>. QED
  BY <1>1 DEF Meeting

\* Over one that sends a message, which is nothing to the receiving thread.
LEMMA OneSentMeets ==
  ASSUME NEW Q, NEW D, NEW T, NEW snd, NEW rcv, NEW prog, NEW sp, NEW rp, NEW ch,
         Meeting(Q, D, T, snd, rcv, prog, sp, rp, ch),
         NEW p \in Q, NEW sp2, MovesOn(Q, prog, p, sp, sp2),
         NEW rp2, SkipsOver(Q, rcv, prog, rp, rp2),
         NEW i, i = prog[p][sp[p]], NEW r \in Q, NEW v, v.tag \in T,
         SendsOnly(Q, snd, rcv, i, r, v.tag), NEW ch2, SendsOne(Q, p, r, v, ch, ch2)
  PROVE  Meeting(Q, D, T, snd, rcv, prog, sp2, rp2, ch2)
<1>2. PICK m : m = [b \in Q |-> IF b = r THEN << v >> ELSE << >>]
  OBVIOUS
<1>3. ASSUME NEW b \in Q
      PROVE  IsSeq(m[b]) /\ TagsOf(m[b]) = snd[b][i] /\ ch2[p][b] = ch[p][b] \o m[b]
  <2>0. OnItsWay(ch[p][b], T)
    BY OfMeeting
  <2>1. PICK c : c = ch[p][b] /\ IsSeq(c)
    BY <2>0 DEF OnItsWay
  <2>2. PICK S : S = Range(c) \cup {v}
    OBVIOUS
  <2>3. c \in Seq(S) /\ v \in S
    BY <2>1, <2>2 DEF IsSeq
  <2>4. Append(c, v) = c \o << v >> /\ c \o << >> = c
    BY <2>3
  <2>5. CASE b = r
    <3>1. m[b] = << v >> /\ ch2[p][b] = c \o << v >>
      BY <1>2, <2>1, <2>4, <2>5 DEF SendsOne
    <3>2. OnItsWay(Append(<< >>, v), T) /\ TagsOf(Append(<< >>, v)) = TagsOf(<< >>) \o << v.tag >>
      <4>1. OnItsWay(<< >>, T)
        BY NoTags
      <4>. QED
        BY <4>1, OneBehind
    <3>3. TagsOf(<< >>) = << >> /\ << >> \o << v.tag >> = << v.tag >>
      BY NoTags, TagAlone, TagsTogether
    <3>4. Append(<< >>, v) = << v >>
      OBVIOUS
    <3>5. snd[b][i] = << v.tag >>
      BY <2>5 DEF SendsOnly
    <3>. QED
      BY <2>1, <3>1, <3>2, <3>3, <3>4, <3>5 DEF OnItsWay
  <2>6. CASE b # r
    <3>1. m[b] = << >> /\ snd[b][i] = << >> /\ ch2[p][b] = c
      BY <1>2, <2>1, <2>6 DEF SendsOnly, SendsOne
    <3>. QED
      BY <2>1, <2>4, <3>1, NoTags DEF OnItsWay
  <2>. QED
    BY <2>5, <2>6
<1>4. SendsAll(Q, snd, i, p, m, ch, ch2)
  <2>1. \A a, b \in Q : a # p => ch2[a][b] = ch[a][b]
    BY DEF SendsOne
  <2>. QED
    BY <1>3, <2>1 DEF SendsAll
<1>5. Meeting(Q, D, T, snd, rcv, prog, sp2, rp, ch2)
  BY <1>4, SendingMeets
<1>6. SkipsOver(Q, snd, prog, sp2, sp2)
  <2>1. \A q \in Q : Len(prog[q]) \in Nat /\ sp2[q] \in 1 .. Len(prog[q]) + 1
    BY <1>5, MeetingPlaces
  <2>. QED
    BY <2>1, StepSkips
<1>. QED
  BY <1>5, <1>6, SkippingMeets

\* Over one that receives a message, which is nothing to the sending thread.
LEMMA OneReceivedMeets ==
  ASSUME NEW Q, NEW D, NEW T, NEW snd, NEW rcv, NEW prog, NEW sp, NEW rp, NEW ch,
         Meeting(Q, D, T, snd, rcv, prog, sp, rp, ch),
         NEW p \in Q, NEW rp2, MovesOn(Q, prog, p, rp, rp2),
         NEW sp2, SkipsOver(Q, snd, prog, sp, sp2),
         NEW i, i = prog[p][rp[p]], NEW r \in Q, NEW t \in T,
         ReceivesOnly(Q, snd, rcv, i, r, t), NEW ch2, TakesOne(Q, p, r, ch, ch2)
  PROVE  Meeting(Q, D, T, snd, rcv, prog, sp2, rp2, ch2)
<1>2. \A a, b \in Q : OnItsWay(ch[a][b], T)
  BY OfMeeting
<1>5. ASSUME NEW q \in Q
      PROVE  /\ Len(rcv[q][i]) <= Len(ch[q][p])
             /\ ch2[q][p] = SubSeq(ch[q][p], Len(rcv[q][i]) + 1, Len(ch[q][p]))
  <2>1. PICK c : c = ch[q][p] /\ IsSeq(c)
    BY <1>2 DEF OnItsWay
  <2>2. PICK S : S = Range(c)
    OBVIOUS
  <2>3. c \in Seq(S) /\ Len(c) \in Nat
    BY <2>1, <2>2 DEF IsSeq
  <2>4. CASE q = r
    <3>1. c # << >> /\ ch2[q][p] = Tail(c) /\ rcv[q][i] = << t >>
      BY <2>1, <2>4 DEF TakesOne, ReceivesOnly
    <3>2. Len(c) >= 1 /\ Tail(c) = SubSeq(c, 2, Len(c))
      BY <2>3, <3>1
    <3>3. Len(<< t >>) = 1 /\ 1 + 1 = 2
      BY TagAlone
    <3>. QED
      BY <2>1, <2>3, <3>1, <3>2, <3>3
  <2>5. CASE q # r
    <3>1. ch2[q][p] = c /\ rcv[q][i] = << >>
      BY <2>1, <2>5 DEF TakesOne, ReceivesOnly
    <3>2. SubSeq(c, 1, Len(c)) = c
      BY <2>3
    <3>3. Len(<< >>) = 0 /\ 0 + 1 = 1
      OBVIOUS
    <3>. QED
      BY <2>1, <2>3, <3>1, <3>2, <3>3
  <2>. QED
    BY <2>4, <2>5
<1>6. TakesAll(Q, rcv, i, p, ch, ch2)
  <2>1. \A a, b \in Q : b # p => ch2[a][b] = ch[a][b]
    BY DEF TakesOne
  <2>. QED
    BY <1>5, <2>1 DEF TakesAll
<1>7. Meeting(Q, D, T, snd, rcv, prog, sp, rp2, ch2)
  BY <1>6, ReceivingMeets
<1>8. SkipsOver(Q, rcv, prog, rp2, rp2)
  <2>1. \A q \in Q : Len(prog[q]) \in Nat /\ rp2[q] \in 1 .. Len(prog[q]) + 1
    BY <1>7, MeetingPlaces
  <2>. QED
    BY <2>1, StepSkips
<1>. QED
  BY <1>7, <1>8, SkippingMeets

\* All the messages that the instruction a party is at takes are on their way
\* in the order it takes them in.
LEMMA MessagesMeet ==
  ASSUME NEW Q, NEW D, NEW T, NEW snd, NEW rcv, NEW prog, NEW sp, NEW rp, NEW ch,
         Meeting(Q, D, T, snd, rcv, prog, sp, rp, ch),
         NEW p \in Q, rp[p] <= Len(prog[p]), NEW r \in Q, NEW t, t = rcv[r][prog[p][rp[p]]],
         NEW d \in DOMAIN t, d <= Len(ch[r][p])
  PROVE  ch[r][p][d].tag = t[d]
<1>1. PICK y \in Seq(D) : y = prog[p]
  BY OfMeeting
<1>2. PICK n \in 1 .. Len(y) : n = rp[p]
  BY <1>1, OfMeeting
<1>3. PICK f, g, c : f = snd[p] /\ g = rcv[r] /\ c = ch[r][p]
  OBVIOUS
<1>4. PICK x \in Seq(D) : x = prog[r]
  BY OfMeeting
<1>5. PICK j : j = sp[r]
  OBVIOUS
<1>6. /\ Maps(g, D, T) /\ OnItsWay(c, T) /\ Matches(c, f, x, j, g, y, n)
      /\ Ahead(f, x, j) \in Seq(T)
  BY <1>1, <1>2, <1>3, <1>4, <1>5, OfMeeting
<1>7. PICK u, w \in Seq(T) : u = t /\ w = Ahead(g, y, n + 1) /\ Ahead(g, y, n) = u \o w
  <2>1. HeadAndRest(g, y, n, T)
    BY <1>6, AheadParts
  <2>. QED
    BY <1>1, <1>2, <1>3, <2>1 DEF HeadAndRest
<1>8. PICK s, v \in Seq(T) : s = TagsOf(c) /\ v = Ahead(f, x, j)
  BY <1>6 DEF OnItsWay
<1>9. s \o v = u \o w
  BY <1>6, <1>7, <1>8 DEF Matches
<1>10. IsSeq(c) /\ Len(c) \in Nat
  BY <1>6 DEF OnItsWay, IsSeq
<1>11. Len(s) = Len(c) /\ \A k \in 1 .. Len(c) : s[k] = c[k].tag
  <2>1. s = [k \in 1 .. Len(c) |-> c[k].tag]
    BY <1>8 DEF TagsOf
  <2>. QED
    BY <1>10, <2>1
<1>12. d \in 1 .. Len(u) /\ d \in 1 .. Len(s)
  <2>1. d \in DOMAIN u /\ d <= Len(c)
    BY <1>3, <1>7
  <2>2. PICK k \in Nat : k = Len(u) /\ DOMAIN u = 1 .. k
    OBVIOUS
  <2>3. d \in 1 .. k
    BY <2>1, <2>2
  <2>4. d \in 1 .. Len(c)
    BY <1>10, <2>1, <2>3
  <2>. QED
    BY <1>11, <2>2, <2>3, <2>4
<1>13. (s \o v)[d] = s[d] /\ (u \o w)[d] = u[d]
  BY <1>12, ConcatProperties
<1>. QED
  BY <1>3, <1>7, <1>9, <1>10, <1>11, <1>12, <1>13

-----------------------------------------------------------------------------
(* The parties in step.                                                      *)

\* Where a party's two threads are in its line, when they are at w in phase n.
\* While there is nothing for a second thread the main one sends too.
SendAt(p, n, w) ==
  Before(p, n) + (IF n > Len(Program[p]) THEN 1
                  ELSE IF Program[p][n].thread = << >> THEN w["main"] ELSE w["thread"])
ReceiveAt(p, n, w) ==
  Before(p, n) + (IF n > Len(Program[p]) THEN 1 ELSE Len(Program[p][n].thread) + w["main"])

SendPlace == [p \in Parties |-> SendAt(p, phase[p], at[p])]
ReceivePlace == [p \in Parties |-> ReceiveAt(p, phase[p], at[p])]

PlacesOK ==
  /\ phase = [p \in Parties |-> phase[p]]
  /\ at = [p \in Parties |-> [th \in Threads |-> at[p][th]]]
  /\ \A p \in Parties :
       /\ phase[p] \in 1 .. Len(Program[p]) + 1
       /\ ~Finished(p) => \A th \in Threads : at[p][th] \in 1 .. Len(Code(p, th)) + 1

ChannelsOK == chan = [p \in Parties |-> [q \in Parties |-> chan[p][q]]]

\* What is on its way is what was sent and not yet received.
Met == Meeting(Parties, Instruction, Tag, SentTo, ReceivedFrom, Line, SendPlace, ReceivePlace, chan)

\* P1's queues hold what was put into them and not yet taken out: products are
\* opened where it receives, and sent in another thread.
Fits(f, i, k, g, j) == Len(Ahead(f, Line[0], i)) + k = Len(Ahead(g, Line[0], j))
QueuesOK ==
  /\ IsSeq(fromLast) /\ IsSeq(toSend)
  /\ Fits(PushesLast, ReceivePlace[0], Len(fromLast), PopsLast, ReceivePlace[0])
  /\ Fits(PopsLast, ReceivePlace[0], Len(toSend), PopsOpened, SendPlace[0])

InStep == PlacesOK /\ ChannelsOK /\ Met /\ QueuesOK

\* What a party that has not finished is at: t is what the thread is told in
\* this phase and m what the main one is, a and b how far they are.
WorksAt(p, n, t, m, a, b) ==
  /\ n = phase[p] /\ n \in 1 .. Len(Program[p]) /\ InLine(p, n, t, m)
  /\ a = at[p]["thread"] /\ a \in 1 .. Len(t) + 1 /\ b = at[p]["main"] /\ b \in 1 .. Len(m) + 1
  /\ Code(p, "thread") = t /\ Code(p, "main") = m
  /\ SendPlace[p] = Before(p, n) + (IF t = << >> THEN b ELSE a)
  /\ ReceivePlace[p] = Before(p, n) + (Len(t) + b)

LEMMA Works ==
  ASSUME PlacesOK, NEW p \in Parties, ~Finished(p)
  PROVE  \E n, t, m, a, b : WorksAt(p, n, t, m, a, b)
<1>1. PICK l \in Nat : l = Len(Program[p])
  BY PhaseInLine
<1>2. PICK n \in 1 .. l : n = phase[p]
  <2>1. phase[p] \in 1 .. l + 1 /\ ~(phase[p] > l)
    BY <1>1 DEF PlacesOK, Finished
  <2>. QED
    BY <2>1
<1>3. PICK t, m : InLine(p, n, t, m)
  BY <1>1, PhaseInLine
<1>4. Code(p, "thread") = t /\ Code(p, "main") = m
  BY <1>2, <1>3 DEF Code, InLine
<1>5. PICK a, b : a = at[p]["thread"] /\ a \in 1 .. Len(t) + 1 /\ b = at[p]["main"] /\ b \in 1 .. Len(m) + 1
  BY <1>4 DEF PlacesOK, Threads
<1>6. ~(n > l) /\ Program[p][n].thread = t
  BY <1>3 DEF InLine
<1>7. SendPlace[p] = Before(p, n) + (IF t = << >> THEN b ELSE a)
  BY <1>1, <1>2, <1>5, <1>6 DEF SendPlace, SendAt
<1>8. ReceivePlace[p] = Before(p, n) + (Len(t) + b)
  BY <1>1, <1>2, <1>5, <1>6 DEF ReceivePlace, ReceiveAt
<1>9. WorksAt(p, n, t, m, a, b)
  BY <1>1, <1>2, <1>3, <1>4, <1>5, <1>7, <1>8 DEF WorksAt
<1>. QED
  BY <1>9

\* A thread that has begun is not behind: it sends where the other receives, or
\* further back.
LEMMA SendsFirst ==
  ASSUME PlacesOK, NEW p \in Parties
  PROVE  /\ Len(Line[p]) \in Nat
         /\ SendPlace[p] \in 1 .. Len(Line[p]) + 1 /\ ReceivePlace[p] \in 1 .. Len(Line[p]) + 1
         /\ SendPlace[p] <= ReceivePlace[p]
         /\ Finished(p) => SendPlace[p] = Len(Line[p]) + 1 /\ ReceivePlace[p] = Len(Line[p]) + 1
<1>1. PICK l, k \in Nat : l = Len(Program[p]) /\ k = Len(Line[p])
  BY PhaseInLine, LineType
<1>2. CASE Finished(p)
  <2>1. phase[p] > l /\ phase[p] \in 1 .. l + 1
    BY <1>1, <1>2 DEF Finished, PlacesOK
  <2>2. phase[p] = l + 1 /\ Before(p, l + 1) = k
    BY <1>1, <2>1, PhaseInLine
  <2>3. SendPlace[p] = k + 1 /\ ReceivePlace[p] = k + 1
    BY <1>1, <2>1, <2>2 DEF SendPlace, ReceivePlace, SendAt, ReceiveAt
  <2>. QED
    BY <1>1, <2>3
<1>3. CASE ~Finished(p)
  <2>1. PICK n, t, m, a, b : WorksAt(p, n, t, m, a, b)
    BY <1>3, Works
  <2>2. PICK u, v \in Nat : u = Len(t) /\ v = Len(m) /\ a \in 1 .. u + 1 /\ b \in 1 .. v + 1
    BY <2>1, SMTT(60) DEF WorksAt, InLine
  <2>3. PICK e \in Nat : e = Before(p, n)
    <3>1. n \in 1 .. l + 1
      BY <1>1, <2>1 DEF WorksAt
    <3>. QED
      BY <1>1, <3>1, PhaseInLine
  <2>4. e + u + v <= k
    BY <1>1, <2>1, <2>2, <2>3 DEF WorksAt, InLine
  <2>5. t = << >> => u = 0
    BY <2>2
  <2>6. SendPlace[p] = e + (IF t = << >> THEN b ELSE a) /\ ReceivePlace[p] = e + (u + b)
    BY <2>1, <2>2, <2>3 DEF WorksAt
  <2>7. CASE t = << >>
    BY <1>1, <1>3, <2>2, <2>4, <2>5, <2>6, <2>7
  <2>8. CASE t # << >>
    BY <1>1, <1>3, <2>2, <2>4, <2>6, <2>8
  <2>. QED
    BY <2>7, <2>8
<1>. QED
  BY <1>2, <1>3

\* A thread goes on, behind the instruction i.
SendsOn(p, i) == i = Line[p][SendPlace[p]] /\ MovesOn(Parties, Line, p, SendPlace, SendPlace')
ReceivesOn(p, i) == i = Line[p][ReceivePlace[p]] /\ MovesOn(Parties, Line, p, ReceivePlace, ReceivePlace')
Moved(p, i) ==
  /\ i \in Instruction
  /\ SendsOn(p, i) \/ (SendPlace' = SendPlace /\ i.op \in ReceiveOps)
  /\ ReceivesOn(p, i) \/ (ReceivePlace' = ReceivePlace /\ i.op \in ThreadOps)

\* In every step but a join one thread goes on by one instruction.
LEMMA GoesOn ==
  ASSUME PlacesOK, NEW p \in Parties, NEW th \in Threads, NEW op, At(p, th, op), Proceed(p, th)
  PROVE  PlacesOK' /\ Moved(p, Instr(p, th)) /\ Instr(p, th).op = op
<1>0. ~Finished(p) /\ ~Through(p, th) /\ Instr(p, th).op = op /\ Instr(p, th) = Code(p, th)[at[p][th]]
  BY DEF At, Instr
<1>1. PICK n, t, m, a, b : WorksAt(p, n, t, m, a, b)
  BY <1>0, Works
<1>2. PICK u, v \in Nat : u = Len(t) /\ v = Len(m) /\ a \in 1 .. u + 1 /\ b \in 1 .. v + 1
  BY <1>1, SMTT(60) DEF WorksAt, InLine
<1>3. PICK e \in Nat, k \in Nat : e = Before(p, n) /\ k = Len(Line[p]) /\ e + u + v <= k
  <2>1. n \in 1 .. Len(Program[p]) + 1 /\ Len(Line[p]) \in Nat
    BY <1>1, PhaseInLine, LineType DEF WorksAt
  <2>2. Before(p, n) \in Nat
    BY <2>1, PhaseInLine
  <2>. QED
    BY <1>1, <1>2, <2>1, <2>2 DEF WorksAt, InLine
<1>4. /\ t \in Seq(Instruction) /\ m \in Seq(Instruction)
      /\ \A j \in 1 .. u : Line[p][e + j] = t[j] /\ t[j].op \in ThreadOps
      /\ \A j \in 1 .. v : Line[p][e + u + j] = m[j] /\ (t # << >> => m[j].op \in ReceiveOps)
  BY <1>1, <1>2, <1>3 DEF WorksAt, InLine
<1>5. /\ SendPlace[p] = e + (IF t = << >> THEN b ELSE a) /\ ReceivePlace[p] = e + (u + b)
      /\ n = phase[p] /\ a = at[p]["thread"] /\ b = at[p]["main"]
      /\ Code(p, "thread") = t /\ Code(p, "main") = m
  BY <1>1, <1>2, <1>3 DEF WorksAt
<1>6. /\ phase' = phase /\ at' = [at EXCEPT ![p][th] = @ + 1]
      /\ phase = [q \in Parties |-> phase[q]] /\ at = [q \in Parties |-> [w \in Threads |-> at[q][w]]]
  BY DEF Proceed, PlacesOK
<1>7. /\ at'[p][th] = at[p][th] + 1
      /\ \A w \in Threads : w # th => at'[p][w] = at[p][w]
      /\ \A q \in Parties : q # p => at'[q] = at[q]
      /\ at' = [q \in Parties |-> [w \in Threads |-> at'[q][w]]]
  BY <1>6
<1>8. PlacesOK'
  <2>1. \A q \in Parties : (Finished(q)' <=> Finished(q)) /\ \A w \in Threads : Code(q, w)' = Code(q, w)
    BY <1>6 DEF Finished, Code
  <2>2. phase' = [q \in Parties |-> phase'[q]]
    BY <1>6
  <2>3. ASSUME NEW q \in Parties
        PROVE  /\ phase'[q] \in 1 .. Len(Program[q]) + 1
               /\ ~Finished(q)' => \A w \in Threads : at'[q][w] \in 1 .. Len(Code(q, w)) + 1
    <3>1. phase'[q] \in 1 .. Len(Program[q]) + 1
      BY <1>6 DEF PlacesOK
    <3>2. CASE q # p
      BY <1>7, <2>1, <3>1, <3>2 DEF PlacesOK
    <3>3. CASE q = p
      <4>1. \A w \in Threads : w # th => at'[p][w] \in 1 .. Len(Code(p, w)) + 1
        BY <1>0, <1>7 DEF PlacesOK
      <4>2. at'[p][th] \in 1 .. Len(Code(p, th)) + 1
        <5>1. PICK z \in Nat : z = Len(Code(p, th))
          BY <1>2, <1>5 DEF Threads
        <5>2. at[p][th] \in 1 .. z + 1 /\ ~(at[p][th] > z)
          BY <1>0, <5>1 DEF PlacesOK, Through
        <5>. QED
          BY <1>7, <5>1, <5>2
      <4>. QED
        BY <3>1, <3>3, <4>1, <4>2
    <3>. QED
      BY <3>2, <3>3
  <2>. QED
    BY <1>7, <2>1, <2>2, <2>3 DEF PlacesOK
<1>9. /\ \A q \in Parties : q # p => SendPlace'[q] = SendPlace[q] /\ ReceivePlace'[q] = ReceivePlace[q]
      /\ SendPlace'[p] = e + (IF t = << >> THEN at'[p]["main"] ELSE at'[p]["thread"])
      /\ ReceivePlace'[p] = e + (u + at'[p]["main"])
  <2>1. \A q \in Parties : q # p => SendPlace'[q] = SendPlace[q] /\ ReceivePlace'[q] = ReceivePlace[q]
    BY <1>6, <1>7 DEF SendPlace, ReceivePlace
  <2>2. n \in 1 .. Len(Program[p]) /\ Program[p][n].thread = t /\ Len(Program[p]) \in Nat
    BY <1>1, PhaseInLine DEF WorksAt, InLine
  <2>3. ~(n > Len(Program[p]))
    BY <2>2
  <2>4. SendPlace'[p] = SendAt(p, n, at'[p]) /\ ReceivePlace'[p] = ReceiveAt(p, n, at'[p])
    BY <1>5, <1>6 DEF SendPlace, ReceivePlace
  <2>. QED
    BY <1>2, <1>3, <2>1, <2>2, <2>3, <2>4 DEF SendAt, ReceiveAt
<1>10. PICK i : i = Instr(p, th) /\ i.op = op
  BY <1>0
<1>11. CASE th = "thread"
  <2>1. a \in 1 .. u /\ i = t[a]
    <3>1. ~(a > u)
      BY <1>0, <1>2, <1>5, <1>11 DEF Through
    <3>. QED
      BY <1>0, <1>2, <1>5, <1>10, <1>11, <3>1
  <2>2. i = Line[p][e + a] /\ i.op \in ThreadOps /\ i \in Instruction /\ t # << >>
    <3>1. t # << >>
      BY <1>2, <2>1
    <3>2. i \in Instruction
      BY <1>2, <1>4, <2>1, ElementOfSeq
    <3>. QED
      BY <1>4, <2>1, <3>1, <3>2
  <2>3. at'[p]["thread"] = a + 1 /\ at'[p]["main"] = b
    BY <1>5, <1>7, <1>11 DEF Threads
  <2>4. SendPlace[p] = e + a /\ SendPlace'[p] = (e + a) + 1
    BY <1>2, <1>5, <1>9, <2>2, <2>3
  <2>5. SendsOn(p, i)
    <3>1. e + a <= Len(Line[p])
      BY <1>2, <1>3, <2>1, SMTT(60)
    <3>. QED
      BY <1>9, <2>2, <2>4, <3>1 DEF SendsOn, MovesOn
  <2>6. ReceivePlace' = ReceivePlace
    <3>1. \A q \in Parties : ReceivePlace'[q] = ReceivePlace[q]
      BY <1>5, <1>9, <2>3
    <3>2. ReceivePlace = [q \in Parties |-> ReceivePlace[q]] /\ ReceivePlace' = [q \in Parties |-> ReceivePlace'[q]]
      BY DEF ReceivePlace
    <3>. QED
      BY <3>1, <3>2
  <2>. QED
    BY <1>8, <1>10, <2>2, <2>5, <2>6 DEF Moved
<1>12. CASE th = "main"
  <2>1. b \in 1 .. v /\ i = m[b]
    <3>1. ~(b > v)
      BY <1>0, <1>2, <1>5, <1>12 DEF Through
    <3>. QED
      BY <1>0, <1>2, <1>5, <1>10, <1>12, <3>1, SMTT(60)
  <2>2. i = Line[p][e + u + b] /\ (t # << >> => i.op \in ReceiveOps) /\ i \in Instruction
    <3>2. i \in Instruction
      BY <1>2, <1>4, <2>1, ElementOfSeq
    <3>. QED
      BY <1>4, <2>1, <3>2
  <2>3. at'[p]["thread"] = a /\ at'[p]["main"] = b + 1
    BY <1>5, <1>7, <1>12 DEF Threads
  <2>4. ReceivePlace[p] = e + u + b /\ ReceivePlace'[p] = (e + u + b) + 1
    BY <1>2, <1>5, <1>9, <2>3
  <2>5. ReceivesOn(p, i)
    <3>1. e + u + b <= Len(Line[p])
      BY <1>2, <1>3, <2>1, SMTT(60)
    <3>. QED
      BY <1>9, <2>2, <2>4, <3>1 DEF ReceivesOn, MovesOn
  <2>6. CASE t = << >>
    <3>1. u = 0
      BY <1>2, <2>6
    <3>2. SendPlace[p] = e + u + b /\ SendPlace'[p] = (e + u + b) + 1
      BY <1>2, <1>5, <1>9, <2>3, <2>6, <3>1
    <3>3. e + u + b <= Len(Line[p])
      BY <1>2, <1>3, <2>1, SMTT(60)
    <3>4. SendsOn(p, i)
      BY <1>9, <2>2, <3>2, <3>3 DEF SendsOn, MovesOn
    <3>. QED
      BY <1>8, <1>10, <2>2, <2>5, <3>4 DEF Moved
  <2>7. CASE t # << >>
    <3>1. \A q \in Parties : SendPlace'[q] = SendPlace[q]
      BY <1>5, <1>9, <2>3, <2>7
    <3>2. SendPlace = [q \in Parties |-> SendPlace[q]] /\ SendPlace' = [q \in Parties |-> SendPlace'[q]]
      BY DEF SendPlace
    <3>3. SendPlace' = SendPlace
      BY <3>1, <3>2
    <3>. QED
      BY <1>8, <1>10, <2>2, <2>5, <2>7, <3>3 DEF Moved
  <2>. QED
    BY <2>6, <2>7
<1>. QED
  BY <1>11, <1>12 DEF Threads

\* At a join the place to send at leaves behind what the main thread has
\* received, and the place to receive at what the next thread is to send.
Skips(p) ==
  /\ SendPlace'[p] \in 1 .. Len(Line[p]) + 1 /\ SendPlace[p] \in 1 .. SendPlace'[p]
  /\ ReceivePlace'[p] \in 1 .. Len(Line[p]) + 1 /\ ReceivePlace[p] \in 1 .. ReceivePlace'[p]
  /\ \A k \in SendPlace[p] .. SendPlace'[p] - 1 : Line[p][k].op \in ReceiveOps
  /\ \A k \in ReceivePlace[p] .. ReceivePlace'[p] - 1 : Line[p][k].op \in ThreadOps
  /\ \A q \in Parties : q # p => SendPlace'[q] = SendPlace[q] /\ ReceivePlace'[q] = ReceivePlace[q]

LEMMA Joins ==
  ASSUME PlacesOK, NEW p \in Parties, Join(p)
  PROVE  PlacesOK' /\ Skips(p)
<1>0. ~Finished(p) /\ Through(p, "thread") /\ Through(p, "main")
  BY DEF Join, Threads
<1>1. PICK n, t, m, a, b : WorksAt(p, n, t, m, a, b)
  BY <1>0, Works
<1>2. PICK u, v \in Nat : u = Len(t) /\ v = Len(m) /\ a \in 1 .. u + 1 /\ b \in 1 .. v + 1
  BY <1>1, SMTT(60) DEF WorksAt, InLine
<1>3. PICK l, k \in Nat : l = Len(Program[p]) /\ k = Len(Line[p]) /\ n \in 1 .. l
  BY <1>1, PhaseInLine, LineType DEF WorksAt
<1>4. PICK e \in Nat : e = Before(p, n) /\ e + u + v <= k /\ Before(p, n + 1) = e + u + v
  <2>1. Before(p, n) \in Nat
    BY <1>3, PhaseInLine
  <2>. QED
    BY <1>1, <1>2, <1>3, <2>1 DEF WorksAt, InLine
<1>5. \A j \in 1 .. v : Line[p][e + u + j] = m[j] /\ (t # << >> => m[j].op \in ReceiveOps)
  BY <1>1, <1>2, <1>4 DEF WorksAt, InLine
<1>6. a = u + 1 /\ b = v + 1
  <2>1. a > u /\ b > v
    BY <1>0, <1>1, <1>2 DEF Through, WorksAt
  <2>. QED
    BY <1>2, <2>1
<1>7. SendPlace[p] = (IF t = << >> THEN e + u + v ELSE e + u) + 1 /\ ReceivePlace[p] = e + u + v + 1
  <2>1. SendPlace[p] = e + (IF t = << >> THEN b ELSE a) /\ ReceivePlace[p] = e + (u + b)
    BY <1>1, <1>2, <1>4 DEF WorksAt
  <2>2. CASE t = << >>
    <3>1. u = 0
      BY <1>2, <2>2
    <3>. QED
      BY <1>6, <2>1, <2>2, <3>1
  <2>3. CASE t # << >>
    BY <1>6, <2>1, <2>3
  <2>. QED
    BY <2>2, <2>3
<1>8. /\ phase' = [phase EXCEPT ![p] = @ + 1] /\ at' = [at EXCEPT ![p] = Starting]
      /\ phase = [q \in Parties |-> phase[q]] /\ at = [q \in Parties |-> [w \in Threads |-> at[q][w]]]
  BY DEF Join, PlacesOK
<1>9. /\ phase'[p] = n + 1 /\ at'[p] = Starting
      /\ \A q \in Parties : q # p => phase'[q] = phase[q] /\ at'[q] = at[q]
      /\ phase' = [q \in Parties |-> phase'[q]] /\ at' = [q \in Parties |-> [w \in Threads |-> at'[q][w]]]
  <2>1. phase[p] = n
    BY <1>1 DEF WorksAt
  <2>2. \A q \in Parties : at'[q] = [w \in Threads |-> at'[q][w]]
    BY <1>8 DEF Starting
  <2>3. at' = [q \in Parties |-> at'[q]]
    BY <1>8
  <2>. QED
    BY <1>8, <2>1, <2>2, <2>3
<1>10. Starting["thread"] = 1 /\ Starting["main"] = 1
  BY DEF Starting, Threads
<1>11. PlacesOK'
  <2>1. ASSUME NEW q \in Parties
        PROVE  /\ phase'[q] \in 1 .. Len(Program[q]) + 1
               /\ ~Finished(q)' => \A w \in Threads : at'[q][w] \in 1 .. Len(Code(q, w)') + 1
    <3>1. CASE q # p
      <4>1. (Finished(q)' <=> Finished(q)) /\ \A w \in Threads : Code(q, w)' = Code(q, w)
        BY <1>9, <3>1 DEF Finished, Code
      <4>. QED
        BY <1>9, <3>1, <4>1 DEF PlacesOK
    <3>2. CASE q = p
      <4>1. n + 1 \in 1 .. l + 1
        BY <1>3
      <4>2. ASSUME ~Finished(p)', NEW w \in Threads PROVE at'[p][w] \in 1 .. Len(Code(p, w)') + 1
        <5>1. n + 1 \in 1 .. l
          BY <1>3, <1>9, <4>2 DEF Finished
        <5>2. PICK t2, m2 : InLine(p, n + 1, t2, m2)
          BY <1>3, <5>1, PhaseInLine
        <5>3. Program[p][n + 1]["thread"] = t2 /\ Program[p][n + 1]["main"] = m2 /\ Len(t2) \in Nat /\ Len(m2) \in Nat
          BY <5>2 DEF InLine
        <5>4. Len(Code(p, w)') \in Nat
          BY <1>9, <5>3 DEF Code, Threads
        <5>5. at'[p][w] = 1
          BY <1>9, <1>10 DEF Threads
        <5>. QED
          BY <5>4, <5>5
      <4>. QED
        BY <1>3, <1>9, <3>2, <4>1, <4>2
    <3>. QED
      BY <3>1, <3>2
  <2>. QED
    BY <1>9, <2>1 DEF PlacesOK
<1>12. /\ \A q \in Parties : q # p => SendPlace'[q] = SendPlace[q] /\ ReceivePlace'[q] = ReceivePlace[q]
       /\ SendPlace'[p] = SendAt(p, n + 1, Starting) /\ ReceivePlace'[p] = ReceiveAt(p, n + 1, Starting)
  BY <1>9 DEF SendPlace, ReceivePlace
<1>13. SendPlace'[p] = e + u + v + 1
  BY <1>4, <1>10, <1>12 DEF SendAt
<1>14. SendPlace[p] \in 1 .. SendPlace'[p] /\ SendPlace'[p] \in 1 .. k + 1
  <2>1. e + u + v + 1 \in 1 .. k + 1
    BY <1>4
  <2>2. PICK y : y = SendPlace[p]
    OBVIOUS
  <2>3. y = e + u + v + 1 \/ y = e + u + 1
    BY <1>7, <2>2
  <2>4. y \in 1 .. e + u + v + 1
    BY <2>3
  <2>. QED
    BY <1>13, <2>1, <2>2, <2>4
<1>15. ASSUME NEW c \in SendPlace[p] .. SendPlace'[p] - 1 PROVE Line[p][c].op \in ReceiveOps
  <2>1. t # << >>
    <3>1. CASE t = << >>
      <4>1. SendPlace[p] = e + u + v + 1
        BY <1>7, <3>1
      <4>. QED
        BY <1>13, <4>1
    <3>. QED
      BY <3>1
  <2>2. c \in e + u + 1 .. e + u + v
    BY <1>7, <1>13, <2>1
  <2>3. PICK j \in 1 .. v : e + u + j = c
    <3>1. c - (e + u) \in 1 .. v /\ e + u + (c - (e + u)) = c
      BY <2>2
    <3>. QED
      BY <3>1
  <2>. QED
    BY <1>5, <2>1, <2>3
<1>16. /\ ReceivePlace'[p] \in 1 .. k + 1 /\ ReceivePlace[p] \in 1 .. ReceivePlace'[p]
       /\ \A c \in ReceivePlace[p] .. ReceivePlace'[p] - 1 : Line[p][c].op \in ThreadOps
  <2>1. CASE n = l
    <3>1. ReceivePlace'[p] = e + u + v + 1
      <4>1. n + 1 > Len(Program[p])
        BY <1>3, <2>1
      <4>. QED
        BY <1>4, <1>12, <4>1 DEF ReceiveAt
    <3>2. \A c \in ReceivePlace[p] .. ReceivePlace'[p] - 1 : FALSE
      BY <1>4, <1>7, <3>1
    <3>. QED
      BY <1>4, <1>7, <3>1, <3>2
  <2>2. CASE n # l
    <3>1. n + 1 \in 1 .. l /\ ~(n + 1 > Len(Program[p]))
      BY <1>3, <2>2
    <3>2. PICK t2, m2 : InLine(p, n + 1, t2, m2)
      BY <1>3, <3>1, PhaseInLine
    <3>3. PICK d \in Nat : d = Len(t2) /\ Program[p][n + 1].thread = t2
      BY <3>2 DEF InLine
    <3>4. e + u + v + d <= k
      <4>1. Before(p, n + 1) + Len(t2) + Len(m2) <= Len(Line[p]) /\ Len(m2) \in Nat
        BY <3>2 DEF InLine
      <4>. QED
        BY <1>3, <1>4, <3>3, <4>1
    <3>5. \A j \in 1 .. d : Line[p][e + u + v + j] = t2[j] /\ t2[j].op \in ThreadOps
      BY <1>4, <3>2, <3>3 DEF InLine
    <3>6. ReceivePlace'[p] = e + u + v + (d + 1)
      BY <1>4, <1>10, <1>12, <3>1, <3>3 DEF ReceiveAt
    <3>7. ASSUME NEW c \in ReceivePlace[p] .. ReceivePlace'[p] - 1 PROVE Line[p][c].op \in ThreadOps
      <4>0. PICK z \in Nat : z = e + u + v
        OBVIOUS
      <4>3. c \in z + 1 .. z + d
        BY <1>7, <3>3, <3>6, <3>7, <4>0
      <4>4. c - z \in 1 .. d /\ z + (c - z) = c
        BY <3>3, <4>0, <4>3
      <4>1. c - (e + u + v) \in 1 .. d /\ e + u + v + (c - (e + u + v)) = c
        BY <4>0, <4>4
      <4>2. PICK j \in 1 .. d : e + u + v + j = c
        BY <4>1
      <4>. QED
        BY <3>5, <4>2
    <3>. QED
      BY <1>4, <1>7, <3>4, <3>6, <3>7, SMTT(60)
  <2>. QED
    BY <2>1, <2>2
<1>. QED
  BY <1>3, <1>11, <1>12, <1>14, <1>15, <1>16 DEF Skips

\* None of this is sent or received by that thread, or has to do with a queue
\* there.
LEMMA JoinsMeet ==
  ASSUME InStep, NEW p \in Parties, Join(p)
  PROVE  PlacesOK' /\ Met' /\ ChannelsOK'
<1>0. PlacesOK /\ ChannelsOK /\ Met
  BY DEF InStep
<1>1. PlacesOK' /\ Skips(p)
  BY <1>0, Joins
<1>2. chan' = chan
  BY DEF Join
<1>3. ASSUME NEW i \in Instruction
      PROVE  /\ i.op \in ReceiveOps => \A r \in Parties : SentTo[r][i] = << >>
             /\ i.op \in ThreadOps => \A r \in Parties : ReceivedFrom[r][i] = << >>
  BY DEF SentTo, ReceivedFrom, Reads, PrepOps, SendOps, ReceiveOps, ThreadOps
<1>4. ASSUME NEW q \in Parties PROVE Len(Line[q]) \in Nat /\ \A n \in 1 .. Len(Line[q]) : Line[q][n] \in Instruction
  BY LineType
<1>5. ASSUME NEW q \in Parties, NEW r \in Parties
      PROVE  Passes(SentTo[r], Line[q], SendPlace[q], SendPlace'[q])
             /\ Passes(ReceivedFrom[r], Line[q], ReceivePlace[q], ReceivePlace'[q])
  <2>1. CASE q = p
    <3>0. SendPlace[p] \in Nat /\ ReceivePlace[p] \in Nat /\ SendPlace'[p] \in Nat /\ ReceivePlace'[p] \in Nat
      <4>1. \A n \in 1 .. Len(Line[p]) + 1 : n \in Nat
        BY <1>4
      <4>2. SendPlace[p] \in 1 .. Len(Line[p]) + 1 /\ ReceivePlace[p] \in 1 .. Len(Line[p]) + 1
        BY <1>0, SendsFirst
      <4>3. SendPlace'[p] \in 1 .. Len(Line[p]) + 1 /\ ReceivePlace'[p] \in 1 .. Len(Line[p]) + 1
        BY <1>1 DEF Skips
      <4>. QED
        BY <4>1, <4>2, <4>3
    <3>4. PICK k, s, s2, d, d2 \in Nat :
            k = Len(Line[p]) /\ s = SendPlace[p] /\ s2 = SendPlace'[p] /\ d = ReceivePlace[p] /\ d2 = ReceivePlace'[p]
      BY <1>4, <3>0
    <3>1. /\ s2 \in 1 .. k + 1 /\ s \in 1 .. s2 /\ d2 \in 1 .. k + 1 /\ d \in 1 .. d2
          /\ \A c \in s .. s2 - 1 : Line[p][c].op \in ReceiveOps
          /\ \A c \in d .. d2 - 1 : Line[p][c].op \in ThreadOps
      BY <1>1, <3>4 DEF Skips
    <3>2. ASSUME NEW c \in s .. s2 - 1 PROVE SentTo[r][Line[p][c]] = << >>
      <4>1. c \in 1 .. k
        BY <3>1
      <4>2. Line[p][c] \in Instruction
        BY <1>4, <3>4, <4>1
      <4>3. Line[p][c].op \in ReceiveOps
        BY <3>1
      <4>. QED
        BY <1>3, <4>2, <4>3
    <3>3. ASSUME NEW c \in d .. d2 - 1 PROVE ReceivedFrom[r][Line[p][c]] = << >>
      <4>1. c \in 1 .. k
        BY <3>1
      <4>2. Line[p][c] \in Instruction
        BY <1>4, <3>4, <4>1
      <4>3. Line[p][c].op \in ThreadOps
        BY <3>1
      <4>. QED
        BY <1>3, <4>2, <4>3
    <3>. QED
      BY <2>1, <3>1, <3>2, <3>3, <3>4 DEF Passes
  <2>2. CASE q # p
    <3>1. SendPlace'[q] = SendPlace[q] /\ ReceivePlace'[q] = ReceivePlace[q]
      BY <1>1, <2>2 DEF Skips
    <3>2. /\ SendPlace[q] \in 1 .. Len(Line[q]) + 1 /\ ReceivePlace[q] \in 1 .. Len(Line[q]) + 1
          /\ Len(Line[q]) \in Nat
      BY <1>0, SendsFirst
    <3>3. ASSUME NEW n \in 1 .. Len(Line[q]) + 1 PROVE n \in 1 .. n /\ \A c \in n .. n - 1 : FALSE
      BY <3>2
    <3>. QED
      BY <3>1, <3>2, <3>3 DEF Passes
  <2>. QED
    BY <2>1, <2>2
<1>6. SkipsOver(Parties, SentTo, Line, SendPlace, SendPlace')
  BY <1>5 DEF SkipsOver
<1>7. SkipsOver(Parties, ReceivedFrom, Line, ReceivePlace, ReceivePlace')
  BY <1>5 DEF SkipsOver
<1>8. Meeting(Parties, Instruction, Tag, SentTo, ReceivedFrom, Line, SendPlace', ReceivePlace', chan)
  <2>1. Meeting(Parties, Instruction, Tag, SentTo, ReceivedFrom, Line, SendPlace, ReceivePlace, chan)
    BY <1>0 DEF Met
  <2>. QED
    BY <1>6, <1>7, <2>1, SkippingMeets
<1>. QED
  BY <1>0, <1>1, <1>2, <1>8 DEF Met, ChannelsOK

-----------------------------------------------------------------------------
(* P1's queues, step by step.                                                *)

\* How much of f there is ahead of a place in P1's line.
Left(f, n) == Len(Ahead(f, Line[0], n))

\* How that changes.
LEMMA LeftBehind ==
  ASSUME NEW f, Maps(f, Instruction, Tag)
  PROVE  /\ \A n \in 1 .. Len(Line[0]) + 1 : Left(f, n) \in Nat
         /\ \A n \in 1 .. Len(Line[0]) :
              Len(f[Line[0][n]]) \in Nat /\ Left(f, n) = Len(f[Line[0][n]]) + Left(f, n + 1)
         /\ \A n, m \in 1 .. Len(Line[0]) + 1 : n <= m => Left(f, m) <= Left(f, n)
         /\ \A n, m : Passes(f, Line[0], n, m) => Left(f, n) = Left(f, m)
<1>1. PICK D, T : D = Instruction /\ T = Tag /\ Maps(f, D, T)
  OBVIOUS
<1>2. PICK x \in Seq(D) : x = Line[0]
  BY <1>1, LineType, PartyNumbers
<1>3. PICK l \in Nat : l = Len(x)
  OBVIOUS
<1>4. ASSUME NEW n \in 1 .. l + 1, NEW m \in 1 .. l + 1, n <= m
      PROVE  Left(f, m) \in Nat /\ Left(f, n) \in Nat /\ Left(f, m) <= Left(f, n)
  <2>1. m \in 1 .. Len(x) + 1 /\ n \in 1 .. m
    BY <1>3, <1>4
  <2>2. /\ Len(Ahead(f, x, m)) \in Nat /\ Len(Ahead(f, x, n)) \in Nat
        /\ Len(Ahead(f, x, m)) <= Len(Ahead(f, x, n))
    BY <1>1, <2>1, AheadShrinks
  <2>. QED
    BY <1>2, <2>2 DEF Left
<1>5. ASSUME NEW n \in 1 .. l PROVE Len(f[x[n]]) \in Nat /\ Left(f, n) = Len(f[x[n]]) + Left(f, n + 1)
  <2>1. PICK a, b \in Seq(T) : a = f[x[n]] /\ b = Ahead(f, x, n + 1) /\ Ahead(f, x, n) = a \o b
    <3>1. HeadAndRest(f, x, n, T)
      BY <1>1, <1>3, AheadParts
    <3>. QED
      BY <3>1 DEF HeadAndRest
  <2>2. Len(a \o b) = Len(a) + Len(b) /\ Len(a) \in Nat
    OBVIOUS
  <2>. QED
    BY <1>2, <2>1, <2>2 DEF Left
<1>6. ASSUME NEW n, NEW m, Passes(f, x, n, m) PROVE Left(f, n) = Left(f, m)
  <2>1. Ahead(f, x, n) = Ahead(f, x, m)
    BY <1>1, <1>6, AheadPassing
  <2>. QED
    BY <1>2, <2>1 DEF Left
<1>7. \A n \in 1 .. l + 1 : Left(f, n) \in Nat
  BY <1>4
<1>. QED
  BY <1>2, <1>3, <1>4, <1>5, <1>6, <1>7

\* What the instructions do with the queues.
LEMMA QueueReads ==
  ASSUME NEW i \in Instruction
  PROVE  /\ Len(PushesLast[i]) = IF i.op = "FDMultP1Queues" THEN 1 ELSE 0
         /\ Len(PopsLast[i]) = IF i.op = "MultP1Receives" /\ i.peer = Threshold THEN 1 ELSE 0
         /\ Len(PopsOpened[i]) = IF i.op = "MultP1SendsParties" /\ i.peer = Threshold THEN 1 ELSE 0
<1>1. \A op, r : /\ i.op = op /\ i.peer = r /\ op \in QueueOps => Reads({op}, r)[i] = << << KindOf(op), i.gate >> >>
                 /\ ~(i.op = op /\ i.peer = r) /\ op \in QueueOps => Reads({op}, r)[i] = << >>
  BY DEF Reads, QueueOps, PrepOps
<1>2. Len(<< >>) = 0 /\ \A t : Len(<< t >>) = 1
  OBVIOUS
<1>3. i.op = "FDMultP1Queues" => i.peer = None
  BY InstructionForms DEF WithP1, WithAny, PrepOps
<1>4. Len(PushesLast[i]) = IF i.op = "FDMultP1Queues" THEN 1 ELSE 0
  BY <1>1, <1>2, <1>3 DEF PushesLast, QueueOps
<1>5. Len(PopsLast[i]) = IF i.op = "MultP1Receives" /\ i.peer = Threshold THEN 1 ELSE 0
  BY <1>1, <1>2 DEF PopsLast, QueueOps
<1>6. Len(PopsOpened[i]) = IF i.op = "MultP1SendsParties" /\ i.peer = Threshold THEN 1 ELSE 0
  BY <1>1, <1>2 DEF PopsOpened, QueueOps
<1>. QED
  BY <1>4, <1>5, <1>6

\* What is empty and what is not.
LEMMA EmptyOrNot ==
  ASSUME NEW i \in Instruction, NEW f \in {PushesLast, PopsLast, PopsOpened}
  PROVE  Len(f[i]) = 0 <=> f[i] = << >>
<1>1. Maps(f, Instruction, Tag)
  BY QueueMaps
<1>2. PICK t \in Seq(Tag) : t = f[i]
  BY <1>1 DEF Maps
<1>3. Len(t) = 0 <=> t = << >>
  BY EmptySeq
<1>. QED
  BY <1>2, <1>3

\* Where P1 goes on, in the thread that receives and the one that sends.
LEMMA QueuesAhead ==
  ASSUME PlacesOK, NEW i, Moved(0, i)
  PROVE  /\ \A f \in {PushesLast, PopsLast} : /\ Len(f[i]) \in Nat /\ Left(f, ReceivePlace'[0]) \in Nat
                                              /\ Left(f, ReceivePlace[0]) = Len(f[i]) + Left(f, ReceivePlace'[0])
         /\ Len(PopsOpened[i]) \in Nat /\ Left(PopsOpened, SendPlace'[0]) \in Nat
         /\ Left(PopsOpened, SendPlace[0]) = Len(PopsOpened[i]) + Left(PopsOpened, SendPlace'[0])
         /\ PopsLast[i] # << >> => i = Line[0][ReceivePlace[0]] /\ ReceivePlace[0] \in 1 .. Len(Line[0])
         /\ PopsOpened[i] # << >> => i = Line[0][SendPlace[0]] /\ SendPlace[0] \in 1 .. Len(Line[0])
<1>1. i \in Instruction /\ 0 \in Parties
  BY PartyNumbers DEF Moved
<1>2. PICK k \in Nat : k = Len(Line[0])
  BY <1>1, SendsFirst
<1>3. PICK d \in 1 .. k + 1 : d = ReceivePlace[0]
  BY <1>1, <1>2, SendsFirst
<1>4. PICK s \in 1 .. k + 1 : s = SendPlace[0]
  BY <1>1, <1>2, SendsFirst
<1>5. \/ i = Line[0][d] /\ d <= k /\ ReceivePlace'[0] = d + 1
      \/ ReceivePlace'[0] = d /\ i.op \in ThreadOps
  BY <1>2, <1>3 DEF Moved, ReceivesOn, MovesOn
<1>6. \/ i = Line[0][s] /\ s <= k /\ SendPlace'[0] = s + 1
      \/ SendPlace'[0] = s /\ i.op \in ReceiveOps
  BY <1>2, <1>4 DEF Moved, SendsOn, MovesOn
<1>7. i.op \in ThreadOps => Len(PushesLast[i]) = 0 /\ Len(PopsLast[i]) = 0
  BY <1>1, QueueReads DEF ThreadOps
<1>8. i.op \in ReceiveOps => Len(PopsOpened[i]) = 0
  BY <1>1, QueueReads DEF ReceiveOps
<1>9. ASSUME NEW f, Maps(f, Instruction, Tag), NEW n \in 1 .. k + 1, NEW m,
             (i = Line[0][n] /\ n <= k /\ m = n + 1) \/ (m = n /\ Len(f[i]) = 0)
      PROVE  Len(f[i]) \in Nat /\ Left(f, m) \in Nat /\ Left(f, n) = Len(f[i]) + Left(f, m)
  <2>1. CASE i = Line[0][n] /\ n <= k /\ m = n + 1
    <3>1. n \in 1 .. k /\ m \in 1 .. k + 1
      BY <2>1
    <3>. QED
      BY <1>2, <1>9, <2>1, <3>1, LeftBehind
  <2>2. CASE m = n /\ Len(f[i]) = 0
    <3>1. Left(f, n) \in Nat
      BY <1>2, <1>9, LeftBehind
    <3>. QED
      BY <2>2, <3>1
  <2>. QED
    BY <1>9, <2>1, <2>2
<1>10. ASSUME NEW f \in {PushesLast, PopsLast}
       PROVE  /\ Len(f[i]) \in Nat /\ Left(f, ReceivePlace'[0]) \in Nat
              /\ Left(f, ReceivePlace[0]) = Len(f[i]) + Left(f, ReceivePlace'[0])
  <2>1. Maps(f, Instruction, Tag)
    BY QueueMaps
  <2>2. PICK m : m = ReceivePlace'[0]
    OBVIOUS
  <2>3. (i = Line[0][d] /\ d <= k /\ m = d + 1) \/ (m = d /\ Len(f[i]) = 0)
    BY <1>5, <1>7, <2>2
  <2>4. Len(f[i]) \in Nat /\ Left(f, m) \in Nat /\ Left(f, d) = Len(f[i]) + Left(f, m)
    BY <1>9, <2>1, <2>3
  <2>. QED
    BY <1>3, <2>2, <2>4
<1>11. /\ Len(PopsOpened[i]) \in Nat /\ Left(PopsOpened, SendPlace'[0]) \in Nat
       /\ Left(PopsOpened, SendPlace[0]) = Len(PopsOpened[i]) + Left(PopsOpened, SendPlace'[0])
  <2>1. Maps(PopsOpened, Instruction, Tag)
    BY QueueMaps
  <2>2. PICK m : m = SendPlace'[0]
    OBVIOUS
  <2>3. (i = Line[0][s] /\ s <= k /\ m = s + 1) \/ (m = s /\ Len(PopsOpened[i]) = 0)
    BY <1>6, <1>8, <2>2
  <2>4. /\ Len(PopsOpened[i]) \in Nat /\ Left(PopsOpened, m) \in Nat
        /\ Left(PopsOpened, s) = Len(PopsOpened[i]) + Left(PopsOpened, m)
    BY <1>9, <2>1, <2>3
  <2>. QED
    BY <1>4, <2>2, <2>4
<1>12. PopsLast[i] # << >> => i = Line[0][d] /\ d \in 1 .. k
  <2>1. PopsLast[i] # << >> => Len(PopsLast[i]) # 0
    BY <1>1, EmptyOrNot
  <2>. QED
    BY <1>5, <1>7, <2>1
<1>13. PopsOpened[i] # << >> => i = Line[0][s] /\ s \in 1 .. k
  <2>1. PopsOpened[i] # << >> => Len(PopsOpened[i]) # 0
    BY <1>1, EmptyOrNot
  <2>. QED
    BY <1>6, <1>8, <2>1
<1>. QED
  BY <1>2, <1>3, <1>4, <1>10, <1>11, <1>12, <1>13

\* What P1 takes out is there, and a step that changes the queues by what its
\* instruction puts in and takes out keeps them right.
LEMMA QueuesGoOn ==
  ASSUME InStep, NEW i, Moved(0, i)
  PROVE  /\ PopsLast[i] # << >> => Len(fromLast) # 0
         /\ PopsOpened[i] # << >> => Len(toSend) # 0
         /\ /\ IsSeq(fromLast') /\ IsSeq(toSend')
            /\ Len(fromLast') + Len(PopsLast[i]) = Len(fromLast) + Len(PushesLast[i])
            /\ Len(toSend') + Len(PopsOpened[i]) = Len(toSend) + Len(PopsLast[i])
            => QueuesOK'
<1>0. PlacesOK /\ QueuesOK
  BY DEF InStep
<1>1. PICK k, h \in Nat : k = Len(fromLast) /\ h = Len(toSend)
  <2>1. Len(fromLast) \in Nat /\ Len(toSend) \in Nat
    BY <1>0 DEF QueuesOK, IsSeq
  <2>. QED
    BY <2>1
<1>2. PICK a, b, c \in Nat : a = Len(PushesLast[i]) /\ b = Len(PopsLast[i]) /\ c = Len(PopsOpened[i])
  BY <1>0, QueuesAhead
<1>3. PICK a2, b2, c2 \in Nat :
        /\ a2 = Left(PushesLast, ReceivePlace'[0]) /\ b2 = Left(PopsLast, ReceivePlace'[0])
        /\ c2 = Left(PopsOpened, SendPlace'[0])
  BY <1>0, QueuesAhead
<1>4. /\ Left(PushesLast, ReceivePlace[0]) = a + a2 /\ Left(PopsLast, ReceivePlace[0]) = b + b2
      /\ Left(PopsOpened, SendPlace[0]) = c + c2
  BY <1>0, <1>2, <1>3, QueuesAhead
<1>5. (a + a2) + k = b + b2 /\ (b + b2) + h = c + c2
  BY <1>0, <1>1, <1>4 DEF QueuesOK, Fits, Left
<1>6. ASSUME PopsLast[i] # << >> PROVE k # 0
  <2>1. i = Line[0][ReceivePlace[0]] /\ ReceivePlace[0] \in 1 .. Len(Line[0])
    BY <1>0, <1>6, QueuesAhead
  <2>2. Left(PushesLast, ReceivePlace[0]) < Left(PopsLast, ReceivePlace[0])
    BY <1>6, <2>1, LineBalanced DEF Balanced, Covers, Left
  <2>. QED
    BY <1>4, <1>5, <2>2
<1>7. ASSUME PopsOpened[i] # << >> PROVE h # 0
  <2>1. i = Line[0][SendPlace[0]] /\ SendPlace[0] \in 1 .. Len(Line[0])
    BY <1>0, <1>7, QueuesAhead
  <2>2. Left(PopsLast, SendPlace[0]) < Left(PopsOpened, SendPlace[0])
    BY <1>7, <2>1, LineBalanced DEF Balanced, Covers, Left
  <2>3. Left(PopsLast, ReceivePlace[0]) <= Left(PopsLast, SendPlace[0]) /\ Left(PopsLast, SendPlace[0]) \in Nat
    <3>1. /\ SendPlace[0] \in 1 .. Len(Line[0]) + 1 /\ ReceivePlace[0] \in 1 .. Len(Line[0]) + 1
          /\ SendPlace[0] <= ReceivePlace[0]
      BY <1>0, SendsFirst, PartyNumbers
    <3>. QED
      BY <3>1, LeftBehind, QueueMaps
  <2>. QED
    BY <1>4, <1>5, <2>2, <2>3
<1>8. ASSUME IsSeq(fromLast'), IsSeq(toSend'),
             Len(fromLast') + b = k + a, Len(toSend') + c = h + b
      PROVE  QueuesOK'
  <2>1. PICK k2, h2 \in Nat : k2 = Len(fromLast') /\ h2 = Len(toSend')
    BY <1>8 DEF IsSeq
  <2>2. a2 + k2 = b2 /\ b2 + h2 = c2
    BY <1>5, <1>8, <2>1
  <2>3. /\ Len(Ahead(PushesLast, Line[0], ReceivePlace'[0])) + Len(fromLast')
             = Len(Ahead(PopsLast, Line[0], ReceivePlace'[0]))
        /\ Len(Ahead(PopsLast, Line[0], ReceivePlace'[0])) + Len(toSend')
             = Len(Ahead(PopsOpened, Line[0], SendPlace'[0]))
    BY <1>3, <2>1, <2>2 DEF Left
  <2>. QED
    BY <1>8, <2>3 DEF QueuesOK, Fits
<1>. QED
  BY <1>1, <1>2, <1>6, <1>7, <1>8

\* A thread is joined: what it goes past has nothing to do with the queues
\* it looks at.
LEMMA JoinsQueues ==
  ASSUME InStep, NEW p \in Parties, Join(p)
  PROVE  QueuesOK'
<1>0. PlacesOK /\ QueuesOK /\ PlacesOK' /\ Skips(p) /\ UNCHANGED << fromLast, toSend >>
  BY Joins DEF InStep, Join, onlineVars
<1>1. CASE p # 0
  <2>1. SendPlace'[0] = SendPlace[0] /\ ReceivePlace'[0] = ReceivePlace[0]
    BY <1>0, <1>1, PartyNumbers DEF Skips
  <2>. QED
    BY <1>0, <2>1 DEF QueuesOK, Fits
<1>2. CASE p = 0
  <2>1. ASSUME NEW c \in 1 .. Len(Line[0])
        PROVE  /\ Line[0][c].op \in ThreadOps => PushesLast[Line[0][c]] = << >> /\ PopsLast[Line[0][c]] = << >>
               /\ Line[0][c].op \in ReceiveOps => PopsOpened[Line[0][c]] = << >>
    <3>1. PICK i \in Instruction : i = Line[0][c]
      BY LineType, PartyNumbers
    <3>2. /\ i.op \in ThreadOps => Len(PushesLast[i]) = 0 /\ Len(PopsLast[i]) = 0
          /\ i.op \in ReceiveOps => Len(PopsOpened[i]) = 0
      BY QueueReads DEF ThreadOps, ReceiveOps
    <3>. QED
      BY <3>1, <3>2, EmptyOrNot
  <2>2. PICK k \in Nat : k = Len(Line[0])
    BY <1>0, <1>2, SendsFirst
  <2>3. /\ Passes(PushesLast, Line[0], ReceivePlace[0], ReceivePlace'[0])
        /\ Passes(PopsLast, Line[0], ReceivePlace[0], ReceivePlace'[0])
    <3>1. PICK d2 \in 1 .. k + 1 : d2 = ReceivePlace'[0]
      BY <1>0, <1>2, <2>2 DEF Skips
    <3>2. PICK d \in 1 .. d2 : d = ReceivePlace[0]
      BY <1>0, <1>2, <3>1 DEF Skips
    <3>3. \A c \in d .. d2 - 1 : Line[0][c].op \in ThreadOps
      BY <1>0, <1>2, <3>1, <3>2 DEF Skips
    <3>4. \A c \in d .. d2 - 1 : c \in 1 .. k
      BY <3>1, <3>2
    <3>. QED
      BY <2>1, <2>2, <3>1, <3>2, <3>3, <3>4 DEF Passes
  <2>4. Passes(PopsOpened, Line[0], SendPlace[0], SendPlace'[0])
    <3>1. PICK d2 \in 1 .. k + 1 : d2 = SendPlace'[0]
      BY <1>0, <1>2, <2>2 DEF Skips
    <3>2. PICK d \in 1 .. d2 : d = SendPlace[0]
      BY <1>0, <1>2, <3>1 DEF Skips
    <3>3. \A c \in d .. d2 - 1 : Line[0][c].op \in ReceiveOps
      BY <1>0, <1>2, <3>1, <3>2 DEF Skips
    <3>4. \A c \in d .. d2 - 1 : c \in 1 .. k
      BY <3>1, <3>2
    <3>. QED
      BY <2>1, <2>2, <3>1, <3>2, <3>3, <3>4 DEF Passes
  <2>5. /\ Left(PushesLast, ReceivePlace'[0]) = Left(PushesLast, ReceivePlace[0])
        /\ Left(PopsLast, ReceivePlace'[0]) = Left(PopsLast, ReceivePlace[0])
        /\ Left(PopsOpened, SendPlace'[0]) = Left(PopsOpened, SendPlace[0])
    BY <2>3, <2>4, LeftBehind, QueueMaps
  <2>. QED
    BY <1>0, <2>5 DEF QueuesOK, Fits, Left
<1>. QED
  BY <1>1, <1>2

-----------------------------------------------------------------------------
(* The messages, and P1's queues, step by step.                              *)

\* What is not received goes on in the sending thread, and is nothing for the
\* receiving one; and the other way round.
LEMMA OneThread ==
  ASSUME PlacesOK, NEW p \in Parties, NEW i, Moved(p, i)
  PROVE  /\ i \in Instruction
         /\ i.op \notin ReceiveOps => SendsOn(p, i)
         /\ i.op \notin ThreadOps => ReceivesOn(p, i)
         /\ i.op \notin ReceiveOps => SkipsOver(Parties, ReceivedFrom, Line, ReceivePlace, ReceivePlace')
         /\ i.op \notin SendOps => SkipsOver(Parties, SentTo, Line, SendPlace, SendPlace')
<1>1. i \in Instruction
  BY DEF Moved
<1>2. \A q \in Parties : /\ Len(Line[q]) \in Nat
                         /\ SendPlace[q] \in 1 .. Len(Line[q]) + 1 /\ ReceivePlace[q] \in 1 .. Len(Line[q]) + 1
  BY SendsFirst
<1>3. /\ i.op \notin ReceiveOps => \A r \in Parties : ReceivedFrom[r][i] = << >>
      /\ i.op \notin SendOps => \A r \in Parties : SentTo[r][i] = << >>
  BY <1>1 DEF SentTo, ReceivedFrom, Reads
<1>4. ASSUME i.op \notin ReceiveOps PROVE SkipsOver(Parties, ReceivedFrom, Line, ReceivePlace, ReceivePlace')
  <2>1. CASE ReceivesOn(p, i)
    <3>1. \A r \in Parties : ReceivedFrom[r][Line[p][ReceivePlace[p]]] = << >>
      BY <1>3, <1>4, <2>1 DEF ReceivesOn
    <3>2. MovesOn(Parties, Line, p, ReceivePlace, ReceivePlace')
      BY <2>1 DEF ReceivesOn
    <3>. QED
      BY <1>2, <3>1, <3>2, StepSkips
  <2>2. CASE ReceivePlace' = ReceivePlace
    <3>1. SkipsOver(Parties, ReceivedFrom, Line, ReceivePlace, ReceivePlace)
      BY <1>2, StepSkips
    <3>. QED
      BY <2>2, <3>1
  <2>. QED
    BY <2>1, <2>2 DEF Moved
<1>5. ASSUME i.op \notin SendOps PROVE SkipsOver(Parties, SentTo, Line, SendPlace, SendPlace')
  <2>1. CASE SendsOn(p, i)
    <3>1. \A r \in Parties : SentTo[r][Line[p][SendPlace[p]]] = << >>
      BY <1>3, <1>5, <2>1 DEF SendsOn
    <3>2. MovesOn(Parties, Line, p, SendPlace, SendPlace')
      BY <2>1 DEF SendsOn
    <3>. QED
      BY <1>2, <3>1, <3>2, StepSkips
  <2>2. CASE SendPlace' = SendPlace
    <3>1. SkipsOver(Parties, SentTo, Line, SendPlace, SendPlace)
      BY <1>2, StepSkips
    <3>. QED
      BY <2>2, <3>1
  <2>. QED
    BY <2>1, <2>2 DEF Moved
<1>. QED
  BY <1>1, <1>4, <1>5 DEF Moved

\* A step that sends one message.
LEMMA OneSent ==
  ASSUME InStep, NEW p \in Parties, NEW i, Moved(p, i), i.op \in SendOps, i.op \notin PrepOps,
         NEW v, Send(p, i.peer, v, << KindOf(i.op), i.gate >>)
  PROVE  Met' /\ ChannelsOK'
<1>0. PlacesOK /\ i.op \notin ReceiveOps
  BY DEF InStep, SendOps, ReceiveOps
<1>1. /\ i \in Instruction /\ i = Line[p][SendPlace[p]] /\ MovesOn(Parties, Line, p, SendPlace, SendPlace')
      /\ SkipsOver(Parties, ReceivedFrom, Line, ReceivePlace, ReceivePlace')
  BY <1>0, OneThread DEF SendsOn
<1>2. i.gate \in GateIds /\ i.peer \in Parties /\ i.op \notin ReceiveOps /\ i.op # "SetInputShares"
  <2>1. i.op # "SetInputShares" /\ i.op # "FDMultP1Queues"
    BY DEF SendOps
  <2>2. 0 \in Parties
    BY PartyNumbers
  <2>. QED
    BY <1>1, <2>1, <2>2, InstructionForms DEF SendOps, ReceiveOps, PrepOps
<1>3. PICK q \in Parties : q = i.peer
  BY <1>2
<1>4. PICK t \in Tag : t = << KindOf(i.op), i.gate >>
  <2>1. KindOf(i.op) \in Kinds
    BY DEF KindOf, Kinds
  <2>. QED
    BY <1>2, <2>1 DEF Tag
<1>5. SendsOnly(Parties, SentTo, ReceivedFrom, i, q, t)
  <2>1. \A r \in Parties : SentTo[r][i] = IF r = q THEN << t >> ELSE << >>
    BY <1>1, <1>2, <1>3, <1>4 DEF SentTo, Reads
  <2>2. \A r \in Parties : ReceivedFrom[r][i] = << >>
    BY <1>1, <1>2 DEF ReceivedFrom, Reads
  <2>. QED
    BY <2>1, <2>2 DEF SendsOnly
<1>6. PICK m : m = [val |-> v, tag |-> t] /\ m.tag = t
  <2>1. [val |-> v, tag |-> t].tag = t
    OBVIOUS
  <2>. QED
    BY <2>1
<1>7. chan' = [chan EXCEPT ![p][q] = Append(@, m)] /\ chan = [a \in Parties |-> [b \in Parties |-> chan[a][b]]]
  BY <1>3, <1>4, <1>6 DEF Send, InStep, ChannelsOK
<1>8. SendsOne(Parties, p, q, m, chan, chan') /\ chan' = [a \in Parties |-> [b \in Parties |-> chan'[a][b]]]
  <2>1. DOMAIN chan = Parties /\ \A a \in Parties : chan[a] = [b \in Parties |-> chan[a][b]]
    BY <1>7
  <2>. QED
    <3>1. chan'[p] = [chan[p] EXCEPT ![q] = Append(chan[p][q], m)] /\ \A a \in Parties : a # p => chan'[a] = chan[a]
      BY <1>7, <2>1
    <3>2. chan'[p][q] = Append(chan[p][q], m) /\ \A b \in Parties : b # q => chan'[p][b] = chan[p][b]
      BY <2>1, <3>1
    <3>3. \A a \in Parties : chan'[a] = [b \in Parties |-> chan'[a][b]]
      BY <2>1, <3>1
    <3>4. chan' = [a \in Parties |-> chan'[a]]
      BY <1>7
    <3>. QED
      BY <1>7, <3>1, <3>2, <3>3, <3>4 DEF SendsOne
<1>9. Meeting(Parties, Instruction, Tag, SentTo, ReceivedFrom, Line, SendPlace', ReceivePlace', chan')
  <2>1. Meeting(Parties, Instruction, Tag, SentTo, ReceivedFrom, Line, SendPlace, ReceivePlace, chan)
    BY DEF InStep, Met
  <2>3. m.tag \in Tag /\ SendsOnly(Parties, SentTo, ReceivedFrom, i, q, m.tag)
    BY <1>5, <1>6
  <2>. QED
    BY <1>1, <1>8, <2>1, <2>3, OneSentMeets
<1>. QED
  BY <1>8, <1>9 DEF Met, ChannelsOK

\* What one that receives is to receive.
LEMMA ReceivesFrom ==
  ASSUME NEW i \in Instruction, i.op \in ReceiveOps, i.op \notin PrepOps
  PROVE  \E q \in Parties, t \in Tag :
           /\ q = i.peer /\ t = << KindOf(i.op), i.gate >>
           /\ ReceivesOnly(Parties, SentTo, ReceivedFrom, i, q, t)
<1>2. i.gate \in GateIds /\ i.peer \in Parties /\ i.op \notin SendOps /\ i.op # "SetInputShares"
  <2>1. i.op # "SetInputShares" /\ i.op # "FDMultP1Queues"
    BY DEF ReceiveOps
  <2>2. 0 \in Parties
    BY PartyNumbers
  <2>. QED
    BY <2>1, <2>2, InstructionForms DEF SendOps, ReceiveOps, PrepOps
<1>3. PICK q \in Parties : q = i.peer
  BY <1>2
<1>4. PICK t \in Tag : t = << KindOf(i.op), i.gate >>
  <2>1. KindOf(i.op) \in Kinds
    BY DEF KindOf, Kinds
  <2>. QED
    BY <1>2, <2>1 DEF Tag
<1>5. ReceivesOnly(Parties, SentTo, ReceivedFrom, i, q, t)
  <2>1. \A r \in Parties : ReceivedFrom[r][i] = IF r = q THEN << t >> ELSE << >>
    BY <1>2, <1>3, <1>4 DEF ReceivedFrom, Reads
  <2>2. \A r \in Parties : SentTo[r][i] = << >>
    BY <1>2 DEF SentTo, Reads
  <2>. QED
    BY <2>1, <2>2 DEF ReceivesOnly
<1>. QED
  BY <1>3, <1>4, <1>5

\* So a party goes on when it has received it.
LEMMA OneReceived ==
  ASSUME InStep, NEW p \in Parties, NEW i, Moved(p, i), i.op \in ReceiveOps, i.op \notin PrepOps,
         Receive(i.peer, p)
  PROVE  Met' /\ ChannelsOK'
<1>0. PlacesOK /\ i.op \notin SendOps /\ i.op \notin ThreadOps
  BY DEF InStep, SendOps, ReceiveOps, ThreadOps
<1>1. /\ i \in Instruction /\ i = Line[p][ReceivePlace[p]] /\ MovesOn(Parties, Line, p, ReceivePlace, ReceivePlace')
      /\ SkipsOver(Parties, SentTo, Line, SendPlace, SendPlace')
  BY <1>0, OneThread DEF ReceivesOn
<1>2. PICK q \in Parties, t \in Tag : q = i.peer /\ ReceivesOnly(Parties, SentTo, ReceivedFrom, i, q, t)
  BY <1>1, ReceivesFrom
<1>7. chan' = [chan EXCEPT ![q][p] = Tail(@)] /\ chan = [a \in Parties |-> [b \in Parties |-> chan[a][b]]]
      /\ chan[q][p] # << >>
  BY <1>2 DEF Receive, Arrived, InStep, ChannelsOK
<1>8. TakesOne(Parties, p, q, chan, chan') /\ chan' = [a \in Parties |-> [b \in Parties |-> chan'[a][b]]]
  <2>1. DOMAIN chan = Parties /\ \A a \in Parties : chan[a] = [b \in Parties |-> chan[a][b]]
    BY <1>7
  <2>. QED
    <3>1. chan'[q] = [chan[q] EXCEPT ![p] = Tail(chan[q][p])] /\ \A a \in Parties : a # q => chan'[a] = chan[a]
      BY <1>7, <2>1
    <3>2. chan'[q][p] = Tail(chan[q][p]) /\ \A b \in Parties : b # p => chan'[q][b] = chan[q][b]
      BY <2>1, <3>1
    <3>3. \A a \in Parties : chan'[a] = [b \in Parties |-> chan'[a][b]]
      BY <2>1, <3>1
    <3>4. chan' = [a \in Parties |-> chan'[a]]
      BY <1>7
    <3>. QED
      BY <1>7, <3>1, <3>2, <3>3, <3>4 DEF TakesOne
<1>9. Meeting(Parties, Instruction, Tag, SentTo, ReceivedFrom, Line, SendPlace', ReceivePlace', chan')
  <2>1. Meeting(Parties, Instruction, Tag, SentTo, ReceivedFrom, Line, SendPlace, ReceivePlace, chan)
    BY DEF InStep, Met
  <2>. QED
    BY <1>1, <1>2, <1>8, <2>1, OneReceivedMeets
<1>. QED
  BY <1>8, <1>9 DEF Met, ChannelsOK

\* A step that does neither.
LEMMA NonePassed ==
  ASSUME InStep, NEW p \in Parties, NEW i, Moved(p, i), i.op \notin SendOps, i.op \notin ReceiveOps,
         UNCHANGED chan
  PROVE  Met' /\ ChannelsOK'
<1>1. /\ SkipsOver(Parties, ReceivedFrom, Line, ReceivePlace, ReceivePlace')
      /\ SkipsOver(Parties, SentTo, Line, SendPlace, SendPlace')
  BY OneThread DEF InStep
<1>3. Meeting(Parties, Instruction, Tag, SentTo, ReceivedFrom, Line, SendPlace', ReceivePlace', chan)
  <2>1. Meeting(Parties, Instruction, Tag, SentTo, ReceivedFrom, Line, SendPlace, ReceivePlace, chan)
    BY DEF InStep, Met
  <2>. QED
    BY <1>1, <2>1, SkippingMeets
<1>. QED
  BY <1>3 DEF Met, ChannelsOK, InStep

\* Another party than P1 leaves the queues alone.
LEMMA QueuesOfOthers ==
  ASSUME InStep, NEW p \in Parties, p # 0, NEW i, Moved(p, i), UNCHANGED << fromLast, toSend >>
  PROVE  QueuesOK'
<1>1. SendPlace'[0] = SendPlace[0] /\ ReceivePlace'[0] = ReceivePlace[0]
  BY PartyNumbers DEF Moved, SendsOn, ReceivesOn, MovesOn
<1>. QED
  BY <1>1 DEF InStep, QueuesOK, Fits

\* Other steps leave them alone.
LEMMA QueuesKept ==
  ASSUME InStep, NEW p \in Parties, NEW i, Moved(p, i), i.op \notin QueueOps, UNCHANGED << fromLast, toSend >>
  PROVE  QueuesOK'
<1>1. CASE p # 0
  BY <1>1, QueuesOfOthers
<1>2. CASE p = 0
  <2>1. i \in Instruction /\ Moved(0, i)
    BY <1>2 DEF Moved
  <2>2. Len(PushesLast[i]) = 0 /\ Len(PopsLast[i]) = 0 /\ Len(PopsOpened[i]) = 0
    BY <2>1, QueueReads DEF QueueOps
  <2>3. IsSeq(fromLast') /\ IsSeq(toSend')
    BY DEF InStep, QueuesOK
  <2>. QED
    BY <2>1, <2>2, <2>3, QueuesGoOn
<1>. QED
  BY <1>1, <1>2

\* A sequence with one more behind it, and without its first.
LEMMA OneMoreOrLess ==
  ASSUME NEW s, IsSeq(s)
  PROVE  /\ Len(s) \in Nat
         /\ \A v : IsSeq(Append(s, v)) /\ Len(Append(s, v)) = Len(s) + 1
         /\ Len(s) # 0 => IsSeq(Tail(s)) /\ Len(Tail(s)) = Len(s) - 1
<1>1. s \in Seq(Range(s)) /\ Len(s) \in Nat
  BY DEF IsSeq
<1>2. ASSUME NEW v PROVE IsSeq(Append(s, v)) /\ Len(Append(s, v)) = Len(s) + 1
  <2>1. PICK S : S = Range(s) \cup {v}
    OBVIOUS
  <2>2. s \in Seq(S) /\ v \in S
    BY <1>1, <2>1
  <2>3. Append(s, v) \in Seq(S) /\ Len(Append(s, v)) = Len(s) + 1
    BY <2>2
  <2>. QED
    BY <2>3, OwnMembers
<1>3. ASSUME Len(s) # 0 PROVE IsSeq(Tail(s)) /\ Len(Tail(s)) = Len(s) - 1
  <2>1. PICK S : S = Range(s)
    OBVIOUS
  <2>2. s \in Seq(S) /\ s # << >>
    BY <1>1, <1>3, <2>1, EmptySeq
  <2>3. Tail(s) \in Seq(S) /\ Len(Tail(s)) = Len(s) - 1
    BY <2>2
  <2>. QED
    BY <2>3, OwnMembers
<1>. QED
  BY <1>1, <1>2, <1>3

\* Only P1 has to do with them.
LEMMA OfP1 ==
  ASSUME InStep, NEW p \in Parties, NEW i, Moved(p, i), i.op \in QueueOps
  PROVE  p = 0 /\ i \in Instruction
<1>1. PICK n \in 1 .. Len(Line[p]) : i = Line[p][n]
  <2>1. PICK k \in Nat : k = Len(Line[p])
    BY SendsFirst DEF InStep
  <2>2. SendPlace[p] \in 1 .. k + 1 /\ ReceivePlace[p] \in 1 .. k + 1
    BY <2>1, SendsFirst DEF InStep
  <2>3. i.op \notin ReceiveOps \/ i.op \notin ThreadOps
    BY DEF QueueOps, ReceiveOps, ThreadOps
  <2>4. SendsOn(p, i) \/ ReceivesOn(p, i)
    BY <2>3 DEF Moved
  <2>. QED
    BY <2>1, <2>2, <2>4 DEF SendsOn, ReceivesOn, MovesOn
<1>. QED
  BY <1>1, LineOfP1 DEF Moved

\* P1 keeps what the last parties have sent for a gate.
LEMMA QueueFilled ==
  ASSUME InStep, NEW p \in Parties, NEW i, Moved(p, i), i.op = "FDMultP1Queues",
         NEW v, fromLast' = Append(fromLast, v), toSend' = toSend
  PROVE  QueuesOK'
<1>1. p = 0 /\ i \in Instruction
  BY OfP1 DEF QueueOps
<1>2. Len(PushesLast[i]) = 1 /\ Len(PopsLast[i]) = 0 /\ Len(PopsOpened[i]) = 0
  BY <1>1, QueueReads
<1>3. IsSeq(fromLast) /\ IsSeq(toSend)
  BY DEF InStep, QueuesOK
<1>4. IsSeq(fromLast') /\ Len(fromLast') = Len(fromLast) + 1 /\ Len(fromLast) \in Nat
  BY <1>3, OneMoreOrLess
<1>5. Len(fromLast') + 0 = Len(fromLast) + 1 /\ Len(toSend') = Len(toSend) /\ IsSeq(toSend')
  BY <1>3, <1>4
<1>. QED
  BY <1>1, <1>2, <1>4, <1>5, QueuesGoOn

\* It takes it when it opens the product, which it keeps for the others.
LEMMA QueueMoved ==
  ASSUME InStep, NEW p \in Parties, NEW i, Moved(p, i), i.op = "MultP1Receives",
         NEW v, i.peer = Threshold => toSend' = Append(toSend, v) /\ fromLast' = Tail(fromLast),
         i.peer # Threshold => UNCHANGED << toSend, fromLast >>
  PROVE  QueuesOK'
<1>1. p = 0 /\ i \in Instruction
  BY OfP1 DEF QueueOps
<1>2. Len(PushesLast[i]) = 0 /\ Len(PopsLast[i]) = (IF i.peer = Threshold THEN 1 ELSE 0) /\ Len(PopsOpened[i]) = 0
  BY <1>1, QueueReads
<1>3. IsSeq(fromLast) /\ IsSeq(toSend)
  BY DEF InStep, QueuesOK
<1>4. CASE i.peer = Threshold
  <2>1. Len(fromLast) # 0
    <3>1. PopsLast[i] # << >>
      <4>1. Len(PopsLast[i]) = 1
        BY <1>2, <1>4
      <4>2. Len(<< >>) = 0 /\ 0 # 1
        OBVIOUS
      <4>. QED
        BY <4>1, <4>2, Zenon
    <3>. QED
      BY <1>1, <3>1, QueuesGoOn
  <2>2. /\ IsSeq(fromLast') /\ Len(fromLast') = Len(fromLast) - 1 /\ Len(fromLast) \in Nat
        /\ IsSeq(toSend') /\ Len(toSend') = Len(toSend) + 1 /\ Len(toSend) \in Nat
    BY <1>3, <1>4, <2>1, OneMoreOrLess
  <2>3. /\ Len(fromLast') + 1 = Len(fromLast) + 0 /\ Len(toSend') + 0 = Len(toSend) + 1
    BY <2>2
  <2>. QED
    BY <1>1, <1>2, <1>4, <2>2, <2>3, QueuesGoOn
<1>5. CASE i.peer # Threshold
  BY <1>1, <1>2, <1>3, <1>5, QueuesGoOn
<1>. QED
  BY <1>4, <1>5

\* And it forgets that when the last of the first t + 1 has got its share.
LEMMA QueueEmptied ==
  ASSUME InStep, NEW p \in Parties, NEW i, Moved(p, i), i.op = "MultP1SendsParties",
         toSend' = IF i.peer = Threshold THEN Tail(toSend) ELSE toSend, fromLast' = fromLast
  PROVE  QueuesOK'
<1>1. p = 0 /\ i \in Instruction
  BY OfP1 DEF QueueOps
<1>2. Len(PushesLast[i]) = 0 /\ Len(PopsLast[i]) = 0 /\ Len(PopsOpened[i]) = IF i.peer = Threshold THEN 1 ELSE 0
  BY <1>1, QueueReads
<1>3. IsSeq(fromLast) /\ IsSeq(toSend)
  BY DEF InStep, QueuesOK
<1>4. CASE i.peer = Threshold
  <2>1. Len(toSend) # 0
    <3>1. PopsOpened[i] # << >>
      <4>1. Len(PopsOpened[i]) = 1
        BY <1>2, <1>4
      <4>2. Len(<< >>) = 0 /\ 0 # 1
        OBVIOUS
      <4>. QED
        BY <4>1, <4>2, Zenon
    <3>. QED
      BY <1>1, <3>1, QueuesGoOn
  <2>2. IsSeq(toSend') /\ Len(toSend') = Len(toSend) - 1 /\ Len(toSend) \in Nat
    BY <1>3, <1>4, <2>1, OneMoreOrLess
  <2>3. Len(toSend') + 1 = Len(toSend) + 0
    BY <2>2
  <2>. QED
    BY <1>1, <1>2, <1>3, <1>4, <2>2, <2>3, QueuesGoOn
<1>5. CASE i.peer # Threshold
  BY <1>1, <1>2, <1>3, <1>5, QueuesGoOn
<1>. QED
  BY <1>4, <1>5

\* The tags of a block, by number.
LEMMA TagsOfBlock ==
  ASSUME NEW b \in 1 .. Len(Blocks)
  PROVE  /\ Blocks[b] = "random" => PrepTags(b) = [d \in 1 .. 1 |-> << "prep", b, d >>] /\ Len(PrepTags(b)) = 1
         /\ Blocks[b] # "random" => PrepTags(b) = [d \in 1 .. 2 |-> << "prep", b, d >>] /\ Len(PrepTags(b)) = 2
<1>1. << << "prep", b, 1 >> >> = [d \in 1 .. 1 |-> << "prep", b, d >>] /\ Len(<< << "prep", b, 1 >> >>) = 1
  OBVIOUS
<1>2. /\ << << "prep", b, 1 >>, << "prep", b, 2 >> >> = [d \in 1 .. 2 |-> << "prep", b, d >>]
      /\ Len(<< << "prep", b, 1 >>, << "prep", b, 2 >> >>) = 2
  OBVIOUS
<1>. QED
  BY <1>1, <1>2 DEF PrepTags
\* What is sent to everybody.
LEMMA ToEverybody ==
  ASSUME ChannelsOK, NEW p \in Parties, NEW msgs, SendEach(p, msgs)
  PROVE  /\ ChannelsOK'
         /\ \A q \in Parties : chan'[p][q] = chan[p][q] \o msgs[q]
         /\ \A r, q \in Parties : r # p => chan'[r][q] = chan[r][q]
<1>1. chan' = [chan EXCEPT ![p] = [q \in Parties |-> chan[p][q] \o msgs[q]]]
  BY DEF SendEach
<1>2. chan = [r \in Parties |-> [q \in Parties |-> chan[r][q]]]
  BY DEF ChannelsOK
<1>3. DOMAIN chan = Parties /\ \A r \in Parties : chan[r] = [q \in Parties |-> chan[r][q]]
  BY <1>2
<1>4. chan' = [r \in Parties |-> [q \in Parties |-> chan'[r][q]]]
  BY <1>1, <1>3
<1>. QED
  BY <1>1, <1>3, <1>4 DEF ChannelsOK

\* And what is received from everybody.
LEMMA FromEverybody ==
  ASSUME ChannelsOK, NEW p \in Parties, NEW n, ReceiveEach(p, n)
  PROVE  /\ ChannelsOK'
         /\ \A q \in Parties : /\ Len(chan[q][p]) >= n
                               /\ chan'[q][p] = SubSeq(chan[q][p], n + 1, Len(chan[q][p]))
         /\ \A q, r \in Parties : r # p => chan'[q][r] = chan[q][r]
<1>1. /\ \A q \in Parties : Len(chan[q][p]) >= n
      /\ chan' = [q \in Parties |-> [chan[q] EXCEPT ![p] = SubSeq(@, n + 1, Len(@))]]
  BY DEF ReceiveEach
<1>2. chan = [r \in Parties |-> [q \in Parties |-> chan[r][q]]]
  BY DEF ChannelsOK
<1>3. DOMAIN chan = Parties /\ \A r \in Parties : chan[r] = [q \in Parties |-> chan[r][q]]
  BY <1>2
<1>4. chan' = [r \in Parties |-> [q \in Parties |-> chan'[r][q]]]
  BY <1>1, <1>3
<1>5. \A q, r \in Parties : r # p => chan'[q][r] = chan[q][r]
  BY <1>1, <1>3
<1>6. \A q \in Parties : chan'[q][p] = SubSeq(chan[q][p], n + 1, Len(chan[q][p]))
  BY <1>1, <1>3
<1>. QED
  BY <1>1, <1>4, <1>5, <1>6, Zenon DEF ChannelsOK
\* A block is sent.
LEMMA PrepSent ==
  ASSUME InStep, NEW p \in Parties, NEW th \in Threads, PrepPartiesSend(p, th)
  PROVE  InStep'
<1>0. PlacesOK /\ ChannelsOK /\ Met /\ QueuesOK
  BY DEF InStep
<1>1. PICK i : i = Instr(p, th) /\ PlacesOK' /\ Moved(p, i) /\ i.op = "PrepPartiesSend"
  BY <1>0, GoesOn DEF PrepPartiesSend, Advance
<1>2. PICK b \in 1 .. Len(Blocks) : i \in Instruction /\ b = i.block /\ b = Instr(p, th).block
  <2>1. i \in Instruction
    BY <1>1 DEF Moved
  <2>. QED
    BY <1>1, <2>1, InstructionForms DEF WithP1, WithAny
<1>3. PICK t \in Seq(Tag) : t = PrepTags(b)
  BY PrepTagsType
<1>4. \A r \in Parties : SentTo[r][i] = t
  BY <1>1, <1>2, <1>3 DEF SentTo, Reads, SendOps, PrepOps
<1>5. PICK msgs : SendEach(p, msgs)
                  /\ \A q \in Parties : /\ msgs[q] = [d \in DOMAIN t |-> msgs[q][d]]
                                        /\ \A d \in DOMAIN t : msgs[q][d].tag = t[d]
  <2> DEFINE polys == Dealt(Blocks[b], draws[p][b])
             shares == [d \in DOMAIN polys |-> SharesFromEvPoly(polys[d], NParties)]
             msgs == [q \in Parties |-> [d \in DOMAIN polys |->
                       [val |-> shares[d][q + 1], tag |-> << "prep", b, d >>]]]
  <2>1. SendEach(p, msgs)
    BY <1>2 DEF PrepPartiesSend
  <2>2. DOMAIN polys = DOMAIN t /\ \A d \in DOMAIN t : t[d] = << "prep", b, d >>
    <3>1. CASE Blocks[b] = "random"
      <4>1. DOMAIN polys = 1 .. 1
        <5>1. PICK x : x = Degrees(draws[p][b])[1]
          OBVIOUS
        <5>2. polys = << x >>
          BY <3>1, <5>1 DEF Dealt
        <5>. QED
          BY <5>2
      <4>2. t = [d \in 1 .. 1 |-> << "prep", b, d >>]
        BY <1>3, <3>1, TagsOfBlock
      <4>. QED
        BY <4>1, <4>2
    <3>2. CASE Blocks[b] # "random"
      <4>1. DOMAIN polys = 1 .. 2
        <5>1. \E x, y : polys = << x, y >>
          BY <3>2 DEF Dealt, Degrees
        <5>. QED
          BY <5>1
      <4>2. t = [d \in 1 .. 2 |-> << "prep", b, d >>]
        BY <1>3, <3>2, TagsOfBlock
      <4>. QED
        BY <4>1, <4>2
    <3>. QED
      BY <3>1, <3>2
  <2>3. \A q \in Parties : msgs[q] = [d \in DOMAIN polys |->
                                        [val |-> shares[d][q + 1], tag |-> << "prep", b, d >>]]
    OBVIOUS
  <2>4. \A q \in Parties : /\ msgs[q] = [d \in DOMAIN t |-> msgs[q][d]]
                           /\ \A d \in DOMAIN t : msgs[q][d].tag = t[d]
    <3> HIDE DEF polys, shares, msgs
    <3>1. ASSUME NEW q \in Parties, NEW d \in DOMAIN t PROVE msgs[q][d].tag = t[d]
      <4>1. msgs[q][d] = [val |-> shares[d][q + 1], tag |-> << "prep", b, d >>]
        BY <2>2, <2>3
      <4>2. msgs[q][d].tag = << "prep", b, d >>
        BY <4>1
      <4>. QED
        BY <2>2, <4>2
    <3>2. ASSUME NEW q \in Parties PROVE msgs[q] = [d \in DOMAIN t |-> msgs[q][d]]
      BY <2>2, <2>3
    <3>. QED
      BY <3>1, <3>2
  <2> HIDE DEF polys, shares, msgs
  <2>. QED
    BY <2>1, <2>4
<1>6. ASSUME NEW q \in Parties PROVE IsSeq(msgs[q]) /\ TagsOf(msgs[q]) = t
  <2>1. PICK m : m = msgs[q]
    OBVIOUS
  <2>2. m = [d \in DOMAIN t |-> m[d]] /\ \A d \in DOMAIN t : m[d].tag = t[d]
    BY <1>5, <2>1
  <2>3. IsSeq(m) /\ TagsOf(m) = t
    BY <2>2, TagsMade
  <2>. QED
    BY <2>1, <2>3
<1>7. /\ ChannelsOK'
      /\ \A q \in Parties : chan'[p][q] = chan[p][q] \o msgs[q]
      /\ \A r, q \in Parties : r # p => chan'[r][q] = chan[r][q]
  BY <1>0, <1>5, ToEverybody
<1>8. SendsAll(Parties, SentTo, i, p, msgs, chan, chan')
  BY <1>4, <1>6, <1>7 DEF SendsAll
<1>9. /\ i = Line[p][SendPlace[p]] /\ MovesOn(Parties, Line, p, SendPlace, SendPlace')
      /\ SkipsOver(Parties, ReceivedFrom, Line, ReceivePlace, ReceivePlace')
  BY <1>0, <1>1, OneThread DEF SendsOn, ReceiveOps
<1>10. Meeting(Parties, Instruction, Tag, SentTo, ReceivedFrom, Line, SendPlace', ReceivePlace, chan')
  <2>1. Meeting(Parties, Instruction, Tag, SentTo, ReceivedFrom, Line, SendPlace, ReceivePlace, chan)
    BY <1>0 DEF Met
  <2>. QED
    BY <1>8, <1>9, <2>1, SendingMeets
<1>11. Met'
  <2>1. \A q \in Parties : Len(Line[q]) \in Nat /\ SendPlace'[q] \in 1 .. Len(Line[q]) + 1
    BY <1>10, MeetingPlaces
  <2>2. SkipsOver(Parties, SentTo, Line, SendPlace', SendPlace')
    BY <2>1, StepSkips
  <2>. QED
    BY <1>9, <1>10, <2>2, SkippingMeets DEF Met
<1>12. QueuesOK'
  <2>1. UNCHANGED << fromLast, toSend >>
    BY DEF PrepPartiesSend, onlineVars
  <2>. QED
    BY <1>1, <2>1, QueuesKept DEF QueueOps
<1>. QED
  BY <1>1, <1>7, <1>11, <1>12 DEF InStep

\* A block is received.
LEMMA PrepReceived ==
  ASSUME InStep, NEW p \in Parties, NEW th \in Threads, PrepPartiesReceive(p, th)
  PROVE  InStep'
<1>0. PlacesOK /\ ChannelsOK /\ Met /\ QueuesOK
  BY DEF InStep
<1>1. PICK i : i = Instr(p, th) /\ PlacesOK' /\ Moved(p, i) /\ i.op = "PrepPartiesReceive"
  BY <1>0, GoesOn DEF PrepPartiesReceive
<1>2. PICK b \in 1 .. Len(Blocks) : i \in Instruction /\ b = i.block /\ b = Instr(p, th).block
  <2>1. i \in Instruction
    BY <1>1 DEF Moved
  <2>. QED
    BY <1>1, <2>1, InstructionForms DEF WithP1, WithAny
<1>3. PICK t \in Seq(Tag) : t = PrepTags(b)
  BY PrepTagsType
<1>4. \A r \in Parties : ReceivedFrom[r][i] = t
  BY <1>1, <1>2, <1>3 DEF ReceivedFrom, Reads, ReceiveOps, PrepOps
<1>5. ReceiveEach(p, Len(t))
  <2>1. CASE Blocks[b] = "random"
    <3>1. Len(t) = 1
      BY <1>3, <2>1, TagsOfBlock
    <3>2. ReceiveEach(p, 1)
      BY <1>2, <2>1 DEF PrepPartiesReceive
    <3>. QED
      BY <3>1, <3>2
  <2>2. CASE Blocks[b] # "random"
    <3>1. Len(t) = 2
      BY <1>3, <2>2, TagsOfBlock
    <3>2. ReceiveEach(p, 2)
      BY <1>2, <2>2 DEF PrepPartiesReceive
    <3>. QED
      BY <3>1, <3>2
  <2>. QED
    BY <2>1, <2>2
<1>6. PICK n \in Nat : n = Len(t)
  OBVIOUS
<1>7. /\ ChannelsOK'
      /\ \A q \in Parties : Len(chan[q][p]) >= n /\ chan'[q][p] = SubSeq(chan[q][p], n + 1, Len(chan[q][p]))
      /\ \A q, r \in Parties : r # p => chan'[q][r] = chan[q][r]
  BY <1>0, <1>5, <1>6, FromEverybody
<1>8. TakesAll(Parties, ReceivedFrom, i, p, chan, chan')
  <2>1. ASSUME NEW q \in Parties
        PROVE  /\ Len(ReceivedFrom[q][i]) <= Len(chan[q][p])
               /\ chan'[q][p] = SubSeq(chan[q][p], Len(ReceivedFrom[q][i]) + 1, Len(chan[q][p]))
    <3>1. Len(ReceivedFrom[q][i]) = n
      BY <1>4, <1>6
    <3>2. Len(chan[q][p]) \in Nat
      BY <1>0, OfMeeting, SMTT(30) DEF Met, OnItsWay, IsSeq
    <3>3. n <= Len(chan[q][p])
      BY <1>7, <3>2
    <3>. QED
      BY <1>7, <3>1, <3>3
  <2>. QED
    BY <1>7, <2>1 DEF TakesAll
<1>9. /\ i = Line[p][ReceivePlace[p]] /\ MovesOn(Parties, Line, p, ReceivePlace, ReceivePlace')
      /\ SkipsOver(Parties, SentTo, Line, SendPlace, SendPlace')
  BY <1>0, <1>1, OneThread DEF ReceivesOn, SendOps, ThreadOps
<1>10. Meeting(Parties, Instruction, Tag, SentTo, ReceivedFrom, Line, SendPlace, ReceivePlace', chan')
  <2>1. Meeting(Parties, Instruction, Tag, SentTo, ReceivedFrom, Line, SendPlace, ReceivePlace, chan)
    BY <1>0 DEF Met
  <2>. QED
    BY <1>8, <1>9, <2>1, ReceivingMeets
<1>11. Met'
  <2>1. \A q \in Parties : Len(Line[q]) \in Nat /\ ReceivePlace'[q] \in 1 .. Len(Line[q]) + 1
    BY <1>10, MeetingPlaces
  <2>2. SkipsOver(Parties, ReceivedFrom, Line, ReceivePlace', ReceivePlace')
    BY <2>1, StepSkips
  <2>. QED
    BY <1>9, <1>10, <2>2, SkippingMeets DEF Met
<1>12. QueuesOK'
  <2>1. UNCHANGED << fromLast, toSend >>
    BY DEF PrepPartiesReceive, onlineVars
  <2>. QED
    BY <1>1, <2>1, QueuesKept DEF QueueOps
<1>. QED
  BY <1>1, <1>7, <1>11, <1>12 DEF InStep

\* The instructions for the others, by name.
LEMMA PeerOfP1 ==
  ASSUME NEW i \in Instruction, i.op \in WithP1
  PROVE  i.peer = 0
BY InstructionForms DEF WithP1, WithAny, PrepOps

\* A party online goes on: it sends what its instruction says, or receives it.
LEMMA SendingStep ==
  ASSUME InStep, NEW p \in Parties, NEW th \in Threads, NEW op,
         At(p, th, op), Advance(p, th), op \in SendOps, op \notin PrepOps,
         NEW q, q = Instr(p, th).peer, NEW k, k = KindOf(op), NEW v, Send(p, q, v, << k, Instr(p, th).gate >>)
  PROVE  PlacesOK' /\ Met' /\ ChannelsOK'
<1>1. PICK i : i = Instr(p, th) /\ PlacesOK' /\ Moved(p, i) /\ i.op = op
  BY GoesOn DEF InStep, Advance
<1>2. Send(p, i.peer, v, << KindOf(i.op), i.gate >>)
  BY <1>1
<1>. QED
  BY <1>1, <1>2, OneSent

\* The same, for what it receives.
LEMMA ReceivingStep ==
  ASSUME InStep, NEW p \in Parties, NEW th \in Threads, NEW op,
         At(p, th, op), Advance(p, th), op \in ReceiveOps, op \notin PrepOps,
         NEW q, q = Instr(p, th).peer, Receive(q, p)
  PROVE  PlacesOK' /\ Met' /\ ChannelsOK'
<1>1. PICK i : i = Instr(p, th) /\ PlacesOK' /\ Moved(p, i) /\ i.op = op
  BY GoesOn DEF InStep, Advance
<1>. QED
  BY <1>1, OneReceived

\* And for what is between it and its own memory.
LEMMA InnerStep ==
  ASSUME InStep, NEW p \in Parties, NEW th \in Threads, NEW op,
         At(p, th, op), Advance(p, th), op \notin SendOps, op \notin ReceiveOps,
         UNCHANGED chan
  PROVE  PlacesOK' /\ Met' /\ ChannelsOK'
<1>1. PICK i : i = Instr(p, th) /\ PlacesOK' /\ Moved(p, i) /\ i.op = op
  BY GoesOn DEF InStep, Advance
<1>. QED
  BY <1>1, NonePassed

\* P1's queues, when it is not about them.
LEMMA ApartFromQueues ==
  ASSUME InStep, NEW p \in Parties, NEW th \in Threads, NEW op,
         At(p, th, op), Advance(p, th), op \notin QueueOps, UNCHANGED << fromLast, toSend >>
  PROVE  QueuesOK'
<1>1. PICK i : i = Instr(p, th) /\ PlacesOK' /\ Moved(p, i) /\ i.op = op
  BY GoesOn DEF InStep, Advance
<1>. QED
  BY <1>1, QueuesKept
\* Every step keeps the parties in step.
LEMMA StepInStep ==
  ASSUME InStep, NEW p \in Parties, NEW th \in Threads, Step(p, th)
  PROVE  InStep'
<1>1. CASE PrepPartiesSend(p, th)
  BY <1>1, PrepSent
<1>2. CASE PrepPartiesReceive(p, th)
  BY <1>2, PrepReceived
<1>3. CASE SetInputShares(p, th)
  <2>0. At(p, th, "SetInputShares") /\ Advance(p, th) /\ Moved(p, Instr(p, th)) /\ Instr(p, th).op = "SetInputShares"
    BY <1>3, GoesOn DEF SetInputShares, InStep, Advance
  <2>1. PlacesOK' /\ Met' /\ ChannelsOK'
    BY <1>3, <2>0, InnerStep DEF SetInputShares, SendOps, ReceiveOps
  <2>2. QueuesOK'
    BY <1>3, <2>0, ApartFromQueues DEF SetInputShares, QueueOps
  <2>. QED
    BY <2>1, <2>2 DEF InStep
<1>4. CASE FDMultPartiesSendP1(p, th)
  <2>0. At(p, th, "FDMultPartiesSendP1") /\ Advance(p, th) /\ Moved(p, Instr(p, th)) /\ Instr(p, th).op = "FDMultPartiesSendP1"
    BY <1>4, GoesOn DEF FDMultPartiesSendP1, InStep, Advance
  <2>1. PlacesOK' /\ Met' /\ ChannelsOK'
    <3>1. Instr(p, th).peer = 0
      BY <2>0, PeerOfP1 DEF Moved, WithP1
    <3>2. PICK v : Send(p, 0, v, << "last", Instr(p, th).gate >>)
      BY <1>4 DEF FDMultPartiesSendP1
    <3>3. "FDMultPartiesSendP1" \in SendOps \ PrepOps /\ KindOf("FDMultPartiesSendP1") = "last"
      BY DEF SendOps, KindOf, PrepOps
    <3>. QED
      BY <2>0, <3>1, <3>2, <3>3, SendingStep
  <2>2. QueuesOK'
    BY <1>4, <2>0, ApartFromQueues DEF FDMultPartiesSendP1, QueueOps
  <2>. QED
    BY <2>1, <2>2 DEF InStep
<1>5. CASE FDMultP1Receives(p, th)
  <2>0. At(p, th, "FDMultP1Receives") /\ Advance(p, th) /\ Moved(p, Instr(p, th)) /\ Instr(p, th).op = "FDMultP1Receives"
    BY <1>5, GoesOn DEF FDMultP1Receives, InStep, Advance
  <2>1. PlacesOK' /\ Met' /\ ChannelsOK'
    <3>2. Receive(Instr(p, th).peer, p)
      BY <1>5 DEF FDMultP1Receives
    <3>3. "FDMultP1Receives" \in ReceiveOps \ PrepOps
      BY DEF ReceiveOps, PrepOps
    <3>. QED
      BY <2>0, <3>2, <3>3, ReceivingStep
  <2>2. QueuesOK'
    BY <1>5, <2>0, ApartFromQueues DEF FDMultP1Receives, QueueOps
  <2>. QED
    BY <2>1, <2>2 DEF InStep
<1>6. CASE FDMultP1Queues(p, th)
  <2>0. At(p, th, "FDMultP1Queues") /\ Advance(p, th) /\ Moved(p, Instr(p, th)) /\ Instr(p, th).op = "FDMultP1Queues"
    BY <1>6, GoesOn DEF FDMultP1Queues, InStep, Advance
  <2>1. PlacesOK' /\ Met' /\ ChannelsOK'
    BY <1>6, <2>0, InnerStep DEF FDMultP1Queues, SendOps, ReceiveOps
  <2>2. QueuesOK'
    BY <1>6, <2>0, QueueFilled DEF FDMultP1Queues
  <2>. QED
    BY <2>1, <2>2 DEF InStep
<1>7. CASE InputPartiesSendOwners(p, th)
  <2>0. At(p, th, "InputPartiesSendOwners") /\ Advance(p, th) /\ Moved(p, Instr(p, th)) /\ Instr(p, th).op = "InputPartiesSendOwners"
    BY <1>7, GoesOn DEF InputPartiesSendOwners, InStep, Advance
  <2>1. PlacesOK' /\ Met' /\ ChannelsOK'
    <3>2. PICK v : Send(p, Instr(p, th).peer, v, << "mask", Instr(p, th).gate >>)
      BY <1>7 DEF InputPartiesSendOwners
    <3>3. "InputPartiesSendOwners" \in SendOps \ PrepOps /\ KindOf("InputPartiesSendOwners") = "mask"
      BY DEF SendOps, KindOf, PrepOps
    <3>. QED
      BY <2>0, <3>2, <3>3, SendingStep
  <2>2. QueuesOK'
    BY <1>7, <2>0, ApartFromQueues DEF InputPartiesSendOwners, QueueOps
  <2>. QED
    BY <2>1, <2>2 DEF InStep
<1>8. CASE InputOwnersReceive(p, th)
  <2>0. At(p, th, "InputOwnersReceive") /\ Advance(p, th) /\ Moved(p, Instr(p, th)) /\ Instr(p, th).op = "InputOwnersReceive"
    BY <1>8, GoesOn DEF InputOwnersReceive, InStep, Advance
  <2>1. PlacesOK' /\ Met' /\ ChannelsOK'
    <3>2. Receive(Instr(p, th).peer, p)
      BY <1>8 DEF InputOwnersReceive
    <3>3. "InputOwnersReceive" \in ReceiveOps \ PrepOps
      BY DEF ReceiveOps, PrepOps
    <3>. QED
      BY <2>0, <3>2, <3>3, ReceivingStep
  <2>2. QueuesOK'
    BY <1>8, <2>0, ApartFromQueues DEF InputOwnersReceive, QueueOps
  <2>. QED
    BY <2>1, <2>2 DEF InStep
<1>9. CASE InputOwnersSend(p, th)
  <2>0. At(p, th, "InputOwnersSend") /\ Advance(p, th) /\ Moved(p, Instr(p, th)) /\ Instr(p, th).op = "InputOwnersSend"
    BY <1>9, GoesOn DEF InputOwnersSend, InStep, Advance
  <2>1. PlacesOK' /\ Met' /\ ChannelsOK'
    <3>2. PICK v : Send(p, Instr(p, th).peer, v, << "input", Instr(p, th).gate >>)
      BY <1>9 DEF InputOwnersSend
    <3>3. "InputOwnersSend" \in SendOps \ PrepOps /\ KindOf("InputOwnersSend") = "input"
      BY DEF SendOps, KindOf, PrepOps
    <3>. QED
      BY <2>0, <3>2, <3>3, SendingStep
  <2>2. QueuesOK'
    BY <1>9, <2>0, ApartFromQueues DEF InputOwnersSend, QueueOps
  <2>. QED
    BY <2>1, <2>2 DEF InStep
<1>10. CASE InputPartiesReceive(p, th)
  <2>0. At(p, th, "InputPartiesReceive") /\ Advance(p, th) /\ Moved(p, Instr(p, th)) /\ Instr(p, th).op = "InputPartiesReceive"
    BY <1>10, GoesOn DEF InputPartiesReceive, InStep, Advance
  <2>1. PlacesOK' /\ Met' /\ ChannelsOK'
    <3>2. Receive(Instr(p, th).peer, p)
      BY <1>10 DEF InputPartiesReceive
    <3>3. "InputPartiesReceive" \in ReceiveOps \ PrepOps
      BY DEF ReceiveOps, PrepOps
    <3>. QED
      BY <2>0, <3>2, <3>3, ReceivingStep
  <2>2. QueuesOK'
    BY <1>10, <2>0, ApartFromQueues DEF InputPartiesReceive, QueueOps
  <2>. QED
    BY <2>1, <2>2 DEF InStep
<1>11. CASE MultPartiesSendP1(p, th)
  <2>0. At(p, th, "MultPartiesSendP1") /\ Advance(p, th) /\ Moved(p, Instr(p, th)) /\ Instr(p, th).op = "MultPartiesSendP1"
    BY <1>11, GoesOn DEF MultPartiesSendP1, InStep, Advance
  <2>1. PlacesOK' /\ Met' /\ ChannelsOK'
    <3>1. Instr(p, th).peer = 0
      BY <2>0, PeerOfP1 DEF Moved, WithP1
    <3>2. PICK v : Send(p, 0, v, << "product", Instr(p, th).gate >>)
      BY <1>11 DEF MultPartiesSendP1
    <3>3. "MultPartiesSendP1" \in SendOps \ PrepOps /\ KindOf("MultPartiesSendP1") = "product"
      BY DEF SendOps, KindOf, PrepOps
    <3>. QED
      BY <2>0, <3>1, <3>2, <3>3, SendingStep
  <2>2. QueuesOK'
    BY <1>11, <2>0, ApartFromQueues DEF MultPartiesSendP1, QueueOps
  <2>. QED
    BY <2>1, <2>2 DEF InStep
<1>12. CASE MultP1Receives(p, th)
  <2>0. At(p, th, "MultP1Receives") /\ Advance(p, th) /\ Moved(p, Instr(p, th)) /\ Instr(p, th).op = "MultP1Receives"
    BY <1>12, GoesOn DEF MultP1Receives, InStep, Advance
  <2>1. PlacesOK' /\ Met' /\ ChannelsOK'
    <3>2. Receive(Instr(p, th).peer, p)
      BY <1>12 DEF MultP1Receives
    <3>3. "MultP1Receives" \in ReceiveOps \ PrepOps
      BY DEF ReceiveOps, PrepOps
    <3>. QED
      BY <2>0, <3>2, <3>3, ReceivingStep
  <2>2. QueuesOK'
    <3>1. PICK i : i = Instr(p, th) /\ Moved(p, i) /\ i.op = "MultP1Receives"
      BY <2>0
    <3>2. PICK v : /\ i.peer = Threshold => toSend' = Append(toSend, v) /\ fromLast' = Tail(fromLast)
                   /\ i.peer # Threshold => UNCHANGED << toSend, fromLast >>
      BY <1>12, <3>1 DEF MultP1Receives
    <3>. QED
      BY <3>1, <3>2, QueueMoved
  <2>. QED
    BY <2>1, <2>2 DEF InStep
<1>13. CASE MultP1SendsParties(p, th)
  <2>0. At(p, th, "MultP1SendsParties") /\ Advance(p, th) /\ Moved(p, Instr(p, th)) /\ Instr(p, th).op = "MultP1SendsParties"
    BY <1>13, GoesOn DEF MultP1SendsParties, InStep, Advance
  <2>1. PlacesOK' /\ Met' /\ ChannelsOK'
    <3>2. PICK v : Send(p, Instr(p, th).peer, v, << "opened", Instr(p, th).gate >>)
      BY <1>13 DEF MultP1SendsParties
    <3>3. "MultP1SendsParties" \in SendOps \ PrepOps /\ KindOf("MultP1SendsParties") = "opened"
      BY DEF SendOps, KindOf, PrepOps
    <3>. QED
      BY <2>0, <3>2, <3>3, SendingStep
  <2>2. QueuesOK'
    BY <1>13, <2>0, QueueEmptied DEF MultP1SendsParties
  <2>. QED
    BY <2>1, <2>2 DEF InStep
<1>14. CASE MultPartiesReceive(p, th)
  <2>0. At(p, th, "MultPartiesReceive") /\ Advance(p, th) /\ Moved(p, Instr(p, th)) /\ Instr(p, th).op = "MultPartiesReceive"
    BY <1>14, GoesOn DEF MultPartiesReceive, InStep, Advance
  <2>1. PlacesOK' /\ Met' /\ ChannelsOK'
    <3>1. Instr(p, th).peer = 0
      BY <2>0, PeerOfP1 DEF Moved, WithP1
    <3>2. Receive(0, p)
      BY <1>14 DEF MultPartiesReceive
    <3>3. "MultPartiesReceive" \in ReceiveOps \ PrepOps
      BY DEF ReceiveOps, PrepOps
    <3>. QED
      BY <2>0, <3>1, <3>2, <3>3, ReceivingStep
  <2>2. QueuesOK'
    BY <1>14, <2>0, ApartFromQueues DEF MultPartiesReceive, QueueOps
  <2>. QED
    BY <2>1, <2>2 DEF InStep
<1>15. CASE OutputPartiesSendOwners(p, th)
  <2>0. At(p, th, "OutputPartiesSendOwners") /\ Advance(p, th) /\ Moved(p, Instr(p, th)) /\ Instr(p, th).op = "OutputPartiesSendOwners"
    BY <1>15, GoesOn DEF OutputPartiesSendOwners, InStep, Advance
  <2>1. PlacesOK' /\ Met' /\ ChannelsOK'
    <3>2. PICK v : Send(p, Instr(p, th).peer, v, << "output", Instr(p, th).gate >>)
      BY <1>15 DEF OutputPartiesSendOwners
    <3>3. "OutputPartiesSendOwners" \in SendOps \ PrepOps /\ KindOf("OutputPartiesSendOwners") = "output"
      BY DEF SendOps, KindOf, PrepOps
    <3>. QED
      BY <2>0, <3>2, <3>3, SendingStep
  <2>2. QueuesOK'
    BY <1>15, <2>0, ApartFromQueues DEF OutputPartiesSendOwners, QueueOps
  <2>. QED
    BY <2>1, <2>2 DEF InStep
<1>16. CASE OutputOwnersReceive(p, th)
  <2>0. At(p, th, "OutputOwnersReceive") /\ Advance(p, th) /\ Moved(p, Instr(p, th)) /\ Instr(p, th).op = "OutputOwnersReceive"
    BY <1>16, GoesOn DEF OutputOwnersReceive, InStep, Advance
  <2>1. PlacesOK' /\ Met' /\ ChannelsOK'
    <3>2. Receive(Instr(p, th).peer, p)
      BY <1>16 DEF OutputOwnersReceive
    <3>3. "OutputOwnersReceive" \in ReceiveOps \ PrepOps
      BY DEF ReceiveOps, PrepOps
    <3>. QED
      BY <2>0, <3>2, <3>3, ReceivingStep
  <2>2. QueuesOK'
    BY <1>16, <2>0, ApartFromQueues DEF OutputOwnersReceive, QueueOps
  <2>. QED
    BY <2>1, <2>2 DEF InStep
<1>. QED
  BY <1>1, <1>2, <1>3, <1>4, <1>5, <1>6, <1>7, <1>8, <1>9, <1>10, <1>11, <1>12, <1>13, <1>14, <1>15, <1>16 DEF Step

\* At the beginning the receiving thread leaves behind what the sending one is
\* to send.
LEMMA Begins ==
  ASSUME Init
  PROVE  /\ PlacesOK
         /\ \A p \in Parties : /\ SendPlace[p] = 1 /\ ReceivePlace[p] \in 1 .. Len(Line[p]) + 1
                               /\ \A c \in 1 .. ReceivePlace[p] - 1 : Line[p][c].op \in ThreadOps
<1>1. phase = [p \in Parties |-> 1] /\ at = [p \in Parties |-> Starting]
  BY DEF Init
<1>2. \A p \in Parties : phase[p] = 1 /\ at[p]["thread"] = 1 /\ at[p]["main"] = 1
  BY <1>1 DEF Starting, Threads
<1>3. phase = [p \in Parties |-> phase[p]] /\ at = [p \in Parties |-> [th \in Threads |-> at[p][th]]]
  <2>1. \A p \in Parties : at[p] = [th \in Threads |-> at[p][th]]
    BY <1>1 DEF Starting
  <2>. QED
    BY <1>1, <2>1
<1>4. ASSUME NEW p \in Parties
      PROVE  /\ phase[p] \in 1 .. Len(Program[p]) + 1
             /\ ~Finished(p) => \A th \in Threads : at[p][th] \in 1 .. Len(Code(p, th)) + 1
             /\ SendPlace[p] = 1 /\ ReceivePlace[p] \in 1 .. Len(Line[p]) + 1
             /\ \A c \in 1 .. ReceivePlace[p] - 1 : Line[p][c].op \in ThreadOps
  <2>1. PICK l, k \in Nat : l = Len(Program[p]) /\ k = Len(Line[p])
    BY PhaseInLine, LineType
  <2>2. Before(p, 1) = 0 /\ 1 \in 1 .. l + 1
    BY PhaseInLine
  <2>3. SendPlace[p] = SendAt(p, 1, at[p]) /\ ReceivePlace[p] = ReceiveAt(p, 1, at[p])
    BY <1>2 DEF SendPlace, ReceivePlace
  <2>4. SendPlace[p] = 1
    BY <1>2, <2>2, <2>3 DEF SendAt
  <2>5. CASE l = 0
    <3>1. Finished(p) /\ 1 > Len(Program[p])
      BY <1>2, <2>1, <2>5 DEF Finished
    <3>2. ReceivePlace[p] = 1
      BY <2>2, <2>3, <3>1 DEF ReceiveAt
    <3>. QED
      BY <1>2, <2>1, <2>2, <2>4, <3>1, <3>2
  <2>6. CASE l # 0
    <3>1. 1 \in 1 .. l /\ ~(1 > Len(Program[p]))
      BY <2>1, <2>6
    <3>2. PICK t, m : InLine(p, 1, t, m)
      BY <2>1, <3>1, PhaseInLine
    <3>3. PICK d, v \in Nat : d = Len(t) /\ v = Len(m) /\ d + v <= k
      <4>1. t \in Seq(Instruction) /\ m \in Seq(Instruction) /\ Before(p, 1) + Len(t) + Len(m) <= Len(Line[p])
        BY <3>2 DEF InLine
      <4>2. Len(t) \in Nat /\ Len(m) \in Nat
        BY <4>1
      <4>. QED
        BY <2>1, <2>2, <4>1, <4>2
    <3>4. Code(p, "thread") = t /\ Code(p, "main") = m /\ Program[p][1].thread = t
      BY <1>2, <3>2 DEF Code, InLine
    <3>5. \A th \in Threads : at[p][th] \in 1 .. Len(Code(p, th)) + 1
      BY <1>2, <3>3, <3>4 DEF Threads
    <3>6. ReceivePlace[p] = d + 1
      BY <1>2, <2>2, <2>3, <3>1, <3>3, <3>4 DEF ReceiveAt
    <3>7. ASSUME NEW c \in 1 .. d PROVE Line[p][c].op \in ThreadOps
      <4>1. Line[p][0 + c] = t[c] /\ t[c].op \in ThreadOps
        BY <2>2, <3>2, <3>3 DEF InLine
      <4>. QED
        BY <4>1
    <3>. QED
      BY <1>2, <2>1, <2>2, <2>4, <3>3, <3>5, <3>6, <3>7
  <2>. QED
    BY <2>5, <2>6
<1>. QED
  BY <1>3, <1>4 DEF PlacesOK

\* Initially.
LEMMA InitInStep == Init => InStep
<1> SUFFICES ASSUME Init PROVE InStep
  OBVIOUS
<1>1. chan = NoMessages /\ fromLast = << >> /\ toSend = << >>
  BY DEF Init
<1>2. /\ PlacesOK
      /\ \A p \in Parties : /\ SendPlace[p] = 1 /\ ReceivePlace[p] \in 1 .. Len(Line[p]) + 1
                            /\ \A c \in 1 .. ReceivePlace[p] - 1 : Line[p][c].op \in ThreadOps
  BY Begins
<1>3. ChannelsOK
  BY <1>1 DEF ChannelsOK, NoMessages
<1>4. ASSUME NEW f, NEW p \in Parties, \A i \in Instruction : i.op \in ThreadOps => f[i] = << >>
      PROVE  Passes(f, Line[p], 1, ReceivePlace[p])
  <2>1. PICK k \in Nat : k = Len(Line[p]) /\ \A c \in 1 .. k : Line[p][c] \in Instruction
    BY LineType
  <2>2. PICK d \in 1 .. k + 1 : d = ReceivePlace[p]
    BY <1>2, <2>1
  <2>3. ASSUME NEW c \in 1 .. d - 1 PROVE f[Line[p][c]] = << >>
    <3>1. c \in 1 .. k
      BY <2>2
    <3>2. Line[p][c].op \in ThreadOps /\ Line[p][c] \in Instruction
      BY <1>2, <2>1, <2>2, <3>1
    <3>. QED
      BY <1>4, <3>2
  <2>4. 1 \in 1 .. d
    BY <2>2
  <2>. QED
    BY <2>1, <2>2, <2>3, <2>4 DEF Passes
<1>5. Met
  <2>1. PICK rp : rp = [p \in Parties |-> 1]
    OBVIOUS
  <2>2. Meeting(Parties, Instruction, Tag, SentTo, ReceivedFrom, Line, SendPlace, rp, chan)
    <3>1. \A p \in Parties : SendPlace[p] = 1 /\ rp[p] = 1
      BY <1>2, <2>1
    <3>2. \A p, q \in Parties : chan[q][p] = << >>
      BY <1>1 DEF NoMessages
    <3>. QED
      BY <3>1, <3>2, LinesTrade, MeetingAtFirst
  <2>3. SkipsOver(Parties, SentTo, Line, SendPlace, SendPlace)
    <3>1. \A q \in Parties : Len(Line[q]) \in Nat /\ SendPlace[q] \in 1 .. Len(Line[q]) + 1
      BY <1>2, SendsFirst
    <3>. QED
      BY <3>1, StepSkips, PartyNumbers
  <2>4. ASSUME NEW q \in Parties, NEW r \in Parties
        PROVE  Passes(ReceivedFrom[r], Line[q], rp[q], ReceivePlace[q])
    <3>1. PICK f : f = ReceivedFrom[r]
      OBVIOUS
    <3>2. \A i \in Instruction : i.op \in ThreadOps => f[i] = << >>
      BY <3>1 DEF ReceivedFrom, Reads, PrepOps, ReceiveOps, ThreadOps
    <3>. QED
      BY <1>4, <2>1, <3>1, <3>2
  <2>5. SkipsOver(Parties, ReceivedFrom, Line, rp, ReceivePlace)
    BY <2>4 DEF SkipsOver
  <2>. QED
    BY <2>2, <2>3, <2>5, SkippingMeets DEF Met
<1>6. QueuesOK
  <2>1. IsSeq(<< >>) /\ Len(<< >>) = 0
    BY NoTags DEF OnItsWay
  <2>2. PICK x \in Seq(Instruction) : x = Line[0]
    BY LineType, PartyNumbers
  <2>3. \A f : Ahead(f, x, 1) = Projected(f, x)
    BY AheadAll
  <2>4. /\ Len(Projected(PushesLast, x)) = Len(Projected(PopsLast, x))
        /\ Len(Projected(PopsLast, x)) = Len(Projected(PopsOpened, x))
    BY <2>2, LineBalanced DEF Balanced
  <2>5. ASSUME NEW f \in {PushesLast, PopsLast} PROVE Left(f, ReceivePlace[0]) = Len(Projected(f, x))
    <3>1. ASSUME NEW i \in Instruction, i.op \in ThreadOps PROVE f[i] = << >>
      <4>1. Len(PushesLast[i]) = 0 /\ Len(PopsLast[i]) = 0
        BY <3>1, QueueReads DEF ThreadOps
      <4>. QED
        BY <4>1, EmptyOrNot
    <3>2. Passes(f, Line[0], 1, ReceivePlace[0])
      BY <1>4, <3>1, PartyNumbers
    <3>3. Left(f, 1) = Left(f, ReceivePlace[0])
      BY <3>2, LeftBehind, QueueMaps
    <3>4. Ahead(f, x, 1) = Projected(f, x)
      BY <2>3
    <3>. QED
      BY <2>2, <3>3, <3>4 DEF Left
  <2>6. Left(PopsOpened, SendPlace[0]) = Len(Projected(PopsOpened, x))
    <3>1. Ahead(PopsOpened, x, 1) = Projected(PopsOpened, x)
      BY <2>3
    <3>. QED
      BY <1>2, <2>2, <3>1, PartyNumbers DEF Left
  <2>7. PICK a \in Nat : /\ a = Left(PushesLast, ReceivePlace[0]) /\ a = Left(PopsLast, ReceivePlace[0])
                         /\ a = Left(PopsOpened, SendPlace[0])
    <3>1. Projected(PopsLast, x) \in Seq(Tag)
      BY QueueMaps, ProjectedType
    <3>2. Len(Projected(PopsLast, x)) \in Nat
      BY <3>1
    <3>. QED
      BY <2>4, <2>5, <2>6, <3>2
  <2>8. a + 0 = a
    OBVIOUS
  <2>. QED
    BY <1>1, <2>1, <2>7, <2>8, Zenon DEF QueuesOK, Fits, Left
<1>. QED
  BY <1>2, <1>3, <1>5, <1>6 DEF InStep

\* A step of the system keeps the parties in step, whichever thread takes it.
LEMMA NextInStep == InStep /\ [Next]_vars => InStep'
<1> SUFFICES ASSUME InStep, [Next]_vars PROVE InStep'
  OBVIOUS
<1>1. CASE SomeStep
  <2>1. ASSUME NEW p \in Parties, Join(p) PROVE InStep'
    BY <2>1, JoinsMeet, JoinsQueues DEF InStep
  <2>2. ASSUME NEW p \in Parties, NEW th \in Threads, Step(p, th) PROVE InStep'
    BY <2>2, StepInStep
  <2>. QED
    BY <1>1, <2>1, <2>2 DEF SomeStep
<1>2. CASE UNCHANGED vars
  <2>1. UNCHANGED << phase, at, chan, fromLast, toSend >>
    BY <1>2 DEF vars, prepVars, onlineVars
  <2>2. SendPlace' = SendPlace /\ ReceivePlace' = ReceivePlace
    BY <2>1 DEF SendPlace, ReceivePlace
  <2>3. PlacesOK'
    BY <2>1 DEF InStep, PlacesOK, Finished, Code
  <2>4. ChannelsOK' /\ QueuesOK'
    BY <2>1, <2>2 DEF InStep, ChannelsOK, QueuesOK, Fits
  <2>5. Met'
    BY <2>1, <2>2 DEF InStep, Met
  <2>. QED
    BY <2>3, <2>4, <2>5 DEF InStep
<1>. QED
  BY <1>1, <1>2 DEF Next

\* At the end nothing is left.
LEMMA NothingLeft ==
  ASSUME InStep, AllFinished
  PROVE  chan = NoMessages /\ fromLast = << >> /\ toSend = << >>
<1>0. PlacesOK /\ ChannelsOK /\ Met /\ QueuesOK
  BY DEF InStep
<1>1. ASSUME NEW p \in Parties PROVE SendPlace[p] = Len(Line[p]) + 1 /\ ReceivePlace[p] = Len(Line[p]) + 1
  BY <1>0, SendsFirst DEF AllFinished
<1>2. ASSUME NEW p \in Parties, NEW q \in Parties PROVE chan[q][p] = << >>
  BY <1>0, <1>1, NothingMeets DEF Met
<1>3. chan = NoMessages
  BY <1>0, <1>2 DEF ChannelsOK, NoMessages
<1>4. fromLast = << >> /\ toSend = << >>
  <2>1. PICK x \in Seq(Instruction) : x = Line[0]
    BY LineType, PartyNumbers
  <2>2. SendPlace[0] = Len(x) + 1 /\ ReceivePlace[0] = Len(x) + 1
    BY <1>1, <2>1, PartyNumbers
  <2>3. /\ Ahead(PushesLast, x, Len(x) + 1) = << >> /\ Ahead(PopsLast, x, Len(x) + 1) = << >>
        /\ Ahead(PopsOpened, x, Len(x) + 1) = << >>
    BY QueueMaps, AheadInTurn
  <2>4. PICK k, h : k = Len(fromLast) /\ h = Len(toSend)
    OBVIOUS
  <2>5. Len(<< >>) + k = Len(<< >>) /\ Len(<< >>) + h = Len(<< >>)
    BY <1>0, <2>1, <2>2, <2>3, <2>4 DEF QueuesOK, Fits
  <2>6. k \in Nat /\ h \in Nat /\ Len(<< >>) = 0
    BY <1>0, <2>4 DEF QueuesOK, IsSeq
  <2>7. k = 0 /\ h = 0
    BY <2>5, <2>6
  <2>. QED
    BY <1>0, <2>4, <2>7, EmptySeq DEF QueuesOK, IsSeq
<1>. QED
  BY <1>3, <1>4

\* What a thread that receives is at is where its party's line receives.
LEMMA AtInstruction ==
  ASSUME PlacesOK, NEW p \in Parties, NEW th \in Threads, Receives(p, th)
  PROVE  \E i \in Instruction : /\ i = Instr(p, th) /\ i.op \in ReceiveOps
                                /\ i = Line[p][ReceivePlace[p]] /\ ReceivePlace[p] <= Len(Line[p])
<1>0. ~Finished(p) /\ ~Through(p, th) /\ Instr(p, th) = Code(p, th)[at[p][th]] /\ Instr(p, th).op \in ReceiveOps
  BY DEF Receives, Instr
<1>1. PICK n, t, m, a, b : WorksAt(p, n, t, m, a, b)
  BY <1>0, Works
<1>2. PICK u, v \in Nat : u = Len(t) /\ v = Len(m) /\ a \in 1 .. u + 1 /\ b \in 1 .. v + 1
  BY <1>1, SMTT(60) DEF WorksAt, InLine
<1>3. PICK e \in Nat, k \in Nat : e = Before(p, n) /\ k = Len(Line[p]) /\ e + u + v <= k
  <2>1. n \in 1 .. Len(Program[p]) + 1 /\ Len(Line[p]) \in Nat
    BY <1>1, PhaseInLine, LineType DEF WorksAt
  <2>2. Before(p, n) \in Nat
    BY <2>1, PhaseInLine
  <2>. QED
    BY <1>1, <1>2, <2>1, <2>2 DEF WorksAt, InLine
<1>4. /\ \A j \in 1 .. u : t[j].op \in ThreadOps
      /\ \A j \in 1 .. v : Line[p][e + u + j] = m[j]
  BY <1>1, <1>2, <1>3 DEF WorksAt, InLine
<1>5. /\ ReceivePlace[p] = e + (u + b)
      /\ a = at[p]["thread"] /\ b = at[p]["main"] /\ Code(p, "thread") = t /\ Code(p, "main") = m
  BY <1>1, <1>2, <1>3 DEF WorksAt
<1>6. th = "main"
  <2>1. ASSUME th = "thread" PROVE FALSE
    <3>1. ~(a > u) /\ Instr(p, th) = t[a]
      BY <1>0, <1>2, <1>5, <2>1 DEF Through
    <3>2. a \in 1 .. u
      BY <1>2, <3>1
    <3>3. t[a].op \in ThreadOps
      BY <1>4, <3>2
    <3>. QED
      BY <1>0, <3>1, <3>3 DEF ThreadOps, ReceiveOps
  <2>. QED
    BY <2>1 DEF Threads
<1>7. b \in 1 .. v /\ Instr(p, th) = m[b]
  <2>1. ~(b > v) /\ Instr(p, th) = m[b]
    BY <1>0, <1>2, <1>5, <1>6 DEF Through
  <2>. QED
    BY <1>2, <2>1
<1>8. ReceivePlace[p] = e + u + b /\ e + u + b \in 1 .. k
  <2>1. PICK c \in 1 .. v : c = b
    BY <1>7
  <2>2. e + (u + c) = e + u + c /\ e + u + c \in 1 .. k
    BY <1>3
  <2>. QED
    BY <1>5, <2>1, <2>2
<1>9. Line[p][e + u + b] = m[b] /\ Line[p][e + u + b] \in Instruction
  BY <1>3, <1>4, <1>7, <1>8, LineType
<1>. QED
  BY <1>0, <1>3, <1>7, <1>8, <1>9

\* What it expects is what the line takes there.
LEMMA ExpectedTags ==
  ASSUME NEW i \in Instruction, i.op \in ReceiveOps, NEW q \in Parties
  PROVE  Expected(i, q) = ReceivedFrom[q][i]
<1>1. CASE i.op \in PrepOps
  <2>1. i.op = "PrepPartiesReceive"
    BY <1>1 DEF PrepOps, ReceiveOps
  <2>2. PICK b \in 1 .. Len(Blocks) : b = i.block
    BY <2>1, InstructionForms DEF WithP1, WithAny
  <2>3. ReceivedFrom[q][i] = PrepTags(b)
    BY <2>1, <2>2 DEF ReceivedFrom, Reads, ReceiveOps, PrepOps
  <2>4. CASE Blocks[b] = "random"
    BY <2>1, <2>2, <2>3, <2>4, TagsOfBlock DEF Expected
  <2>5. CASE Blocks[b] # "random"
    BY <2>1, <2>2, <2>3, <2>5, TagsOfBlock DEF Expected
  <2>. QED
    BY <2>4, <2>5
<1>2. CASE i.op \notin PrepOps
  <2>1. i.op # "PrepPartiesReceive" /\ i.op # "SetInputShares"
    BY <1>2 DEF PrepOps, ReceiveOps
  <2>2. Expects(i) = << KindOf(i.op), i.gate >>
    BY <1>2 DEF Expects, KindOf, ReceiveOps, PrepOps
  <2>3. ReceivedFrom[q][i] = IF i.peer = q THEN << << KindOf(i.op), i.gate >> >> ELSE << >>
    BY <1>2, <2>1 DEF ReceivedFrom, Reads
  <2>. QED
    BY <2>1, <2>2, <2>3 DEF Expected
<1>. QED
  BY <1>1, <1>2

\* And on the way what arrives is what is asked for.
LEMMA InStepReceives == InStep => ReceivesItsOwn
<1> SUFFICES ASSUME InStep PROVE ReceivesItsOwn
  OBVIOUS
<1>1. ASSUME NEW p \in Parties, NEW q \in Parties, NEW th \in Threads, Receives(p, th),
             NEW d \in DOMAIN Expected(Instr(p, th), q), d <= Len(chan[q][p])
      PROVE  chan[q][p][d].tag = Expected(Instr(p, th), q)[d]
  <2>1. PICK i \in Instruction : /\ i = Instr(p, th) /\ i.op \in ReceiveOps
                                 /\ i = Line[p][ReceivePlace[p]] /\ ReceivePlace[p] <= Len(Line[p])
    BY <1>1, AtInstruction DEF InStep
  <2>2. PICK t : t = ReceivedFrom[q][i] /\ t = Expected(Instr(p, th), q)
    BY <2>1, ExpectedTags
  <2>3. Meeting(Parties, Instruction, Tag, SentTo, ReceivedFrom, Line, SendPlace, ReceivePlace, chan)
    BY DEF InStep, Met
  <2>4. t = ReceivedFrom[q][Line[p][ReceivePlace[p]]] /\ d \in DOMAIN t
    BY <1>1, <2>1, <2>2
  <2>5. chan[q][p][d].tag = t[d]
    BY <1>1, <2>1, <2>3, <2>4, MessagesMeet
  <2>. QED
    BY <2>2, <2>5
<1>2. AllFinished => chan = NoMessages /\ fromLast = << >> /\ toSend = << >>
  BY NothingLeft
<1>. QED
  BY <1>1, <1>2, Zenon DEF ReceivesItsOwn

\* Every party receives what was sent for what it is at, message by message,
\* whatever the order the parties and their two threads go on in, those of the
\* preparation and of each layer, and at the end nothing is left on a channel or
\* in P1's queues (DN07::PrepParties..., FDMult..., InputProtocol,
\* MultProtocol, OutputProtocol of dn07.cc, in experiments/dn07.cc's order).
THEOREM ReceivedForItsGate == Spec => []ReceivesItsOwn
<1>1. InStep => ReceivesItsOwn
  BY InStepReceives
<1>. QED
  BY <1>1, InitInStep, NextInStep, PTL DEF Spec
=============================================================================
